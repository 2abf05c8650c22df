---------------------------- MODULE ConnectionPool ----------------------------
(***************************************************************************)
(* SqliteConnectionPool: a fixed number of connections, whose slots lie in *)
(* a channel.  A coroutine that finds the channel empty waits in it; a     *)
(* handle gives its slot back when it goes out of scope, to the first that *)
(* waits.  Every use of a connection is one synchronous stretch of code.   *)
(*                                                                         *)
(* The channel is not one for several threads, although the threads of the *)
(* executor share it; its operations are taken as atomic here.             *)
(***************************************************************************)
EXTENDS Naturals, Sequences, FiniteSets

CONSTANTS PoolSize,  \* kDefaultPoolSize
          Clients    \* coroutines that use the database

ASSUME PoolAssumption == PoolSize \in Nat \ {0} /\ IsFiniteSet(Clients)

VARIABLES
    free,   \* free_slots_: the slots in the channel,
    queue,  \* and the coroutines that wait for one
    held    \* the slot of a coroutine's handle, 0 without one

poolVars == <<free, queue, held>>

Slots == 1..PoolSize

PoolTypes ==
    /\ free \in Seq(Slots)
    /\ queue \in Seq(Clients)
    /\ held \in [Clients -> Slots \union {0}]

\* The constructor opens the connections and fills the channel.
PoolOpens ==
    /\ free' = [i \in Slots |-> i]
    /\ queue' = <<>>
    /\ held' = [c \in Clients |-> 0]

Queued(c) == \E i \in DOMAIN queue : queue[i] = c

\* acquire(): a slot from the channel, or a place in it.
Acquire(c) ==
    /\ held[c] = 0
    /\ ~Queued(c)
    /\ \/ /\ free # <<>>
          /\ held' = [held EXCEPT ![c] = Head(free)]
          /\ free' = Tail(free)
          /\ UNCHANGED queue
       \/ /\ free = <<>>
          /\ queue' = Append(queue, c)
          /\ UNCHANGED <<free, held>>

\* A handle that always puts its slot into the channel, past those who wait.
ReleaseToChannel(c) ==
    /\ held[c] # 0
    /\ held' = [held EXCEPT ![c] = 0]
    /\ free' = Append(free, held[c])
    /\ UNCHANGED queue

\* A handle that is moved from but keeps its slot, and returns it again.
ReleaseKeeps(c) ==
    /\ held[c] # 0
    /\ free' = Append(free, held[c])
    /\ UNCHANGED <<held, queue>>

\* release_() and return_slot_().
Release(c) ==
    /\ held[c] # 0
    /\ \/ /\ queue # <<>>
          /\ held' = [held EXCEPT ![c] = 0, ![Head(queue)] = held[c]]
          /\ queue' = Tail(queue)
          /\ UNCHANGED free
       \/ /\ queue = <<>>
          /\ held' = [held EXCEPT ![c] = 0]
          /\ free' = Append(free, held[c])
          /\ UNCHANGED queue

-----------------------------------------------------------------------------
\* No connection is lent twice or lost, whatever fails while it is lent, and
\* nobody waits for one while there is one.
PoolConserved ==
    /\ \A c, d \in Clients : held[c] # 0 /\ held[c] = held[d] => c = d
    /\ Len(free) + Cardinality({c \in Clients : held[c] # 0}) = PoolSize
    /\ queue # <<>> => free = <<>>
=============================================================================
