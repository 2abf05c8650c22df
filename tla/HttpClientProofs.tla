--------------------------- MODULE HttpClientProofs ---------------------------
(***************************************************************************)
(* What the HTTP client keeps, for any number of requests, endpoints and   *)
(* redirects and any size of the pool: its safety properties, from one     *)
(* inductive invariant.                                                    *)
(***************************************************************************)
EXTENDS HttpClient, SequenceTheorems, WellFoundedInduction, TLAPS

\* On a socket in use the request's own reply is due, and only while the request
\* is reading; it was not too long in the pool.
SocketInv ==
    \A r \in Requests :
        /\ sock[r].due = IF pc[r] = "read" THEN <<r>> ELSE <<>>
        /\ ~sock[r].old

\* The old sockets of a deque are at its front.
OldFirst(q) == \A i, j \in DOMAIN q : i < j /\ q[j].old => q[i].old

\* Nothing is due on the sockets in the pool.
NothingDue(q) == \A i \in DOMAIN q : q[i].due = <<>>

DequeOK(q) ==
    /\ Len(q) <= MaxIdle
    /\ OldFirst(q)
    /\ NothingDue(q)

IdleInv == \A e \in Endpoints : DequeOK(idle[e])

\* A request that has passed the head of the loop with its Authorization header
\* is at the origin it was meant for, and so is one that was not redirected; a
\* request that has not begun has sent nothing.
AuthInv ==
    \A r \in Requests :
        /\ sentAuth[r] \subseteq {start[r]}
        /\ auth[r] /\ pc[r] # "take" => at[r] = start[r]
        /\ hop[r] = 0 => at[r] = start[r]
        /\ pc[r] = "idle" => sentAuth[r] = {}

HttpInv ==
    /\ TypeOK
    /\ SocketInv
    /\ IdleInv
    /\ AuthInv
    /\ OwnReply

-----------------------------------------------------------------------------
(***************************************************************************)
(* Pruning.                                                                *)
(***************************************************************************)

\* A set of naturals that is not empty has a least element.
LEMMA LeastNat ==
    ASSUME NEW S \in SUBSET Nat, S # {}
    PROVE  \E n \in S : \A m \in S : n <= m
<1> DEFINE R == OpToRel(<, Nat)
<1>1. IsWellFoundedOn(R, Nat)
  BY NatLessThanWellFounded
<1>2. \E x \in S : \A y \in S : ~(<<y, x>> \in R)
  <2> HIDE DEF R
  <2> QED BY <1>1, WFMin
<1>3. \A x, y \in S : ~(<<y, x>> \in R) => x <= y
  BY DEF OpToRel
<1> QED BY <1>2, <1>3

\* prune_locked() returns a suffix of the deque; when the old sockets are at the
\* front, none of them is left.
LEMMA PruneKeepsFresh ==
    ASSUME NEW q \in Seq(Socket), OldFirst(q), NothingDue(q)
    PROVE  /\ Prune(q) \in Seq(Socket)
           /\ Len(Prune(q)) <= Len(q)
           /\ NothingDue(Prune(q))
           /\ \A i \in DOMAIN Prune(q) : ~Prune(q)[i].old
<1> DEFINE Keeps(i) == /\ \A j \in 1..(i - 1) : q[j].old
                       /\ i <= Len(q) => ~q[i].old
           S == {i \in 1..(Len(q) + 1) : i <= Len(q) => ~q[i].old}
           keep == CHOOSE i \in 1..(Len(q) + 1) : Keeps(i)
<1>1. S \in SUBSET Nat /\ Len(q) + 1 \in S
  OBVIOUS
<1>2. PICK n \in S : \A m \in S : n <= m
  <2> HIDE DEF S
  <2> QED BY <1>1, LeastNat
<1>3. n \in 1..(Len(q) + 1) /\ Keeps(n)
  BY <1>2
<1>4. keep \in 1..(Len(q) + 1) /\ Keeps(keep)
  <2> HIDE DEF Keeps
  <2> QED BY <1>3
<1>5. Prune(q) = SubSeq(q, keep, Len(q))
  BY DEF Prune
<1> HIDE DEF keep
<1>6. /\ Prune(q) \in Seq(Socket)
      /\ Len(Prune(q)) = Len(q) - keep + 1
      /\ \A i \in 1..(Len(q) - keep + 1) : Prune(q)[i] = q[keep + i - 1]
  BY <1>4, <1>5
<1>7. \A j \in keep..Len(q) : ~q[j].old
  <2> SUFFICES ASSUME NEW j \in keep..Len(q), q[j].old PROVE FALSE
    OBVIOUS
  <2>1. ~q[keep].old
    BY <1>4
  <2>2. keep # j => q[keep].old
    BY <1>4 DEF OldFirst
  <2> QED BY <2>1, <2>2
<1>8. \A i \in DOMAIN Prune(q) : keep + i - 1 \in keep..Len(q) /\ keep + i - 1 \in DOMAIN q
  BY <1>4, <1>6
<1> HIDE DEF S, Keeps
<1>9. Len(Prune(q)) <= Len(q)
  BY <1>4, <1>6
<1>10. \A i \in DOMAIN Prune(q) :
          /\ Prune(q)[i] = q[keep + i - 1]
          /\ ~q[keep + i - 1].old
          /\ q[keep + i - 1].due = <<>>
  <2> TAKE i \in DOMAIN Prune(q)
  <2>1. i \in 1..(Len(q) - keep + 1)
    BY <1>4, <1>6
  <2>2. Prune(q)[i] = q[keep + i - 1]
    BY <1>6, <2>1
  <2>3. ~q[keep + i - 1].old
    BY <1>7, <1>8
  <2>4. q[keep + i - 1].due = <<>>
    BY <1>8 DEF NothingDue
  <2> QED BY <2>2, <2>3, <2>4
<1>11. NothingDue(Prune(q))
  BY <1>10 DEF NothingDue
<1>12. \A i \in DOMAIN Prune(q) : ~Prune(q)[i].old
  BY <1>10
<1> QED BY <1>6, <1>9, <1>11, <1>12

\* A socket on which nothing is due and which is not old is as good as new.
LEMMA AsGoodAsNew ==
    ASSUME NEW s \in Socket, s.due = <<>>, ~s.old
    PROVE  s = NewSocket
BY DEF Socket, NewSocket

\* What take_plain() and take_tls() leave and what they hand out.
LEMMA TakeKeepsDeque ==
    ASSUME NEW q \in Seq(Socket), DequeOK(q)
    PROVE  /\ Prune(q) \in Seq(Socket)
           /\ DequeOK(Prune(q))
           /\ Prune(q) # <<>> =>
                /\ SubSeq(Prune(q), 1, Len(Prune(q)) - 1) \in Seq(Socket)
                /\ DequeOK(SubSeq(Prune(q), 1, Len(Prune(q)) - 1))
                /\ Prune(q)[Len(Prune(q))] = NewSocket
<1> DEFINE p == Prune(q)
           f == SubSeq(p, 1, Len(p) - 1)
<1>1. /\ p \in Seq(Socket)
      /\ Len(p) <= Len(q)
      /\ NothingDue(p)
      /\ \A i \in DOMAIN p : ~p[i].old
  BY PruneKeepsFresh DEF DequeOK
<1> HIDE DEF p
<1>2. DequeOK(p)
  <2>1. Len(p) <= MaxIdle
    BY <1>1, HttpAssumption DEF DequeOK, HttpAssumption
  <2>2. OldFirst(p)
    BY <1>1 DEF OldFirst
  <2> QED BY <1>1, <2>1, <2>2 DEF DequeOK
<1>3. ASSUME p # <<>>
      PROVE  f \in Seq(Socket) /\ DequeOK(f) /\ p[Len(p)] = NewSocket
  <2>1. Len(p) \in Nat /\ Len(p) > 0 /\ Len(p) \in DOMAIN p
    BY <1>1, <1>3
  <2>2. /\ f \in Seq(Socket)
        /\ Len(f) = Len(p) - 1
        /\ DOMAIN f = 1..(Len(p) - 1)
        /\ \A i \in 1..(Len(p) - 1) : f[i] = p[i] /\ i \in DOMAIN p
    <3>1. f \in Seq(Socket)
      BY <1>1, <2>1
    <3>2. Len(f) = Len(p) - 1
      <4>1. \A i \in 1..(Len(p) - 1) : p[i] \in Socket
        BY <1>1, <2>1
      <4>2. Len(p) - 1 \in Int /\ 1 \in Int
        BY <2>1
      <4>3. Len(f) = IF 1 <= Len(p) - 1 THEN (Len(p) - 1) - 1 + 1 ELSE 0
        BY <4>1, <4>2, SubSeqProperties
      <4>4. ASSUME NEW k \in Nat, k > 0
            PROVE  (IF 1 <= k - 1 THEN (k - 1) - 1 + 1 ELSE 0) = k - 1
        BY <4>4
      <4> HIDE DEF f
      <4> QED BY <2>1, <4>3, <4>4
    <3>3. \A i \in 1..(Len(p) - 1) : f[i] = p[i]
      BY <1>1, <2>1
    <3>4. \A i \in 1..(Len(p) - 1) : i \in DOMAIN p
      BY <1>1, <2>1
    <3> HIDE DEF f
    <3>5. DOMAIN f = 1..(Len(p) - 1)
      BY <3>1, <3>2
    <3> QED BY <3>1, <3>2, <3>3, <3>4, <3>5
  <2> HIDE DEF f
  <2>3. Len(f) <= MaxIdle
    BY <1>2, <2>1, <2>2, HttpAssumption DEF DequeOK, HttpAssumption
  <2>4. OldFirst(f)
    BY <1>1, <2>2 DEF OldFirst
  <2>5. NothingDue(f)
    BY <1>1, <2>2 DEF NothingDue
  <2>6. p[Len(p)] \in Socket /\ p[Len(p)].due = <<>> /\ ~p[Len(p)].old
    BY <1>1, <2>1 DEF NothingDue
  <2>7. p[Len(p)] = NewSocket
    BY <2>6, AsGoodAsNew
  <2> QED BY <2>2, <2>3, <2>4, <2>5, <2>7 DEF DequeOK
<1> QED BY <1>1, <1>2, <1>3 DEF p

\* A socket that is returned goes behind the older ones.
LEMMA AppendKeepsDeque ==
    ASSUME NEW q \in Seq(Socket), DequeOK(q), Len(q) < MaxIdle
    PROVE  Append(q, NewSocket) \in Seq(Socket) /\ DequeOK(Append(q, NewSocket))
<1> DEFINE a == Append(q, NewSocket)
<1>1. NewSocket \in Socket /\ NewSocket.due = <<>> /\ ~NewSocket.old
  BY DEF NewSocket, Socket
<1>2. /\ a \in Seq(Socket)
      /\ Len(a) = Len(q) + 1
      /\ DOMAIN a = 1..(Len(q) + 1)
      /\ DOMAIN q = 1..Len(q)
      /\ Len(q) \in Nat
      /\ \A i \in 1..Len(q) : a[i] = q[i]
      /\ a[Len(q) + 1] = NewSocket
  BY <1>1
<1> HIDE DEF a
<1>3. Len(a) <= MaxIdle
  BY <1>2, HttpAssumption DEF HttpAssumption
<1>4. OldFirst(a)
  BY <1>1, <1>2 DEF OldFirst, DequeOK
<1>5. NothingDue(a)
  BY <1>1, <1>2 DEF NothingDue, DequeOK
<1> QED BY <1>2, <1>3, <1>4, <1>5 DEF DequeOK, a

\* Sockets age from the front.
LEMMA AgeKeepsDeque ==
    ASSUME NEW q \in Seq(Socket), DequeOK(q), NEW n \in 1..Len(q)
    PROVE  LET a == [i \in DOMAIN q |-> [q[i] EXCEPT !.old = @ \/ i <= n]]
           IN  a \in Seq(Socket) /\ DequeOK(a)
<1> DEFINE a == [i \in DOMAIN q |-> [q[i] EXCEPT !.old = @ \/ i <= n]]
<1>1. DOMAIN q = 1..Len(q) /\ Len(q) \in Nat
  OBVIOUS
<1>2. ASSUME NEW i \in 1..Len(q)
      PROVE  /\ a[i] \in Socket
             /\ a[i].due = q[i].due
             /\ a[i].old = (q[i].old \/ i <= n)
  <2>1. q[i] \in Socket
    BY <1>1
  <2>2. a[i] = [q[i] EXCEPT !.old = @ \/ i <= n]
    BY <1>1
  <2> HIDE DEF a
  <2> QED BY <2>1, <2>2 DEF Socket
<1>3. DOMAIN a = 1..Len(q)
  BY <1>1
<1>4. a \in [1..Len(q) -> Socket]
  BY <1>1, <1>2
<1> HIDE DEF a
<1>5. a \in Seq(Socket) /\ Len(a) = Len(q)
  BY <1>1, <1>3, <1>4
<1>6. OldFirst(a)
  <2> SUFFICES ASSUME NEW i \in 1..Len(q), NEW j \in 1..Len(q), i < j, a[j].old
               PROVE  a[i].old
    BY <1>3 DEF OldFirst
  <2>1. q[j].old \/ j <= n
    BY <1>2
  <2>2. q[j].old => q[i].old
    BY <1>1 DEF DequeOK, OldFirst
  <2>3. j <= n => i <= n
    BY <1>1
  <2> QED BY <1>2, <2>1, <2>2, <2>3
<1>7. NothingDue(a)
  BY <1>1, <1>2, <1>3 DEF NothingDue, DequeOK
<1> QED BY <1>5, <1>6, <1>7 DEF DequeOK, a

-----------------------------------------------------------------------------
(***************************************************************************)
(* Every action keeps HttpInv.                                             *)
(***************************************************************************)

\* A coroutine that returns leaves no state behind.
LEMMA ReturnKeepsRequests ==
    ASSUME HttpInv, NEW r \in Requests, Return(r)
    PROVE  /\ pc' \in [Requests -> {"idle", "take", "opening", "write", "read",
                                    "release", "shutdown", "follow"}]
           /\ start' \in [Requests -> Endpoints]
           /\ at' \in [Requests -> Endpoints]
           /\ hop' \in [Requests -> 0..MaxRedirects]
           /\ auth' \in [Requests -> BOOLEAN]
           /\ got' \in [Requests -> SUBSET Requests]
           /\ sentAuth' \in [Requests -> SUBSET Endpoints]
           /\ AuthInv'
           /\ OwnReply'
<1>1. Nowhere \in Endpoints
  BY HttpAssumption DEF Nowhere, HttpAssumption
<1>2. 0 \in 0..MaxRedirects
  BY HttpAssumption DEF HttpAssumption
<1> USE DEF HttpInv, TypeOK, Return, Go
<1>3. /\ pc' \in [Requests -> {"idle", "take", "opening", "write", "read",
                                 "release", "shutdown", "follow"}]
      /\ start' \in [Requests -> Endpoints]
      /\ at' \in [Requests -> Endpoints]
      /\ hop' \in [Requests -> 0..MaxRedirects]
      /\ auth' \in [Requests -> BOOLEAN]
      /\ got' \in [Requests -> SUBSET Requests]
      /\ sentAuth' \in [Requests -> SUBSET Endpoints]
  BY <1>1, <1>2
<1>4. OwnReply'
  BY DEF OwnReply
<1>5. AuthInv'
  BY DEF AuthInv
<1> QED BY <1>3, <1>4, <1>5

LEMMA StartStep ==
    ASSUME HttpInv, NEW r \in Requests, NEW e \in Endpoints, Start(r, e)
    PROVE  HttpInv'
<1> USE DEF HttpInv, TypeOK, Start, Go, poolVars
<1>1. TypeOK'
  OBVIOUS
<1>2. SocketInv'
  BY DEF SocketInv
<1>3. IdleInv'
  BY DEF IdleInv
<1>4. AuthInv'
  BY DEF AuthInv
<1>5. OwnReply'
  BY DEF OwnReply
<1> QED BY <1>1, <1>2, <1>3, <1>4, <1>5

LEMMA HopStep ==
    ASSUME HttpInv, NEW r \in Requests, Hop(r)
    PROVE  HttpInv'
<1> DEFINE e == at[r]
           q == Prune(idle[e])
           f == SubSeq(q, 1, Len(q) - 1)
<1>1. e \in Endpoints /\ idle[e] \in Seq(Socket) /\ DequeOK(idle[e])
  BY DEF HttpInv, TypeOK, IdleInv
<1>2. /\ q \in Seq(Socket)
      /\ DequeOK(q)
      /\ q # <<>> => f \in Seq(Socket) /\ DequeOK(f) /\ q[Len(q)] = NewSocket
  BY <1>1, TakeKeepsDeque
<1>3. \/ idle' = [idle EXCEPT ![e] = q] /\ sock' = sock /\ Go(r, "opening")
      \/ /\ q # <<>>
         /\ idle' = [idle EXCEPT ![e] = f]
         /\ sock' = [sock EXCEPT ![r] = q[Len(q)]]
         /\ Go(r, "write")
  BY DEF Hop, TakeSocket
<1>4. known' = known \union {e}
  BY DEF Hop, TakeSocket
<1>5. /\ pc[r] = "take"
      /\ auth' = [auth EXCEPT ![r] = @ /\ (hop[r] > 0 => at[r] = start[r])]
      /\ UNCHANGED <<start, at, hop, got, sentAuth>>
  BY DEF Hop
<1> HIDE DEF q, f
<1>6. NewSocket \in Socket /\ NewSocket.due = <<>> /\ ~NewSocket.old
  BY DEF NewSocket, Socket
<1>7. /\ \/ idle' = [idle EXCEPT ![e] = q]
         \/ idle' = [idle EXCEPT ![e] = f] /\ f \in Seq(Socket) /\ DequeOK(f)
      /\ \/ sock' = sock
         \/ sock' = [sock EXCEPT ![r] = NewSocket]
      /\ Go(r, "opening") \/ Go(r, "write")
  BY <1>2, <1>3
<1>8. sock' \in [Requests -> Socket] /\ idle' \in [Endpoints -> Seq(Socket)]
  <2>1. sock \in [Requests -> Socket] /\ idle \in [Endpoints -> Seq(Socket)]
    BY DEF HttpInv, TypeOK
  <2>2. sock' \in [Requests -> Socket]
    BY <1>6, <1>7, <2>1
  <2>3. idle' \in [Endpoints -> Seq(Socket)]
    BY <1>1, <1>2, <1>7, <2>1
  <2> QED BY <2>2, <2>3
<1>9. pc' \in [Requests -> {"idle", "take", "opening", "write", "read",
                            "release", "shutdown", "follow"}]
  BY <1>7 DEF HttpInv, TypeOK, Go
<1>10. auth' \in [Requests -> BOOLEAN]
  BY <1>5 DEF HttpInv, TypeOK
<1>11. TypeOK'
  BY <1>1, <1>4, <1>5, <1>8, <1>9, <1>10 DEF HttpInv, TypeOK
<1>12. SocketInv'
  BY <1>5, <1>6, <1>7 DEF HttpInv, TypeOK, SocketInv, Go
<1>13. IdleInv'
  BY <1>1, <1>2, <1>7 DEF HttpInv, TypeOK, IdleInv
<1>14. AuthInv'
  <2> SUFFICES ASSUME NEW x \in Requests
               PROVE  /\ sentAuth[x] \subseteq {start[x]}
                      /\ auth'[x] /\ pc'[x] # "take" => at[x] = start[x]
                      /\ hop[x] = 0 => at[x] = start[x]
                      /\ pc'[x] = "idle" => sentAuth[x] = {}
    BY <1>5 DEF AuthInv
  <2>1. /\ sentAuth[x] \subseteq {start[x]}
        /\ auth[x] /\ pc[x] # "take" => at[x] = start[x]
        /\ hop[x] = 0 => at[x] = start[x]
        /\ pc[x] = "idle" => sentAuth[x] = {}
        /\ hop[x] \in Nat
    BY HttpAssumption DEF HttpInv, TypeOK, AuthInv, HttpAssumption
  <2>2. CASE x = r
    <3>1. auth'[x] => auth[x] /\ (hop[x] > 0 => at[x] = start[x])
      BY <1>5, <2>2 DEF HttpInv, TypeOK
    <3>2. pc'[x] # "idle"
      BY <1>7, <2>2 DEF HttpInv, TypeOK, Go
    <3> QED BY <2>1, <3>1, <3>2
  <2>3. CASE x # r
    <3>1. auth'[x] = auth[x] /\ pc'[x] = pc[x]
      BY <1>5, <1>7, <2>3 DEF HttpInv, TypeOK, Go
    <3> QED BY <2>1, <3>1
  <2> QED BY <2>2, <2>3
<1>15. OwnReply'
  BY <1>5 DEF HttpInv, OwnReply
<1> QED BY <1>11, <1>12, <1>13, <1>14, <1>15 DEF HttpInv

LEMMA OpenStep ==
    ASSUME HttpInv, NEW r \in Requests, Open(r)
    PROVE  HttpInv'
<1>1. NewSocket \in Socket /\ NewSocket.due = <<>> /\ ~NewSocket.old
  BY DEF NewSocket, Socket
<1>2. pc[r] = "opening" /\ UNCHANGED <<idle, known>>
  BY DEF Open, poolVars
<1>3. CASE /\ sock' = [sock EXCEPT ![r] = NewSocket]
           /\ Go(r, "write")
           /\ UNCHANGED reqVars
  <2> USE DEF HttpInv, TypeOK, Go, reqVars
  <2>1. TypeOK'
    BY <1>1, <1>2, <1>3
  <2>2. SocketInv'
    BY <1>1, <1>2, <1>3 DEF SocketInv
  <2>3. IdleInv'
    BY <1>2 DEF IdleInv
  <2>4. AuthInv'
    BY <1>2, <1>3 DEF AuthInv
  <2>5. OwnReply'
    BY <1>3 DEF OwnReply
  <2> QED BY <2>1, <2>2, <2>3, <2>4, <2>5
<1>4. CASE Return(r) /\ UNCHANGED sock
  <2>1. TypeOK' /\ AuthInv' /\ OwnReply'
    BY <1>2, <1>4, ReturnKeepsRequests DEF HttpInv, TypeOK
  <2>2. SocketInv'
    BY <1>2, <1>4 DEF HttpInv, TypeOK, SocketInv, Return, Go
  <2>3. IdleInv'
    BY <1>2 DEF HttpInv, IdleInv
  <2> QED BY <2>1, <2>2, <2>3 DEF HttpInv
<1> QED BY <1>3, <1>4 DEF Open

LEMMA WriteStep ==
    ASSUME HttpInv, NEW r \in Requests, Write(r)
    PROVE  HttpInv'
<1> DEFINE s == [sock[r] EXCEPT !.due = Append(@, r)]
<1>1. sock[r] \in Socket /\ sock[r].due = <<>> /\ ~sock[r].old
  BY DEF HttpInv, TypeOK, SocketInv, Write
<1>2. s \in Socket /\ s.due = <<r>> /\ ~s.old
  <2>1. Append(sock[r].due, r) = <<r>> /\ <<r>> \in Seq(Requests)
    BY <1>1
  <2>2. s = [sock[r] EXCEPT !.due = <<r>>]
    BY <2>1
  <2> HIDE DEF s
  <2> QED BY <1>1, <2>1, <2>2 DEF Socket
<1>3. sock' = [sock EXCEPT ![r] = s]
  BY DEF Write
<1> HIDE DEF s
<1>4. /\ pc[r] = "write"
      /\ pc' = [pc EXCEPT ![r] = "read"]
      /\ sentAuth' = [sentAuth EXCEPT ![r] = IF auth[r] THEN @ \union {at[r]} ELSE @]
      /\ UNCHANGED <<start, at, hop, auth, got, idle, known>>
  BY DEF Write, Go, poolVars
<1>5. TypeOK'
  <2>1. sentAuth' \in [Requests -> SUBSET Endpoints]
    BY <1>4 DEF HttpInv, TypeOK
  <2> QED BY <1>2, <1>3, <1>4, <2>1 DEF HttpInv, TypeOK
<1>6. SocketInv'
  BY <1>2, <1>3, <1>4 DEF HttpInv, TypeOK, SocketInv
<1>7. IdleInv'
  BY <1>4 DEF HttpInv, IdleInv
<1>8. AuthInv'
  BY <1>4 DEF HttpInv, TypeOK, AuthInv
<1>9. OwnReply'
  BY <1>4 DEF HttpInv, OwnReply
<1> QED BY <1>5, <1>6, <1>7, <1>8, <1>9 DEF HttpInv

LEMMA ExchangeFailsStep ==
    ASSUME HttpInv, NEW r \in Requests, ExchangeFails(r)
    PROVE  HttpInv'
<1>1. NewSocket \in Socket /\ NewSocket.due = <<>> /\ ~NewSocket.old
  BY DEF NewSocket, Socket
<1>2. /\ sock' = [sock EXCEPT ![r] = NewSocket]
      /\ pc' = [pc EXCEPT ![r] = "idle"]
      /\ Return(r)
      /\ UNCHANGED <<idle, known>>
  BY DEF ExchangeFails, Drop, Return, Go, poolVars
<1>3. TypeOK' /\ AuthInv' /\ OwnReply'
  BY <1>1, <1>2, ReturnKeepsRequests DEF HttpInv, TypeOK
<1>4. SocketInv'
  BY <1>1, <1>2 DEF HttpInv, TypeOK, SocketInv
<1>5. IdleInv'
  BY <1>2 DEF HttpInv, IdleInv
<1> QED BY <1>3, <1>4, <1>5 DEF HttpInv

LEMMA ReadReplyStep ==
    ASSUME HttpInv, NEW r \in Requests, ReadReply(r)
    PROVE  HttpInv'
<1> DEFINE s == [sock[r] EXCEPT !.due = Tail(@)]
<1>1. sock[r] \in Socket /\ sock[r].due = <<r>> /\ ~sock[r].old
  BY DEF HttpInv, TypeOK, SocketInv, ReadReply
<1>2. Head(sock[r].due) = r /\ Tail(sock[r].due) = <<>>
  BY <1>1
<1>3. s \in Socket /\ s.due = <<>> /\ ~s.old
  <2>1. s = [sock[r] EXCEPT !.due = <<>>]
    BY <1>2
  <2>2. <<>> \in Seq(Requests)
    OBVIOUS
  <2> HIDE DEF s
  <2> QED BY <1>1, <2>1, <2>2 DEF Socket
<1>4. sock' = [sock EXCEPT ![r] = s]
  BY DEF ReadReply
<1> HIDE DEF s
<1>5. /\ pc[r] = "read"
      /\ pc' = [pc EXCEPT ![r] = "release"]
      /\ got' = [got EXCEPT ![r] = @ \union {r}]
      /\ UNCHANGED <<start, at, hop, auth, sentAuth, idle, known>>
  BY <1>2 DEF ReadReply, Go, poolVars
<1>6. TypeOK'
  BY <1>3, <1>4, <1>5 DEF HttpInv, TypeOK
<1>7. SocketInv'
  BY <1>3, <1>4, <1>5 DEF HttpInv, TypeOK, SocketInv
<1>8. IdleInv'
  BY <1>5 DEF HttpInv, IdleInv
<1>9. AuthInv'
  BY <1>5 DEF HttpInv, TypeOK, AuthInv
<1>10. OwnReply'
  BY <1>5 DEF HttpInv, TypeOK, OwnReply
<1> QED BY <1>6, <1>7, <1>8, <1>9, <1>10 DEF HttpInv

\* Whether the socket goes back to the pool or not, the request has none after.
LEMMA ReleaseStep ==
    ASSUME HttpInv, NEW r \in Requests, Release(r)
    PROVE  HttpInv'
<1> DEFINE e == at[r]
           q == idle[e]
<1>1. NewSocket \in Socket /\ NewSocket.due = <<>> /\ ~NewSocket.old
  BY DEF NewSocket, Socket
<1>2. e \in Endpoints /\ q \in Seq(Socket) /\ DequeOK(q)
  BY DEF HttpInv, TypeOK, IdleInv
<1>3. pc[r] = "release" /\ sock[r] = NewSocket
  <2>1. pc[r] = "release"
    BY DEF Release
  <2>2. sock[r] \in Socket /\ sock[r].due = <<>> /\ ~sock[r].old
    BY <2>1 DEF HttpInv, TypeOK, SocketInv
  <2> QED BY <2>1, <2>2, AsGoodAsNew
<1>4. UNCHANGED <<start, at, hop, auth, got, sentAuth>>
  BY DEF Release, reqVars
<1>5. pc' = [pc EXCEPT ![r] = "follow"] \/ pc' = [pc EXCEPT ![r] = "shutdown"]
  BY DEF Release, Go
<1>6. sock' = sock \/ sock' = [sock EXCEPT ![r] = NewSocket]
  BY DEF Release, ReturnSocket, Drop
<1>7. /\ \/ idle' = idle
         \/ /\ ~(Len(q) >= MaxIdle)
            /\ idle' = [idle EXCEPT ![e] = Append(q, [sock[r] EXCEPT !.old = FALSE])]
      /\ known' = known \/ known' = known \union {e}
  BY <1>2 DEF Release, ReturnSocket, poolVars, HttpInv, TypeOK
<1>8. [sock[r] EXCEPT !.old = FALSE] = NewSocket
  <2> DEFINE s == [NewSocket EXCEPT !.old = FALSE]
  <2>1. s \in Socket /\ s.due = <<>> /\ ~s.old
    BY <1>1 DEF Socket
  <2>2. [sock[r] EXCEPT !.old = FALSE] = s
    BY <1>3
  <2> HIDE DEF s
  <2> QED BY <2>1, <2>2, AsGoodAsNew
<1>9. \/ idle' = idle
      \/ /\ Append(q, NewSocket) \in Seq(Socket)
         /\ DequeOK(Append(q, NewSocket))
         /\ idle' = [idle EXCEPT ![e] = Append(q, NewSocket)]
  <2>1. Len(q) \in Nat /\ MaxIdle \in Nat
    BY <1>2, HttpAssumption DEF HttpAssumption
  <2> HIDE DEF q, e
  <2>2. ~(Len(q) >= MaxIdle) => Len(q) < MaxIdle
    BY <2>1
  <2>3. ~(Len(q) >= MaxIdle) =>
           Append(q, NewSocket) \in Seq(Socket) /\ DequeOK(Append(q, NewSocket))
    BY <1>2, <2>2, AppendKeepsDeque
  <2> QED BY <1>7, <1>8, <2>3
<1> DEFINE a == Append(q, NewSocket)
<1> HIDE DEF a
<1>10. \/ idle' = idle
       \/ a \in Seq(Socket) /\ DequeOK(a) /\ idle' = [idle EXCEPT ![e] = a]
  BY <1>9 DEF a
<1>11. TypeOK'
  <2>1. sock' \in [Requests -> Socket]
    BY <1>1, <1>6 DEF HttpInv, TypeOK
  <2>2. idle' \in [Endpoints -> Seq(Socket)]
    BY <1>2, <1>10 DEF HttpInv, TypeOK
  <2>3. pc' \in [Requests -> {"idle", "take", "opening", "write", "read",
                              "release", "shutdown", "follow"}]
    BY <1>5 DEF HttpInv, TypeOK
  <2>4. known' \in SUBSET Endpoints
    BY <1>2, <1>7 DEF HttpInv, TypeOK
  <2> QED BY <1>4, <2>1, <2>2, <2>3, <2>4 DEF HttpInv, TypeOK
<1>12. SocketInv'
  BY <1>1, <1>3, <1>5, <1>6 DEF HttpInv, TypeOK, SocketInv
<1>13. IdleInv'
  BY <1>2, <1>10 DEF HttpInv, TypeOK, IdleInv
<1>14. AuthInv'
  BY <1>3, <1>4, <1>5 DEF HttpInv, TypeOK, AuthInv
<1>15. OwnReply'
  BY <1>4 DEF HttpInv, OwnReply
<1> QED BY <1>11, <1>12, <1>13, <1>14, <1>15 DEF HttpInv

LEMMA ShutdownEndsStep ==
    ASSUME HttpInv, NEW r \in Requests, ShutdownEnds(r)
    PROVE  HttpInv'
<1>1. NewSocket \in Socket /\ NewSocket.due = <<>> /\ ~NewSocket.old
  BY DEF NewSocket, Socket
<1>2. /\ pc[r] = "shutdown"
      /\ pc' = [pc EXCEPT ![r] = "follow"]
      /\ sock' = [sock EXCEPT ![r] = NewSocket]
      /\ UNCHANGED <<start, at, hop, auth, got, sentAuth, idle, known>>
  BY DEF ShutdownEnds, Drop, Go, reqVars, poolVars
<1>3. TypeOK'
  BY <1>1, <1>2 DEF HttpInv, TypeOK
<1>4. SocketInv'
  BY <1>1, <1>2 DEF HttpInv, TypeOK, SocketInv
<1>5. IdleInv'
  BY <1>2 DEF HttpInv, IdleInv
<1>6. AuthInv'
  BY <1>2 DEF HttpInv, TypeOK, AuthInv
<1>7. OwnReply'
  BY <1>2 DEF HttpInv, OwnReply
<1> QED BY <1>3, <1>4, <1>5, <1>6, <1>7 DEF HttpInv

\* A request that follows a redirect is at the head of the loop again, where
\* it may hold a header that is not for the place it is at.
LEMMA FollowStep ==
    ASSUME HttpInv, NEW r \in Requests, Follow(r)
    PROVE  HttpInv'
<1>1. pc[r] = "follow" /\ UNCHANGED <<sock, idle, known>>
  BY DEF Follow, poolVars
<1>2. IdleInv'
  BY <1>1 DEF HttpInv, IdleInv
<1>3. CASE Return(r)
  <2>1. TypeOK' /\ AuthInv' /\ OwnReply'
    BY <1>1, <1>3, ReturnKeepsRequests DEF HttpInv, TypeOK
  <2>2. SocketInv'
    BY <1>1, <1>3 DEF HttpInv, TypeOK, SocketInv, Return, Go
  <2> QED BY <1>2, <2>1, <2>2 DEF HttpInv
<1>4. CASE /\ hop[r] < MaxRedirects
           /\ hop' = [hop EXCEPT ![r] = @ + 1]
           /\ \E e \in Endpoints : at' = [at EXCEPT ![r] = e]
           /\ Go(r, "take")
           /\ UNCHANGED <<start, auth, got, sentAuth>>
  <2>1. PICK e \in Endpoints : at' = [at EXCEPT ![r] = e]
    BY <1>4
  <2>2. hop[r] \in Nat /\ hop[r] + 1 \in 0..MaxRedirects /\ hop[r] + 1 # 0
    BY <1>4, HttpAssumption DEF HttpInv, TypeOK, HttpAssumption
  <2>3. /\ pc' = [pc EXCEPT ![r] = "take"]
        /\ hop' = [hop EXCEPT ![r] = hop[r] + 1]
        /\ UNCHANGED <<start, auth, got, sentAuth>>
    BY <1>4 DEF Go
  <2>4. TypeOK'
    BY <1>1, <2>1, <2>2, <2>3 DEF HttpInv, TypeOK
  <2>5. SocketInv'
    BY <1>1, <2>3 DEF HttpInv, TypeOK, SocketInv
  <2>6. AuthInv'
    BY <1>1, <2>1, <2>2, <2>3 DEF HttpInv, TypeOK, AuthInv
  <2>7. OwnReply'
    BY <2>3 DEF HttpInv, OwnReply
  <2> QED BY <1>2, <2>4, <2>5, <2>6, <2>7 DEF HttpInv
<1> QED BY <1>3, <1>4 DEF Follow

LEMMA SocketsAgeStep ==
    ASSUME HttpInv, NEW e \in Endpoints, SocketsAge(e)
    PROVE  HttpInv'
<1> DEFINE q == idle[e]
           a(n) == [i \in DOMAIN q |-> [q[i] EXCEPT !.old = @ \/ i <= n]]
<1>1. q \in Seq(Socket) /\ DequeOK(q)
  BY DEF HttpInv, TypeOK, IdleInv
<1>2. PICK n \in 1..Len(q) : idle' = [idle EXCEPT ![e] = a(n)]
  BY DEF SocketsAge
<1>3. a(n) \in Seq(Socket) /\ DequeOK(a(n))
  BY <1>1, AgeKeepsDeque
<1>4. UNCHANGED <<pc, sock, start, at, hop, auth, got, sentAuth, known>>
  BY DEF SocketsAge, reqVars
<1> HIDE DEF a
<1>5. TypeOK'
  BY <1>2, <1>3, <1>4 DEF HttpInv, TypeOK
<1>6. SocketInv'
  BY <1>4 DEF HttpInv, SocketInv
<1>7. IdleInv'
  BY <1>2, <1>3 DEF HttpInv, TypeOK, IdleInv
<1>8. AuthInv'
  BY <1>4 DEF HttpInv, AuthInv
<1>9. OwnReply'
  BY <1>4 DEF HttpInv, OwnReply
<1> QED BY <1>5, <1>6, <1>7, <1>8, <1>9 DEF HttpInv

-----------------------------------------------------------------------------
(***************************************************************************)
(* The theorems.                                                           *)
(***************************************************************************)

LEMMA HttpInvInit == Init => HttpInv
<1> SUFFICES ASSUME Init PROVE HttpInv
  OBVIOUS
<1>1. Nowhere \in Endpoints
  BY HttpAssumption DEF Nowhere, HttpAssumption
<1>2. NewSocket \in Socket /\ NewSocket.due = <<>> /\ ~NewSocket.old
  BY DEF NewSocket, Socket
<1>3. <<>> \in Seq(Socket) /\ Len(<<>>) = 0 /\ DOMAIN <<>> = {}
  OBVIOUS
<1>4. TypeOK
  BY <1>1, <1>2, <1>3, HttpAssumption DEF Init, TypeOK, HttpAssumption
<1>5. SocketInv
  BY <1>2 DEF Init, SocketInv
<1>6. DequeOK(<<>>)
  BY <1>3, HttpAssumption DEF DequeOK, OldFirst, NothingDue, HttpAssumption
<1>7. IdleInv
  BY <1>6 DEF Init, IdleInv
<1>8. AuthInv
  BY DEF Init, AuthInv
<1>9. OwnReply
  BY DEF Init, OwnReply
<1> QED BY <1>4, <1>5, <1>7, <1>8, <1>9 DEF HttpInv

LEMMA HttpInvStep == HttpInv /\ [Next]_vars => HttpInv'
<1> SUFFICES ASSUME HttpInv, [Next]_vars PROVE HttpInv'
  OBVIOUS
<1>1. ASSUME NEW r \in Requests, Step(r)
      PROVE  HttpInv'
  BY <1>1, StartStep, HopStep, OpenStep, WriteStep, ExchangeFailsStep, ReadReplyStep,
     ReleaseStep, ShutdownEndsStep, FollowStep DEF Step
<1>2. ASSUME NEW e \in Endpoints, SocketsAge(e)
      PROVE  HttpInv'
  BY <1>2, SocketsAgeStep
<1>3. CASE UNCHANGED vars
  <2>1. UNCHANGED <<pc, sock, start, at, hop, auth, got, sentAuth, idle, known>>
    BY <1>3 DEF vars, reqVars, poolVars
  <2> QED BY <2>1 DEF HttpInv, TypeOK, SocketInv, IdleInv, AuthInv, OwnReply
<1> QED BY <1>1, <1>2, <1>3 DEF Next

LEMMA HttpInvariant == Spec => []HttpInv
BY HttpInvInit, HttpInvStep, PTL DEF Spec

\* The state of the client and of the pool has the types the code gives it; no
\* request follows more than kMaxRedirects redirects.
THEOREM HttpTypes == Spec => []TypeOK
<1>1. HttpInv => TypeOK
  BY DEF HttpInv
<1> QED BY <1>1, HttpInvariant, PTL

\* Whatever fails under way, the pool never hands out a socket on which somebody
\* else's reply is still to come.
THEOREM HttpOwnReply == Spec => []OwnReply
<1>1. HttpInv => OwnReply
  BY DEF HttpInv
<1> QED BY <1>1, HttpInvariant, PTL

\* Pruning from the front and taking from the back never hands out a socket that
\* idled longer than kIdleEviction.
THEOREM HttpNoOldSocket == Spec => []NoOldSocket
<1>1. HttpInv => NoOldSocket
  BY DEF HttpInv, SocketInv, NoOldSocket
<1> QED BY <1>1, HttpInvariant, PTL

\* No endpoint has more than kMaxSocketsPerEndpoint idle sockets.
THEOREM HttpPoolBounded == Spec => []PoolBounded
<1>1. HttpInv => PoolBounded
  BY DEF HttpInv, IdleInv, DequeOK, PoolBounded
<1> QED BY <1>1, HttpInvariant, PTL

\* The Authorization header never leaves its origin, however long the chain of
\* redirects and wherever it leads in between.
THEOREM HttpAuthConfined == Spec => []AuthConfined
<1>1. HttpInv => AuthConfined
  BY DEF HttpInv, AuthInv, AuthConfined
<1> QED BY <1>1, HttpInvariant, PTL
=============================================================================
