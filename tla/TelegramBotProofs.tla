-------------------------- MODULE TelegramBotProofs --------------------------
(***************************************************************************)
(* Proofs about the Telegram side of the bot, for any number of callers,   *)
(* handlers and renders: every caller of await_send gets its own answer,   *)
(* a step of the login is taken once, and a chat has one status message.   *)
(***************************************************************************)
EXTENDS TelegramBot, FiniteSetTheorems, TLAPS

Ops == {"params", "token", "option", "reply", "send", "edit"}
Requests == [op : Ops \union {"none"}, html : Texts \union {0}, msg : Nat]
Answers == [re : Nat, to : Callers, is : Outcomes, msg : Nat]
CallPlaces == {"idle", "spawned", "hop", "off", "sent", "waiting", "woken", "done"}

\* What is posted to the strand of the gateway.
Jobs == {<<"send", c>> : c \in Callers} \union {<<"answer", a>> : a \in Answers}
        \union {<<"auth", s>> : s \in AuthStates} \union {<<"listen", b>> : b \in BOOLEAN}
        \union {<<"update">>, <<"bringup">>}

CallTypes ==
    /\ strand \in Seq(Jobs)
    /\ pending \subseteq [id : Nat, who : Callers]
    /\ nextId \in Nat \ {0}
    /\ asked \subseteq [id : Nat, who : Callers, what : Requests]
    /\ pc \in [Callers -> CallPlaces]
    /\ what \in [Callers -> Requests]
    /\ id \in [Callers -> Nat]
    /\ slot \in [Callers -> Answers \union {NoAnswer}]
    /\ late \in [Callers -> BOOLEAN]

\* Job k is on the strand; job k is on it before job l.
OnStrand(k) == \E i \in DOMAIN strand : strand[i] = k
Before(k, l) == \E i, j \in DOMAIN strand : i < j /\ strand[i] = k /\ strand[j] = l

\* The answers on the strand.
Incoming == {a \in Answers : OnStrand(<<"answer", a>>)}

\* An id is given out once, so whatever carries it belongs to one caller.
IdInv ==
    /\ \A p \in pending : p.id # 0 /\ p.id < nextId
    /\ \A q \in asked : q.id # 0 /\ q.id < nextId
    /\ \A c \in Callers : id[c] < nextId
    /\ \A a \in Incoming : a.re # 0 /\ a.re < nextId
    /\ \A p \in pending, q \in asked : p.id = q.id => p.who = q.who
    /\ \A p \in pending, a \in Incoming : p.id = a.re => p.who = a.to

\* A result that was stored is the caller's own, and a woken caller has one.
SlotInv ==
    \A c \in Callers :
        /\ slot[c] # NoAnswer => slot[c].to = c
        /\ pc[c] = "woken" => slot[c] # NoAnswer

\* Once the drain has begun, whoever has no answer came too late for it.
DrainInv ==
    run = "clearing" =>
        \A c \in Callers :
            pc[c] \in {"sent", "waiting"} /\ slot[c] = NoAnswer => late[c]

\* c is on its way to the strand, once.
Queued(c) == OnStrand(<<"send", c>>)
QueuedOnce(c) == ~Before(<<"send", c>>, <<"send", c>>)

\* Who is on its way to the strand waits for it, and has something to send.
SendInv ==
    /\ \A c \in Callers :
          /\ Queued(c) => pc[c] = "hop"
          /\ QueuedOnce(c)
          /\ pc[c] \in {"hop", "off"} => what[c].op \in Ops
    /\ \A q \in asked : q.what.op \in Ops

\* One render at a time holds the token of the chat; the others wait for it.
Holding == {"granted", "edit", "send"}
TokenInv ==
    /\ \A r \in Renders : rp[r] \in Holding => ~token
    /\ \A r, u \in Renders : rp[r] \in Holding /\ rp[u] \in Holding => r = u
    /\ token => waiters = <<>>
    /\ \A i \in DOMAIN waiters : rp[waiters[i]] = "acquire"
    /\ \A i, j \in DOMAIN waiters : waiters[i] = waiters[j] => i = j

\* A render is in await_send exactly while it awaits Telegram.
PhaseInv ==
    \A r \in Renders :
        /\ pc[r] = "idle" <=> rp[r] \in {"idle", "acquire", "granted"}
        /\ pc[r] \notin {"spawned", "done"}

\* Authorisation states in the order in which TDLib enters them.
Rank(s) == IF s = "none" THEN 0 ELSE IF s = "params" THEN 1 ELSE
           IF s = "token" THEN 2 ELSE IF s = "ready" THEN 3 ELSE 4

\* The receive thread and TDLib's client are brought up once, and the listener
\* is installed by an authenticate() that is spawned with them.
BringInv ==
    /\ run \in {"new", "spawned"} => tdAuth = "none"
    /\ run = "new" => auth = "new"
    /\ OnStrand(<<"bringup">>) => run = "spawned"
    /\ ~Before(<<"bringup">>, <<"bringup">>)

\* The states on their way from TDLib to the listener come in order, each once,
\* and after the last one it was told of.
OrderInv ==
    /\ \A s \in AuthStates : OnStrand(<<"auth", s>>) =>
          /\ Rank(lastAuth) < Rank(s) /\ Rank(s) <= Rank(tdAuth)
          /\ \A j \in DOMAIN authOut : Rank(s) < Rank(authOut[j])
    /\ \A s, t \in AuthStates : Before(<<"auth", s>>, <<"auth", t>>) => Rank(s) < Rank(t)
    /\ \A j \in DOMAIN authOut :
          /\ Rank(lastAuth) < Rank(authOut[j]) /\ Rank(authOut[j]) <= Rank(tdAuth)
          /\ \A i \in DOMAIN authOut : i < j => Rank(authOut[i]) < Rank(authOut[j])
    /\ Rank(lastAuth) <= Rank(tdAuth)

\* No state acted on is ahead of the last; before the listener is installed none is.
Listen == <<"listen", TRUE>>
ActInv ==
    /\ \A s \in AuthStates : acted[s] <= 1 /\ (acted[s] # 0 => Rank(s) <= Rank(lastAuth))
    /\ auth \in {"new", "starting"} =>
          ~listener /\ ~OnStrand(Listen) /\ \A s \in AuthStates : acted[s] = 0
    /\ OnStrand(Listen) => ~listener /\ \A s \in AuthStates : acted[s] = 0
    /\ ~Before(Listen, Listen)

\* A request that TDLib has not processed is nobody's or its caller's last, and
\* neither answered nor on its way to be.
AskInv ==
    /\ IsFiniteSet(asked)
    /\ \A c \in Callers :
          /\ pc[c] \in {"idle", "spawned", "hop", "off", "done"} =>
                id[c] = 0 /\ slot[c] = NoAnswer
          /\ slot[c].is = "ok" => slot[c].re = id[c]
          /\ what[c].op \in {"send", "edit"} => c \in Renders
    /\ \A q \in asked :
          /\ q.what.op \in {"send", "edit"} => q.who \in Renders
          /\ \A c \in Callers : q.id = id[c] => q.who = c /\ q.what = what[c] /\ slot[c].is # "ok"
          /\ \A z \in asked : q.id = z.id => q = z
          /\ \A a \in Incoming : q.id # a.re

\* A render awaits the request for its draft.
DraftInv ==
    /\ \A r \in Renders :
          /\ rp[r] \in {"send", "edit"} => draft[r] \in Texts
          /\ rp[r] = "send" => what[r] = Request("send", draft[r], 0)
          /\ rp[r] = "edit" => cached # 0 /\ what[r] = Request("edit", draft[r], cached)
    /\ cached # 0 => cached \in DOMAIN shown
    /\ unsure \subseteq DOMAIN shown

\* An edit that TDLib has not processed is the one that a render awaits, or was
\* reported as failed.
Current(q) ==
    /\ rp[q.who] = "edit" /\ q.what.html = draft[q.who] /\ q.what.msg = cached
    /\ q.id = id[q.who] \/ (id[q.who] = 0 /\ slot[q.who].is \notin {"none", "ok"})
EditInv ==
    \A q \in asked :
        /\ q.what.op \in {"send", "edit"} => q.what.html \in Texts
        /\ q.what.op = "edit" =>
              q.what.msg \in DOMAIN shown /\ (q.what.msg \in unsure \/ Current(q))

\* An answer that render r has or will get; a good one is true of the chat.
Heard(r, a) == (a \in Incoming /\ a.re = id[r]) \/ a = slot[r]
OkInv ==
    \A r \in Renders, a \in Answers :
        Heard(r, a) /\ a.is = "ok" =>
            /\ rp[r] = "send" => /\ a.msg \in DOMAIN shown /\ a.msg # cached
                                /\ a.msg \notin unsure /\ shown[a.msg] = draft[r]
            /\ rp[r] = "edit" => cached \in unsure \/ shown[cached] \in {0, draft[r]}

\* The message shows what was cached, or what a render is making of it.
TruthInv ==
    cached # 0 /\ cached \notin unsure =>
        \/ shown[cached] \in {0, html}
        \/ \E r \in Renders : rp[r] = "edit" /\ shown[cached] \in {0, draft[r]}

\* Messages that are shown besides the cached one, and those that may yet be, are
\* paid for by failures, except for that of a send whose reply is on its way.
Others == {m \in DOMAIN shown : shown[m] # 0 /\ m # cached}
Orphans == {q \in asked : q.what.op = "send" /\ q.id # id[q.who]}
Processed(r) ==
    rp[r] = "send" /\ pc[r] \notin {"hop", "off"} /\ \A q \in asked : q.id # id[r]
Replaces == IF cached # 0 /\ \E r \in Renders : rp[r] = "send" THEN 1 ELSE 0
Arriving == IF \E r \in Renders : Processed(r) THEN 1 ELSE 0
Ledger == Cardinality(Others) + Cardinality(Orphans) + Replaces <= failures + Arriving

StatusInv == DraftInv /\ EditInv /\ OkInv /\ TruthInv /\ Ledger

RenderPlaces == {"idle", "acquire", "granted", "edit", "send"}

LoopTypes ==
    /\ run \in {"new", "spawned", "parked", "clearing", "returned"}
    /\ recv \in {"new", "receiving", "ended"}
    /\ stop \in BOOLEAN
    /\ sweeping \in BOOLEAN

LoginTypes == AuthTypes /\ authOut \in Seq(AuthStates)

ChatTypes ==
    /\ rp \in [Renders -> RenderPlaces]
    /\ draft \in [Renders -> Texts \union {0}]
    /\ left \in 0..MaxRenders
    /\ token \in BOOLEAN
    /\ waiters \in Seq(Renders)
    /\ cached \in Nat
    /\ html \in Texts \union {0}
    /\ shown \in Seq(Texts \union {0})
    /\ failures \in Nat
    /\ unsure \subseteq Nat

SideTypes ==
    /\ LoopTypes
    /\ LoginTypes
    /\ ChatTypes
    /\ updates \in 0..Cardinality(Handlers)

GatewayInv == CallTypes /\ IdInv /\ SlotInv /\ DrainInv /\ NotStranded /\ SendInv

-----------------------------------------------------------------------------
(***************************************************************************)
(* The strand.                                                             *)
(***************************************************************************)

Push(j) == strand' = Append(strand, j)
Pop == strand # <<>> /\ strand' = Tail(strand)

\* What the kind of a job says of it.
LEMMA JobFacts ==
    ASSUME NEW j \in Jobs
    PROVE  /\ j[1] \in {"send", "answer", "auth", "listen", "update", "bringup"}
           /\ j[1] = "send" => j[2] \in Callers /\ j = <<"send", j[2]>>
           /\ j[1] = "answer" => j[2] \in Answers /\ j = <<"answer", j[2]>>
           /\ j[1] = "auth" => j[2] \in AuthStates /\ j = <<"auth", j[2]>>
           /\ j[1] = "listen" => j[2] \in BOOLEAN /\ j = <<"listen", j[2]>>
           /\ j[1] = "update" => j = <<"update">>
           /\ j[1] = "bringup" => j = <<"bringup">>
<1>1. CASE \E c \in Callers : j = <<"send", c>>
  BY <1>1
<1>2. CASE \E a \in Answers : j = <<"answer", a>>
  BY <1>2
<1>3. CASE \E s \in AuthStates : j = <<"auth", s>>
  BY <1>3
<1>4. CASE \E b \in BOOLEAN : j = <<"listen", b>>
  BY <1>4
<1>5. CASE j = <<"update">> \/ j = <<"bringup">>
  BY <1>5
<1> QED BY <1>1, <1>2, <1>3, <1>4, <1>5 DEF Jobs

LEMMA EmptyStrand ==
    ASSUME strand = <<>>
    PROVE  /\ \A k : ~OnStrand(k)
           /\ \A k, l : ~Before(k, l)
  BY DEF OnStrand, Before

LEMMA SameStrand ==
    ASSUME strand' = strand
    PROVE  /\ \A k : OnStrand(k)' <=> OnStrand(k)
           /\ \A k, l : Before(k, l)' <=> Before(k, l)
  BY DEF OnStrand, Before

\* Posting puts a job behind the others.
LEMMA StrandPush ==
    ASSUME strand \in Seq(Jobs), NEW j \in Jobs, Push(j)
    PROVE  /\ strand' \in Seq(Jobs)
           /\ \A k : OnStrand(k)' <=> OnStrand(k) \/ k = j
           /\ \A k, l : Before(k, l)' => Before(k, l) \/ (l = j /\ OnStrand(k))
<1> DEFINE n == Len(strand)
<1>1. /\ strand' \in Seq(Jobs)
      /\ n \in Nat
      /\ DOMAIN strand = 1..n
      /\ DOMAIN strand' = 1..(n + 1)
      /\ strand'[n + 1] = j
      /\ \A i \in 1..n : strand'[i] = strand[i]
  BY DEF Push
<1>2. /\ \A i \in 1..n : i \in 1..(n + 1)
      /\ n + 1 \in 1..(n + 1)
      /\ \A i \in 1..(n + 1) : i \in 1..n \/ i = n + 1
      /\ \A i, k \in 1..(n + 1) : i < k => i \in 1..n
  BY <1>1
<1> HIDE DEF n
<1>3. ASSUME NEW k PROVE OnStrand(k)' <=> OnStrand(k) \/ k = j
  BY <1>1, <1>2 DEF OnStrand
<1>4. ASSUME NEW k, NEW l, Before(k, l)' PROVE Before(k, l) \/ (l = j /\ OnStrand(k))
  <2>1. PICK a \in 1..(n + 1), b \in 1..(n + 1) : a < b /\ strand'[a] = k /\ strand'[b] = l
    BY <1>1, <1>4 DEF Before
  <2>2. a \in 1..n /\ strand[a] = k
    BY <1>1, <1>2, <2>1
  <2>3. CASE b \in 1..n
    BY <1>1, <2>1, <2>2, <2>3 DEF Before
  <2>4. CASE b = n + 1
    BY <1>1, <2>1, <2>2, <2>4 DEF OnStrand
  <2> QED BY <1>2, <2>3, <2>4
<1> QED BY <1>1, <1>3, <1>4

\* The first job runs, and was before the others.
LEMMA StrandPop ==
    ASSUME strand \in Seq(Jobs), Pop
    PROVE  /\ strand' \in Seq(Jobs)
           /\ Head(strand) \in Jobs
           /\ OnStrand(Head(strand))
           /\ \A k : OnStrand(k)' => OnStrand(k) /\ Before(Head(strand), k)
           /\ \A k, l : Before(k, l)' => Before(k, l)
<1>1. /\ strand' \in Seq(Jobs)
      /\ Head(strand) \in Jobs
      /\ 1 \in DOMAIN strand /\ strand[1] = Head(strand)
      /\ \A i \in DOMAIN strand' : /\ i \in Nat /\ i # 0
                                   /\ i + 1 \in DOMAIN strand
                                   /\ strand'[i] = strand[i + 1]
  BY DEF Pop
<1>2. ASSUME NEW k, OnStrand(k)' PROVE OnStrand(k) /\ Before(Head(strand), k)
  <2>1. PICK i \in DOMAIN strand' : strand'[i] = k
    BY <1>2 DEF OnStrand
  <2>2. i + 1 \in DOMAIN strand /\ strand[i + 1] = k /\ 1 < i + 1
    BY <1>1, <2>1
  <2> QED BY <1>1, <2>2 DEF OnStrand, Before
<1>3. ASSUME NEW k, NEW l, Before(k, l)' PROVE Before(k, l)
  <2>1. PICK i \in DOMAIN strand', j \in DOMAIN strand' : i < j /\ strand'[i] = k /\ strand'[j] = l
    BY <1>3 DEF Before
  <2>2. /\ i + 1 \in DOMAIN strand /\ strand[i + 1] = k
        /\ j + 1 \in DOMAIN strand /\ strand[j + 1] = l
        /\ i + 1 < j + 1
    BY <1>1, <2>1
  <2> QED BY <2>2 DEF Before
<1>4. OnStrand(Head(strand))
  BY <1>1 DEF OnStrand
<1> QED BY <1>1, <1>2, <1>3, <1>4

\* An answer is on the strand because it was posted.
LEMMA IncomingPush ==
    ASSUME strand \in Seq(Jobs), NEW j \in Jobs, Push(j)
    PROVE  /\ j[1] # "answer" => Incoming' = Incoming
           /\ \A a \in Answers : j = <<"answer", a>> => Incoming' = Incoming \union {a}
<1>1. \A k : OnStrand(k)' <=> OnStrand(k) \/ k = j
  BY StrandPush
<1>2. ASSUME j[1] # "answer" PROVE Incoming' = Incoming
  <2>1. \A a \in Answers : j # <<"answer", a>>
    BY <1>2
  <2> QED BY <1>1, <2>1 DEF Incoming
<1>3. ASSUME NEW a \in Answers, j = <<"answer", a>> PROVE Incoming' = Incoming \union {a}
  <2>1. \A b \in Answers : <<"answer", b>> = j <=> b = a
    BY <1>3
  <2>2. Incoming' = {b \in Answers : OnStrand(<<"answer", b>>)'}
    BY DEF Incoming
  <2>3. \A b \in Answers : OnStrand(<<"answer", b>>)' <=> OnStrand(<<"answer", b>>) \/ b = a
    BY <1>1, <2>1
  <2> QED BY <2>2, <2>3 DEF Incoming
<1> QED BY <1>2, <1>3

LEMMA IncomingPop ==
    ASSUME strand \in Seq(Jobs), Pop
    PROVE  /\ Incoming' \subseteq Incoming
           /\ \A a \in Answers : Head(strand) = <<"answer", a>> => a \in Incoming
  BY StrandPop DEF Incoming

\* A send of c is on the strand because it was posted, and leaves it when it runs.
LEMMA QueuedPush ==
    ASSUME strand \in Seq(Jobs), NEW j \in Jobs, Push(j), NEW c \in Callers,
           QueuedOnce(c)
    PROVE  /\ j[1] # "send" => (Queued(c)' => Queued(c)) /\ QueuedOnce(c)'
           /\ \A d \in Callers : j = <<"send", d>> =>
                 /\ Queued(c)' => Queued(c) \/ c = d
                 /\ (c = d => ~Queued(c)) => QueuedOnce(c)'
<1>1. /\ Queued(c)' => Queued(c) \/ j = <<"send", c>>
      /\ QueuedOnce(c)' \/ (j = <<"send", c>> /\ Queued(c))
  BY StrandPush DEF Queued, QueuedOnce
<1>2. \A d \in Callers : <<"send", d>> = <<"send", c>> => d = c
  OBVIOUS
<1>3. j[1] # "send" => j # <<"send", c>>
  OBVIOUS
<1> QED BY <1>1, <1>2, <1>3

LEMMA QueuedPop ==
    ASSUME strand \in Seq(Jobs), Pop, NEW c \in Callers, QueuedOnce(c)
    PROVE  /\ Queued(c)' => Queued(c)
           /\ QueuedOnce(c)'
           /\ Head(strand) = <<"send", c>> => Queued(c) /\ ~Queued(c)'
  BY StrandPop DEF Queued, QueuedOnce

-----------------------------------------------------------------------------
(***************************************************************************)
(* What a step can do to the callers of await_send.                        *)
(***************************************************************************)

\* Nothing; a job of another kind may be posted or run.
KNothing ==
    /\ UNCHANGED <<callVars, tableVars, asked>>
    /\ \/ strand' = strand
       \/ \E j \in Jobs : j[1] \notin {"send", "answer"} /\ Push(j)
       \/ Pop /\ Head(strand)[1] \notin {"send", "answer"}
    /\ run' = "clearing" => run = "clearing"

\* A job spawns the coroutine c, which is not a render.
KSpawn(c) ==
    /\ c \notin Renders
    /\ pc[c] = "idle" /\ Go(c, "spawned")
    /\ Pop /\ Head(strand)[1] \notin {"send", "answer"}
    /\ UNCHANGED <<what, id, slot, late, tableVars, asked, run>>

\* c calls await_send, for the first time or again.
KCall(c, w) ==
    /\ w \in Requests /\ w.op \in Ops
    /\ w.op \in {"send", "edit"} => c \in Renders
    /\ \/ pc[c] \in {"idle", "spawned"} /\ Call(c, w)
       \/ pc[c] = "woken" /\ CallAgain(c, w)
    /\ UNCHANGED <<tableVars, asked, run>>

\* await_send returns to c.
KReturn(c) ==
    /\ pc[c] = "woken"
    /\ \E place \in {"idle", "done"} : Returned(c, place)
    /\ UNCHANGED <<tableVars, asked, run, strand>>

\* c registers its request, on the strand or off it.
KRegister(c) ==
    /\ Register(c)
    /\ \/ Pop /\ Head(strand) = <<"send", c>> /\ Go(c, "waiting")
       \/ strand' = strand /\ pc[c] = "off" /\ Go(c, "sent")
    /\ UNCHANGED run

\* c leaves the strand before it registers, or comes to its wait after.
KMove(c) ==
    /\ \/ Pop /\ Head(strand) = <<"send", c>> /\ Go(c, "off")
       \/ strand' = strand /\ pc[c] = "sent" /\ Go(c, "waiting")
    /\ UNCHANGED <<what, id, slot, late, tableVars, asked, run>>

\* The wait of c is cancelled from outside.
KAbort(c) == Abort(c) /\ run' = run

\* Entries D of the table are answered, and removed if need be.
KResume(D) ==
    /\ D \subseteq pending
    /\ pending' = pending \ D \/ (pending' = pending /\ D = pending)
    /\ run' = "clearing" => run = "clearing" \/ D = pending
    /\ pc' \in [Callers -> CallPlaces]
    /\ slot' \in [Callers -> Answers \union {NoAnswer}]
    /\ \A c \in Callers :
          \/ /\ [id |-> id[c], who |-> c] \notin D
             /\ pc'[c] = pc[c] /\ slot'[c] = slot[c]
          \/ /\ [id |-> id[c], who |-> c] \in D
             /\ pc'[c] = IF pc[c] = "waiting" THEN "woken" ELSE pc[c]
             /\ slot'[c] \in Answers /\ slot'[c].to = c /\ slot'[c].re = id[c]
             /\ slot'[c].is = "ok" => slot'[c] \in Incoming
    /\ UNCHANGED <<what, id, late, nextId, asked>>
    /\ \/ strand' = strand
       \/ Pop /\ Head(strand)[1] = "answer"

\* The table is emptied.
KClear ==
    /\ run = "clearing" /\ run' = "returned"
    /\ pending' = {}
    /\ UNCHANGED <<callVars, nextId, asked, strand>>

\* The answer to q is received.
KReceive(q, a) ==
    /\ q \in asked /\ a \in Answers
    /\ a.re = q.id /\ a.to = q.who
    /\ Push(<<"answer", a>>)
    /\ asked' = asked \ {q}
    /\ UNCHANGED <<callVars, tableVars, run>>

CallerStep ==
    \/ KNothing
    \/ \E c \in Callers : KSpawn(c) \/ KRegister(c) \/ KMove(c) \/ KAbort(c)
    \/ \E c \in Callers : KReturn(c) /\ (c \in Renders => StatusStep(c))
    \/ \E c \in Callers, w \in Requests : KCall(c, w) /\ (c \in Renders => StatusStep(c))
    \/ \E D \in SUBSET pending : KResume(D)
    \/ KClear
    \/ \E q \in asked, a \in Answers : KReceive(q, a) /\ TdProcesses

\* resume() of the entries of D, each with an answer of its own.
LEMMA ResumeFacts ==
    ASSUME GatewayInv, NEW answer, Resume(answer), DOMAIN answer \subseteq pending,
           \A p \in DOMAIN answer :
              /\ answer[p] \in Answers /\ answer[p].to = p.who /\ answer[p].re = p.id
              /\ answer[p].is = "ok" => answer[p] \in Incoming
    PROVE  /\ pc' \in [Callers -> CallPlaces]
           /\ slot' \in [Callers -> Answers \union {NoAnswer}]
           /\ \A c \in Callers :
                 \/ /\ [id |-> id[c], who |-> c] \notin DOMAIN answer
                    /\ pc'[c] = pc[c] /\ slot'[c] = slot[c]
                 \/ /\ [id |-> id[c], who |-> c] \in DOMAIN answer
                    /\ pc'[c] = IF pc[c] = "waiting" THEN "woken" ELSE pc[c]
                    /\ slot'[c] \in Answers /\ slot'[c].to = c /\ slot'[c].re = id[c]
                    /\ slot'[c].is = "ok" => slot'[c] \in Incoming
           /\ UNCHANGED <<what, id, late>>
<1> DEFINE mine(c) == {p \in DOMAIN answer : p.who = c /\ p.id = id[c]}
           self(c) == [id |-> id[c], who |-> c]
<1>1. /\ slot' = [c \in Callers |->
                    IF mine(c) = {} THEN slot[c] ELSE answer[CHOOSE p \in mine(c) : TRUE]]
      /\ pc' = [c \in Callers |->
                    IF mine(c) # {} /\ pc[c] = "waiting" THEN "woken" ELSE pc[c]]
      /\ UNCHANGED <<what, id, late>>
  BY DEF Resume
<1>2. CallTypes
  BY DEF GatewayInv
<1>3. \A p \in DOMAIN answer : p \in [id : Nat, who : Callers]
  BY <1>2 DEF CallTypes
<1>4. ASSUME NEW c \in Callers PROVE mine(c) = {} <=> self(c) \notin DOMAIN answer
  <2>1. \A p \in mine(c) : p = self(c)
    BY <1>3
  <2>2. self(c) \in DOMAIN answer => self(c) \in mine(c)
    OBVIOUS
  <2> QED BY <2>1, <2>2
<1>5. ASSUME NEW c \in Callers, self(c) \in DOMAIN answer
      PROVE  slot'[c] \in Answers /\ slot'[c].to = c /\ slot'[c].re = id[c]
             /\ (slot'[c].is = "ok" => slot'[c] \in Incoming)
  <2>1. mine(c) # {}
    BY <1>4, <1>5
  <2>2. PICK p \in mine(c) : slot'[c] = answer[p]
    <3>1. (CHOOSE p \in mine(c) : TRUE) \in mine(c)
      BY <2>1
    <3>2. slot'[c] = answer[CHOOSE p \in mine(c) : TRUE]
      BY <1>1, <2>1
    <3> QED BY <3>1, <3>2
  <2> QED BY <2>2
<1>6. ASSUME NEW c \in Callers, self(c) \notin DOMAIN answer
      PROVE  pc'[c] = pc[c] /\ slot'[c] = slot[c]
  <2>1. mine(c) = {}
    BY <1>4, <1>6
  <2> QED BY <1>1, <2>1
<1>7. ASSUME NEW c \in Callers, self(c) \in DOMAIN answer
      PROVE  pc'[c] = IF pc[c] = "waiting" THEN "woken" ELSE pc[c]
  <2>1. mine(c) # {}
    BY <1>4, <1>7
  <2> QED BY <1>1, <2>1
<1> HIDE DEF mine
<1>8. pc' \in [Callers -> CallPlaces]
  <2>1. \A c \in Callers : pc[c] \in CallPlaces /\ "woken" \in CallPlaces
    BY <1>2 DEF CallTypes, CallPlaces
  <2> QED BY <1>1, <2>1
<1>9. slot' \in [Callers -> Answers \union {NoAnswer}]
  <2>1. \A c \in Callers : slot[c] \in Answers \union {NoAnswer}
    BY <1>2 DEF CallTypes
  <2>2. \A c \in Callers : slot'[c] \in Answers \union {NoAnswer}
    BY <1>5, <1>6, <2>1
  <2>3. slot' = [c \in Callers |-> slot'[c]]
    BY <1>1
  <2> QED BY <2>2, <2>3
<1> QED BY <1>1, <1>5, <1>6, <1>7, <1>8, <1>9

\* The strand's jobs.
LEMMA StrandKinds ==
    ASSUME GatewayInv, PhaseInv, StrandStep
    PROVE  CallerStep
<1> DEFINE job == Head(strand)
<1>1. CallTypes /\ IdInv /\ Pop /\ job \in Jobs
  BY StrandPop DEF GatewayInv, CallTypes, StrandStep, Pop
<1>2. pc \in [Callers -> CallPlaces] /\ slot \in [Callers -> Answers \union {NoAnswer}]
  BY <1>1 DEF CallTypes
<1>3. CASE job[1] = "send" /\ SendJob(job[2]) /\ UNCHANGED loopVars
  <2>1. job[2] \in Callers /\ job = <<"send", job[2]>>
    BY <1>1, <1>3, JobFacts
  <2>2. KRegister(job[2]) \/ KMove(job[2])
    BY <1>1, <1>3, <2>1 DEF SendJob, KRegister, KMove, loopVars
  <2> QED BY <2>1, <2>2 DEF CallerStep
<1>4. CASE job[1] = "answer" /\ AnswerJob(job[2]) /\ UNCHANGED loopVars
  <2> DEFINE a == job[2]
             D == {p \in pending : p.id = a.re}
             answer == [p \in D |-> a]
  <2>1. a \in Answers /\ job = <<"answer", a>>
    BY <1>1, <1>4, JobFacts
  <2>2. a \in Incoming
    BY <1>1, <2>1, IncomingPop DEF CallTypes
  <2>3. Resume(answer) /\ pending' = pending \ D /\ UNCHANGED <<nextId, asked, run>>
    BY <1>4 DEF AnswerJob, loopVars
  <2>4. \A p \in DOMAIN answer :
              /\ answer[p] \in Answers /\ answer[p].to = p.who /\ answer[p].re = p.id
              /\ answer[p].is = "ok" => answer[p] \in Incoming
    BY <1>1, <2>1, <2>2 DEF IdInv
  <2>5. DOMAIN answer = D /\ D \subseteq pending
    OBVIOUS
  <2> HIDE DEF answer
  <2>6. KResume(D)
    BY <1>1, <1>4, <2>3, <2>4, <2>5, ResumeFacts DEF KResume
  <2> QED BY <2>5, <2>6 DEF CallerStep
<1>5. CASE job[1] \in {"auth", "listen"} /\ UNCHANGED <<what, id, slot, late, loopVars, tableVars, asked>>
           /\ (pc' = pc \/ Spawn(Params) \/ Spawn(Token) \/ Spawn(Options))
  <2>1. {Params, Token, Options} \subseteq Callers \ Renders
    BY BotAssumption
  <2>2. CASE pc' = pc
    BY <1>1, <1>5, <2>2 DEF CallerStep, KNothing, callVars, loopVars
  <2>3. ASSUME NEW c \in {Params, Token, Options}, Spawn(c) PROVE CallerStep
    <3>1. CASE pc[c] = "idle"
      <4>1. KSpawn(c)
        BY <1>1, <1>2, <1>5, <2>1, <2>3, <3>1 DEF KSpawn, Spawn, Go, loopVars
      <4> QED BY <2>1, <4>1 DEF CallerStep
    <3>2. CASE pc[c] # "idle"
      <4>1. pc' = pc
        BY <1>2, <2>1, <2>3, <3>2 DEF Spawn
      <4> QED BY <2>2, <4>1
    <3> QED BY <3>1, <3>2
  <2> QED BY <1>5, <2>2, <2>3
<1>6. CASE job[1] = "update" /\ UpdateJob
           /\ UNCHANGED <<what, id, slot, late, loopVars, tableVars, asked>>
  <2>1. PICK c \in Handlers : pc[c] = "idle" /\ Spawn(c)
    BY <1>6 DEF UpdateJob
  <2>2. c \in Callers /\ c \notin Renders
    BY BotAssumption
  <2>3. KSpawn(c)
    BY <1>1, <1>2, <1>6, <2>1, <2>2 DEF KSpawn, Spawn, Go, loopVars
  <2> QED BY <2>2, <2>3 DEF CallerStep
<1>7. CASE job[1] = "bringup" /\ BringUpJob
  BY <1>1, <1>7 DEF BringUpJob, CallerStep, KNothing
<1>8. CASE job[1] = "auth" /\ AuthJob(job[2]) /\ UNCHANGED <<what, id, slot, late, loopVars, tableVars, asked>>
  BY <1>5, <1>8 DEF AuthJob, Act, NoListener
<1>9. CASE job[1] = "listen" /\ ListenJob(job[2]) /\ UNCHANGED <<what, id, slot, late, loopVars, tableVars, asked>>
  BY <1>5, <1>9 DEF ListenJob, Act, NoListener
<1> QED BY <1>3, <1>4, <1>6, <1>7, <1>8, <1>9 DEF StrandStep

\* The gateway's other steps.
LEMMA GatewayKinds ==
    ASSUME GatewayInv, GatewayStep
    PROVE  CallerStep
<1>1. CallTypes /\ IdInv
  BY DEF GatewayInv
<1>2. CASE EvictStale
  <2>1. PICK p \in pending :
           LET old == {q \in pending : q.id <= p.id}
           IN  /\ pending' = pending \ old
               /\ Resume([q \in old |-> Answer(q.id, q.who, "timeout", 0)])
    BY <1>2 DEF EvictStale
  <2> DEFINE D == {q \in pending : q.id <= p.id}
             answer == [q \in D |-> Answer(q.id, q.who, "timeout", 0)]
  <2>2. Resume(answer) /\ pending' = pending \ D
    BY <2>1
  <2>3. \A q \in DOMAIN answer :
              /\ answer[q] \in Answers /\ answer[q].to = q.who /\ answer[q].re = q.id
              /\ answer[q].is = "ok" => answer[q] \in Incoming
    BY <1>1 DEF CallTypes, Answer, Answers, Outcomes
  <2>4. DOMAIN answer = D /\ D \subseteq pending
    OBVIOUS
  <2> HIDE DEF answer
  <2>5. UNCHANGED <<run, strand, nextId, asked>>
    BY <1>2 DEF EvictStale
  <2>6. KResume(D)
    BY <2>2, <2>3, <2>4, <2>5, ResumeFacts DEF KResume
  <2> QED BY <2>4, <2>6 DEF CallerStep
<1>3. CASE Drain
  <2> DEFINE answer == [p \in pending |-> Answer(p.id, p.who, "stopped", 0)]
  <2>1. Resume(answer) /\ UNCHANGED <<strand, pending, nextId, asked>>
    BY <1>3 DEF Drain, tableVars
  <2>2. \A q \in DOMAIN answer :
              /\ answer[q] \in Answers /\ answer[q].to = q.who /\ answer[q].re = q.id
              /\ answer[q].is = "ok" => answer[q] \in Incoming
    BY <1>1 DEF CallTypes, Answer, Answers, Outcomes
  <2>3. DOMAIN answer = pending
    OBVIOUS
  <2> HIDE DEF answer
  <2>4. KResume(pending)
    BY <2>1, <2>2, <2>3, ResumeFacts DEF KResume
  <2> QED BY <2>4 DEF CallerStep
<1>4. CASE ReceiveTimesOut
  BY <1>4 DEF ReceiveTimesOut, CallerStep, KNothing
<1>5. CASE Clear
  BY <1>5 DEF Clear, CallerStep, KClear
<1>6. ASSUME NEW c \in Callers, OffSend(c) PROVE CallerStep
  BY <1>6 DEF OffSend, CallerStep, KRegister, loopVars
<1>7. ASSUME NEW c \in Callers, OffWait(c) PROVE CallerStep
  BY <1>7 DEF OffWait, CallerStep, KMove, loopVars
<1> QED BY <1>2, <1>3, <1>4, <1>5, <1>6, <1>7 DEF GatewayStep

\* A render calls await_send, or returns from it, or does neither.
LEMMA RenderKinds ==
    ASSUME GatewayInv, SideTypes, PhaseInv, NEW r \in Renders, StatusStep(r)
    PROVE  CallerStep
<1>1. r \in Callers /\ RenderStep(r) /\ UNCHANGED <<loopVars, tableVars, asked>>
  BY BotAssumption DEF StatusStep, RenderStep
<1>2. \A h \in Texts \union {0}, m \in Nat :
         /\ Request("send", h, m) \in Requests /\ Request("send", h, m).op \in Ops
         /\ Request("edit", h, m) \in Requests /\ Request("edit", h, m).op \in Ops
  BY DEF Request, Requests, Ops
<1>3. cached \in Nat /\ 0 \in Nat /\ draft[r] \in Texts \union {0}
  BY DEF SideTypes, ChatTypes
<1>4. ASSUME Show(r), rp[r] \in {"idle", "granted"} PROVE CallerStep
  <2>1. pc[r] = "idle"
    BY <1>4 DEF PhaseInv
  <2>2. PICK w \in Requests : w.op \in Ops /\ Call(r, w)
    BY <1>2, <1>3, <1>4 DEF Show
  <2>3. KCall(r, w)
    BY <1>1, <2>1, <2>2 DEF KCall, loopVars
  <2> QED BY <1>1, <2>3 DEF CallerStep
<1>5. ASSUME UNCHANGED <<strand, callVars>> PROVE CallerStep
  BY <1>1, <1>5 DEF CallerStep, KNothing, loopVars
<1>6. ASSUME Returned(r, "idle"), UNCHANGED strand, pc[r] = "woken" PROVE CallerStep
  <2>1. KReturn(r)
    BY <1>1, <1>6 DEF KReturn, loopVars
  <2> QED BY <1>1, <2>1 DEF CallerStep
<1>7. CASE RenderSkips(r)
  BY <1>5, <1>7 DEF RenderSkips
<1>8. CASE RenderShows(r)
  BY <1>4, <1>8 DEF RenderShows, Begins
<1>9. CASE RefreshAcquires(r)
  BY <1>5, <1>9 DEF RefreshAcquires
<1>10. CASE RefreshShows(r)
  BY <1>4, <1>5, <1>10 DEF RefreshShows
<1>11. CASE Edited(r)
  <2>1. CASE CallAgain(r, Request("send", draft[r], 0))
    <3>1. KCall(r, Request("send", draft[r], 0))
      BY <1>1, <1>2, <1>3, <1>11, <2>1 DEF KCall, Edited, loopVars
    <3> QED BY <1>1, <1>2, <1>3, <3>1 DEF CallerStep
  <2>2. CASE Returned(r, "idle") /\ UNCHANGED strand
    BY <1>6, <1>11, <2>2 DEF Edited
  <2> QED BY <1>11, <2>1, <2>2 DEF Edited
<1>12. CASE Sent(r)
  BY <1>6, <1>12 DEF Sent
<1> QED BY <1>1, <1>7, <1>8, <1>9, <1>10, <1>11, <1>12 DEF RenderStep

\* TDLib's answers.
LEMMA TdKinds ==
    ASSUME GatewayInv, SideTypes, TdProcesses
    PROVE  CallerStep
<1>1. PICK q \in asked, outcome \in Outcomes, m \in Nat : ReceiveAnswer(q, outcome, m)
  <2>1. Len(Append(shown, 0)) \in Nat /\ \A h : Len(Append(shown, h)) \in Nat
    BY DEF SideTypes, ChatTypes
  <2> QED BY <2>1 DEF TdProcesses, Outcomes
<1>2. q.id \in Nat /\ q.who \in Callers
  BY DEF GatewayInv, CallTypes
<1>3. Answer(q.id, q.who, outcome, m) \in Answers
  BY <1>2 DEF Answer, Answers
<1>4. KReceive(q, Answer(q.id, q.who, outcome, m))
  BY <1>1, <1>3 DEF KReceive, ReceiveAnswer, Post, Push, Answer
<1> QED BY <1>3, <1>4 DEF CallerStep

\* Every step of the bot is one of these.
LEMMA CallerKinds ==
    ASSUME GatewayInv, SideTypes, PhaseInv, [Next]_vars
    PROVE  CallerStep
<1>1. CASE StrandStep
  BY <1>1, StrandKinds
<1>2. CASE GatewayStep
  BY <1>2, GatewayKinds
<1>3. CASE \E r \in Renders : StatusStep(r)
  BY <1>3, RenderKinds
<1>4. CASE TdProcesses
  BY <1>4, TdKinds
<1>5. CASE SpawnLoops \/ Signal \/ TdCloses \/ UserDeletes \/ UNCHANGED vars
  BY <1>5 DEF SpawnLoops, Signal, RequestStop, TdCloses, UserDeletes, vars, loopVars,
              CallerStep, KNothing
<1>6. CASE RunStarts \/ ReceiveAuth \/ ReceiveUpdate \/ (LoginStep /\ AuthStep)
  <2>1. UNCHANGED <<callVars, tableVars, asked, run>>
    BY <1>6 DEF RunStarts, ReceiveAuth, ReceiveUpdate, LoginStep, AuthStep, loopVars,
                Authenticate, AuthWaits, AuthReturns, callVars
  <2>2. strand' = strand \/ \E j \in Jobs : j[1] \notin {"send", "answer"} /\ Push(j)
    <3>1. <<"bringup">> \in Jobs /\ <<"update">> \in Jobs /\ <<"listen", TRUE>> \in Jobs
          /\ <<"listen", FALSE>> \in Jobs
      BY DEF Jobs
    <3>2. authOut # <<>> => <<"auth", Head(authOut)>> \in Jobs
      BY DEF Jobs, SideTypes, LoginTypes
    <3> QED BY <1>6, <3>1, <3>2 DEF RunStarts, ReceiveAuth, ReceiveUpdate, LoginStep,
                AuthStep, Post, Push, Authenticate, AuthWaits, AuthReturns, loopVars
  <2> QED BY <2>1, <2>2 DEF CallerStep, KNothing
<1>7. ASSUME NEW c \in {Params, Token, Options}, LoginRequest(c) \/ LoginReply(c)
      PROVE  CallerStep
  <2>1. c \in Callers /\ c \notin Renders
    BY BotAssumption
  <2>2. \A op \in {"params", "token", "option"} :
           /\ Request(op, 0, 0) \in Requests /\ Request(op, 0, 0).op \in Ops
           /\ Request(op, 0, 0).op \notin {"send", "edit"}
    BY DEF Request, Requests, Ops
  <2>3. CASE LoginRequest(c)
    <3>1. PICK op \in {"params", "token", "option"} : Call(c, Request(op, 0, 0))
      BY <2>3 DEF LoginRequest
    <3>2. KCall(c, Request(op, 0, 0))
      BY <2>2, <2>3, <3>1 DEF LoginRequest, KCall, loopVars
    <3> QED BY <2>1, <2>2, <3>2 DEF CallerStep
  <2>4. CASE LoginReply(c)
    <3>1. CASE Returned(c, "done") /\ UNCHANGED strand
      <4>1. KReturn(c)
        BY <2>4, <3>1 DEF LoginReply, KReturn, loopVars
      <4> QED BY <2>1, <4>1 DEF CallerStep
    <3>2. CASE CallAgain(c, Request("option", 0, 0))
      <4>1. KCall(c, Request("option", 0, 0))
        BY <2>2, <2>4, <3>2 DEF LoginReply, KCall, loopVars
      <4> QED BY <2>1, <2>2, <4>1 DEF CallerStep
    <3> QED BY <2>4, <3>1, <3>2 DEF LoginReply
  <2> QED BY <1>7, <2>3, <2>4
<1>8. CASE Cancelled
  BY <1>8, GatewayAssumption DEF Cancelled, Abort, CallerStep, KAbort, loopVars
<1>9. ASSUME NEW c \in Handlers, HandlerStep(c) PROVE CallerStep
  <2>1. c \in Callers /\ c \notin Renders
    BY BotAssumption
  <2>2. /\ Request("reply", 0, 0) \in Requests /\ Request("reply", 0, 0).op \in Ops
        /\ Request("reply", 0, 0).op \notin {"send", "edit"}
    BY DEF Request, Requests, Ops
  <2>3. KCall(c, Request("reply", 0, 0)) \/ KReturn(c)
    BY <1>9, <2>2 DEF HandlerStep, KCall, KReturn, loopVars
  <2> QED BY <2>1, <2>2, <2>3 DEF CallerStep
<1> QED BY <1>1, <1>2, <1>3, <1>4, <1>5, <1>6, <1>7, <1>8, <1>9 DEF Next, LoginStep

-----------------------------------------------------------------------------
(***************************************************************************)
(* Each of these steps keeps the invariant of the gateway.                 *)
(***************************************************************************)

\* What a step that leaves the strand alone, or runs or posts a job that is
\* neither a request nor an answer, does to the two.
LEMMA QuietStrand ==
    ASSUME strand \in Seq(Jobs), SendInv,
           \/ strand' = strand
           \/ \E j \in Jobs : j[1] \notin {"send", "answer"} /\ Push(j)
           \/ Pop
    PROVE  /\ strand' \in Seq(Jobs)
           /\ Incoming' \subseteq Incoming
           /\ \A c \in Callers : (Queued(c)' => Queued(c)) /\ QueuedOnce(c)'
<1>1. \A c \in Callers : QueuedOnce(c)
  BY DEF SendInv
<1>2. CASE strand' = strand
  BY <1>1, <1>2 DEF Incoming, Queued, QueuedOnce, OnStrand, Before
<1>3. ASSUME NEW j \in Jobs, j[1] \notin {"send", "answer"}, Push(j)
      PROVE  /\ strand' \in Seq(Jobs)
             /\ Incoming' \subseteq Incoming
             /\ \A c \in Callers : (Queued(c)' => Queued(c)) /\ QueuedOnce(c)'
  <2>1. strand' \in Seq(Jobs)
    BY <1>3, StrandPush
  <2>2. Incoming' = Incoming
    BY <1>3, IncomingPush
  <2>3. \A c \in Callers : (Queued(c)' => Queued(c)) /\ QueuedOnce(c)'
    BY <1>1, <1>3, QueuedPush
  <2> QED BY <2>1, <2>2, <2>3
<1>4. CASE Pop
  <2>1. strand' \in Seq(Jobs)
    BY <1>4, StrandPop
  <2>2. Incoming' \subseteq Incoming
    BY <1>4, IncomingPop
  <2>3. \A c \in Callers : (Queued(c)' => Queued(c)) /\ QueuedOnce(c)'
    BY <1>1, <1>4, QueuedPop
  <2> QED BY <2>1, <2>2, <2>3
<1> QED BY <1>2, <1>3, <1>4

\* A call posts the send of c and nothing else.
LEMMA CallStrand ==
    ASSUME strand \in Seq(Jobs), SendInv, NEW c \in Callers, pc[c] # "hop",
           Push(<<"send", c>>)
    PROVE  /\ strand' \in Seq(Jobs)
           /\ Incoming' = Incoming
           /\ \A d \in Callers : (Queued(d)' => Queued(d) \/ d = c) /\ QueuedOnce(d)'
<1>1. <<"send", c>> \in Jobs /\ <<"send", c>>[1] # "answer"
  BY DEF Jobs
<1>2. ~Queued(c) /\ \A d \in Callers : QueuedOnce(d)
  BY DEF SendInv
<1>3. strand' \in Seq(Jobs) /\ Incoming' = Incoming
  BY <1>1, StrandPush, IncomingPush
<1>4. \A d \in Callers : (Queued(d)' => Queued(d) \/ d = c) /\ QueuedOnce(d)'
  BY <1>1, <1>2, QueuedPush
<1> QED BY <1>3, <1>4

LEMMA NothingKeeps ==
    ASSUME GatewayInv, KNothing
    PROVE  GatewayInv'
<1>1. CallTypes /\ IdInv /\ SlotInv /\ DrainInv /\ NotStranded /\ SendInv
  BY DEF GatewayInv
<1>2. /\ strand' \in Seq(Jobs)
      /\ Incoming' \subseteq Incoming
      /\ \A d \in Callers : (Queued(d)' => Queued(d)) /\ QueuedOnce(d)'
  BY <1>1, QuietStrand DEF KNothing, CallTypes
<1>3. /\ UNCHANGED <<pc, what, id, slot, late, pending, nextId, asked>>
      /\ run' = "clearing" => run = "clearing"
  BY DEF KNothing, callVars, tableVars
<1>10. CallTypes'
  BY <1>1, <1>2, <1>3 DEF CallTypes
<1>11. IdInv'
  BY <1>1, <1>2, <1>3 DEF IdInv, CallTypes
<1>12. SlotInv'
  BY <1>1, <1>2, <1>3 DEF SlotInv, CallTypes
<1>13. DrainInv'
  BY <1>1, <1>2, <1>3 DEF DrainInv, CallTypes
<1>14. NotStranded'
  BY <1>1, <1>2, <1>3 DEF NotStranded, CallTypes
<1>15. SendInv'
  BY <1>1, <1>2, <1>3 DEF SendInv, CallTypes
<1> QED BY <1>10, <1>11, <1>12, <1>13, <1>14, <1>15 DEF GatewayInv

LEMMA SpawnKeeps ==
    ASSUME GatewayInv, NEW c \in Callers, KSpawn(c)
    PROVE  GatewayInv'
<1>1. CallTypes /\ IdInv /\ SlotInv /\ DrainInv /\ NotStranded /\ SendInv
  BY DEF GatewayInv
<1>2. /\ strand' \in Seq(Jobs)
      /\ Incoming' \subseteq Incoming
      /\ \A d \in Callers : (Queued(d)' => Queued(d)) /\ QueuedOnce(d)'
  BY <1>1, QuietStrand DEF KSpawn, CallTypes
<1>3. /\ pc[c] = "idle" /\ pc' = [pc EXCEPT ![c] = "spawned"]
      /\ UNCHANGED <<what, id, slot, late, pending, nextId, asked, run>>
  BY DEF KSpawn, Go, tableVars
<1>4. "spawned" \in CallPlaces
  BY DEF CallPlaces
<1>10. CallTypes'
  BY <1>1, <1>2, <1>3, <1>4 DEF CallTypes
<1>11. IdInv'
  BY <1>1, <1>2, <1>3, <1>4 DEF IdInv, CallTypes
<1>12. SlotInv'
  BY <1>1, <1>2, <1>3, <1>4 DEF SlotInv, CallTypes
<1>13. DrainInv'
  BY <1>1, <1>2, <1>3, <1>4 DEF DrainInv, CallTypes
<1>14. NotStranded'
  BY <1>1, <1>2, <1>3, <1>4 DEF NotStranded, CallTypes
<1>15. SendInv'
  BY <1>1, <1>2, <1>3, <1>4 DEF SendInv, CallTypes
<1> QED BY <1>10, <1>11, <1>12, <1>13, <1>14, <1>15 DEF GatewayInv

LEMMA CallKeeps ==
    ASSUME GatewayInv, NEW c \in Callers, NEW w \in Requests, KCall(c, w)
    PROVE  GatewayInv'
<1>1. CallTypes /\ IdInv /\ SlotInv /\ DrainInv /\ NotStranded /\ SendInv
  BY DEF GatewayInv
<1>2. pc[c] \in {"idle", "spawned", "woken"} /\ Push(<<"send", c>>)
  BY DEF KCall, Call, CallAgain, Push
<1>3. /\ strand' \in Seq(Jobs)
      /\ Incoming' = Incoming
      /\ \A d \in Callers : (Queued(d)' => Queued(d) \/ d = c) /\ QueuedOnce(d)'
  BY <1>1, <1>2, CallStrand DEF CallTypes
<1>4. /\ pc' = [pc EXCEPT ![c] = "hop"]
      /\ what' = [what EXCEPT ![c] = w] /\ w.op \in Ops
      /\ id' = id \/ id' = [id EXCEPT ![c] = 0]
      /\ slot' = slot \/ slot' = [slot EXCEPT ![c] = NoAnswer]
      /\ UNCHANGED <<late, pending, nextId, asked, run>>
  BY DEF KCall, Call, CallAgain, Go, tableVars
<1>5. "hop" \in CallPlaces /\ 0 \in Nat /\ 0 < nextId
  BY <1>1 DEF CallPlaces, CallTypes
<1>10. CallTypes'
  BY <1>1, <1>2, <1>3, <1>4, <1>5 DEF CallTypes
<1>11. IdInv'
  BY <1>1, <1>2, <1>3, <1>4, <1>5 DEF IdInv, CallTypes
<1>12. SlotInv'
  BY <1>1, <1>2, <1>3, <1>4, <1>5 DEF SlotInv, CallTypes
<1>13. DrainInv'
  BY <1>1, <1>2, <1>3, <1>4, <1>5 DEF DrainInv, CallTypes
<1>14. NotStranded'
  BY <1>1, <1>2, <1>3, <1>4, <1>5 DEF NotStranded, CallTypes
<1>15. SendInv'
  BY <1>1, <1>2, <1>3, <1>4, <1>5 DEF SendInv, CallTypes
<1> QED BY <1>10, <1>11, <1>12, <1>13, <1>14, <1>15 DEF GatewayInv

LEMMA ReturnKeeps ==
    ASSUME GatewayInv, NEW c \in Callers, KReturn(c)
    PROVE  GatewayInv'
<1>1. CallTypes /\ IdInv /\ SlotInv /\ DrainInv /\ NotStranded /\ SendInv
  BY DEF GatewayInv
<1>2. /\ strand' \in Seq(Jobs)
      /\ Incoming' \subseteq Incoming
      /\ \A d \in Callers : (Queued(d)' => Queued(d)) /\ QueuedOnce(d)'
  BY <1>1, QuietStrand DEF KReturn, CallTypes
<1>3. PICK place \in {"idle", "done"} : pc' = [pc EXCEPT ![c] = place]
  BY DEF KReturn, Returned, Go
<1>4. /\ pc[c] = "woken"
      /\ id' = [id EXCEPT ![c] = 0]
      /\ slot' = [slot EXCEPT ![c] = NoAnswer]
      /\ what' = [what EXCEPT ![c] = NoRequest]
      /\ UNCHANGED <<late, pending, nextId, asked, run>>
  BY DEF KReturn, Returned, tableVars
<1>5. place \in CallPlaces /\ NoRequest \in Requests /\ 0 \in Nat /\ 0 < nextId
  BY <1>1 DEF CallPlaces, NoRequest, Request, Requests, CallTypes
<1>10. CallTypes'
  BY <1>1, <1>2, <1>3, <1>4, <1>5 DEF CallTypes
<1>11. IdInv'
  BY <1>1, <1>2, <1>3, <1>4, <1>5 DEF IdInv, CallTypes
<1>12. SlotInv'
  BY <1>1, <1>2, <1>3, <1>4, <1>5 DEF SlotInv, CallTypes
<1>13. DrainInv'
  BY <1>1, <1>2, <1>3, <1>4, <1>5 DEF DrainInv, CallTypes
<1>14. NotStranded'
  BY <1>1, <1>2, <1>3, <1>4, <1>5 DEF NotStranded, CallTypes
<1>15. SendInv'
  BY <1>1, <1>2, <1>3, <1>4, <1>5 DEF SendInv, CallTypes
<1> QED BY <1>10, <1>11, <1>12, <1>13, <1>14, <1>15 DEF GatewayInv

LEMMA MoveKeeps ==
    ASSUME GatewayInv, NEW c \in Callers, KMove(c)
    PROVE  GatewayInv'
<1>1. CallTypes /\ IdInv /\ SlotInv /\ DrainInv /\ NotStranded /\ SendInv
  BY DEF GatewayInv
<1>2. /\ strand' \in Seq(Jobs)
      /\ Incoming' \subseteq Incoming
      /\ \A d \in Callers : (Queued(d)' => Queued(d)) /\ QueuedOnce(d)'
  BY <1>1, QuietStrand DEF KMove, CallTypes
<1>3. /\ \/ pc[c] = "hop" /\ pc' = [pc EXCEPT ![c] = "off"] /\ ~Queued(c)'
         \/ pc[c] = "sent" /\ pc' = [pc EXCEPT ![c] = "waiting"]
      /\ UNCHANGED <<what, id, slot, late, pending, nextId, asked, run>>
  <2>1. QueuedOnce(c) /\ strand \in Seq(Jobs)
    BY <1>1 DEF SendInv, CallTypes
  <2>2. Pop /\ Head(strand) = <<"send", c>> => pc[c] = "hop" /\ ~Queued(c)'
    BY <1>1, <2>1, QueuedPop DEF SendInv
  <2> QED BY <2>2 DEF KMove, Go, tableVars
<1>4. "off" \in CallPlaces /\ "waiting" \in CallPlaces
  BY DEF CallPlaces
<1>10. CallTypes'
  BY <1>1, <1>2, <1>3, <1>4 DEF CallTypes
<1>11. IdInv'
  BY <1>1, <1>2, <1>3, <1>4 DEF IdInv, CallTypes
<1>12. SlotInv'
  BY <1>1, <1>2, <1>3, <1>4 DEF SlotInv, CallTypes
<1>13. DrainInv'
  BY <1>1, <1>2, <1>3, <1>4 DEF DrainInv, CallTypes
<1>14. NotStranded'
  BY <1>1, <1>2, <1>3, <1>4 DEF NotStranded, CallTypes
<1>15. SendInv'
  BY <1>1, <1>2, <1>3, <1>4 DEF SendInv, CallTypes
<1> QED BY <1>10, <1>11, <1>12, <1>13, <1>14, <1>15 DEF GatewayInv

LEMMA AbortKeeps ==
    ASSUME GatewayInv, NEW c \in Callers, KAbort(c)
    PROVE  GatewayInv'
<1>1. CallTypes /\ IdInv /\ SlotInv /\ DrainInv /\ NotStranded /\ SendInv
  BY DEF GatewayInv
<1>2. /\ strand' \in Seq(Jobs)
      /\ Incoming' \subseteq Incoming
      /\ \A d \in Callers : (Queued(d)' => Queued(d)) /\ QueuedOnce(d)'
  BY <1>1, QuietStrand DEF KAbort, Abort, CallTypes
<1>3. /\ pc[c] = "waiting" /\ pc' = [pc EXCEPT ![c] = "woken"]
      /\ slot' = [slot EXCEPT ![c] = Answer(id[c], c, "cancelled", 0)]
      /\ id' = [id EXCEPT ![c] = 0]
      /\ UNCHANGED <<what, late, pending, nextId, asked, run>>
  BY DEF KAbort, Abort, Go, tableVars
<1>4. /\ "woken" \in CallPlaces /\ 0 \in Nat /\ 0 < nextId
      /\ Answer(id[c], c, "cancelled", 0) \in Answers
      /\ Answer(id[c], c, "cancelled", 0).to = c
      /\ Answer(id[c], c, "cancelled", 0) # NoAnswer
  BY <1>1 DEF CallPlaces, CallTypes, Answer, Answers, Outcomes, NoAnswer
<1>10. CallTypes'
  BY <1>1, <1>2, <1>3, <1>4 DEF CallTypes
<1>11. IdInv'
  BY <1>1, <1>2, <1>3, <1>4 DEF IdInv, CallTypes
<1>12. SlotInv'
  BY <1>1, <1>2, <1>3, <1>4 DEF SlotInv, CallTypes
<1>13. DrainInv'
  BY <1>1, <1>2, <1>3, <1>4 DEF DrainInv, CallTypes
<1>14. NotStranded'
  BY <1>1, <1>2, <1>3, <1>4 DEF NotStranded, CallTypes
<1>15. SendInv'
  BY <1>1, <1>2, <1>3, <1>4 DEF SendInv, CallTypes
<1> QED BY <1>10, <1>11, <1>12, <1>13, <1>14, <1>15 DEF GatewayInv

LEMMA ClearKeeps ==
    ASSUME GatewayInv, KClear
    PROVE  GatewayInv'
<1>1. CallTypes /\ IdInv /\ SlotInv /\ DrainInv /\ NotStranded /\ SendInv
  BY DEF GatewayInv
<1>2. /\ strand' \in Seq(Jobs)
      /\ Incoming' \subseteq Incoming
      /\ \A d \in Callers : (Queued(d)' => Queued(d)) /\ QueuedOnce(d)'
  BY <1>1, QuietStrand DEF KClear, CallTypes
<1>3. /\ run = "clearing" /\ run' = "returned" /\ pending' = {}
      /\ UNCHANGED <<pc, what, id, slot, late, nextId, asked>>
  BY DEF KClear, callVars
<1>10. CallTypes'
  BY <1>1, <1>2, <1>3 DEF CallTypes
<1>11. IdInv'
  BY <1>1, <1>2, <1>3 DEF IdInv, CallTypes
<1>12. SlotInv'
  BY <1>1, <1>2, <1>3 DEF SlotInv, CallTypes
<1>13. DrainInv'
  BY <1>1, <1>2, <1>3 DEF DrainInv, CallTypes
<1>14. NotStranded'
  BY <1>1, <1>2, <1>3 DEF NotStranded, DrainInv, CallTypes
<1>15. SendInv'
  BY <1>1, <1>2, <1>3 DEF SendInv, CallTypes
<1> QED BY <1>10, <1>11, <1>12, <1>13, <1>14, <1>15 DEF GatewayInv

LEMMA ReceiveKeeps ==
    ASSUME GatewayInv, NEW q \in asked, NEW a \in Answers, KReceive(q, a)
    PROVE  GatewayInv'
<1>1. CallTypes /\ IdInv /\ SlotInv /\ DrainInv /\ NotStranded /\ SendInv
  BY DEF GatewayInv
<1>2. <<"answer", a>> \in Jobs /\ <<"answer", a>>[1] # "send"
  BY DEF Jobs
<1>3. /\ a.re = q.id /\ a.to = q.who /\ Push(<<"answer", a>>)
      /\ asked' = asked \ {q}
      /\ UNCHANGED <<pc, what, id, slot, late, pending, nextId, run>>
  BY DEF KReceive, callVars, tableVars
<1>4. /\ strand' \in Seq(Jobs)
      /\ Incoming' = Incoming \union {a}
      /\ \A d \in Callers : (Queued(d)' => Queued(d)) /\ QueuedOnce(d)'
  <2>1. strand \in Seq(Jobs) /\ \A d \in Callers : QueuedOnce(d)
    BY <1>1 DEF CallTypes, SendInv
  <2>2. strand' \in Seq(Jobs)
    BY <1>2, <1>3, <2>1, StrandPush
  <2>3. Incoming' = Incoming \union {a}
    BY <1>2, <1>3, <2>1, IncomingPush
  <2>4. \A d \in Callers : (Queued(d)' => Queued(d)) /\ QueuedOnce(d)'
    BY <1>2, <1>3, <2>1, QueuedPush
  <2> QED BY <2>2, <2>3, <2>4
<1>10. CallTypes'
  BY <1>1, <1>2, <1>3, <1>4 DEF CallTypes
<1>11. IdInv'
  BY <1>1, <1>2, <1>3, <1>4 DEF IdInv, CallTypes
<1>12. SlotInv'
  BY <1>1, <1>2, <1>3, <1>4 DEF SlotInv, CallTypes
<1>13. DrainInv'
  BY <1>1, <1>2, <1>3, <1>4 DEF DrainInv, CallTypes
<1>14. NotStranded'
  BY <1>1, <1>2, <1>3, <1>4 DEF NotStranded, CallTypes
<1>15. SendInv'
  BY <1>1, <1>2, <1>3, <1>4 DEF SendInv, CallTypes
<1> QED BY <1>10, <1>11, <1>12, <1>13, <1>14, <1>15 DEF GatewayInv

LEMMA ResumeKeeps ==
    ASSUME GatewayInv, NEW D \in SUBSET pending, KResume(D)
    PROVE  GatewayInv'
<1>1. CallTypes /\ IdInv /\ SlotInv /\ DrainInv /\ NotStranded /\ SendInv
  BY DEF GatewayInv
<1>2. /\ strand' \in Seq(Jobs)
      /\ Incoming' \subseteq Incoming
      /\ \A d \in Callers : (Queued(d)' => Queued(d)) /\ QueuedOnce(d)'
  BY <1>1, QuietStrand DEF KResume, CallTypes
<1>3. /\ pending' = pending \ D \/ (pending' = pending /\ D = pending)
      /\ run' = "clearing" => run = "clearing" \/ D = pending
      /\ pc' \in [Callers -> CallPlaces]
      /\ slot' \in [Callers -> Answers \union {NoAnswer}]
      /\ UNCHANGED <<what, id, late, nextId, asked>>
  BY DEF KResume
<1>4. \A c \in Callers :
         \/ /\ [id |-> id[c], who |-> c] \notin D
            /\ pc'[c] = pc[c] /\ slot'[c] = slot[c]
         \/ /\ [id |-> id[c], who |-> c] \in D
            /\ pc'[c] = IF pc[c] = "waiting" THEN "woken" ELSE pc[c]
            /\ slot'[c] # NoAnswer /\ slot'[c].to = c
  <2>1. \A a \in Answers : a # NoAnswer
    BY DEF Answers, Outcomes, NoAnswer
  <2> QED BY <2>1 DEF KResume
<1>5. pending' \subseteq pending
  BY <1>3
<1>10. CallTypes'
  BY <1>1, <1>2, <1>3, <1>4, <1>5 DEF CallTypes
<1>11. IdInv'
  BY <1>1, <1>2, <1>3, <1>4, <1>5 DEF IdInv, CallTypes
<1>12. SlotInv'
  BY <1>1, <1>2, <1>3, <1>4, <1>5 DEF SlotInv, CallTypes
<1>13. DrainInv'
  BY <1>1, <1>2, <1>3, <1>4, <1>5 DEF DrainInv, NotStranded, CallTypes
<1>14. NotStranded'
  BY <1>1, <1>2, <1>3, <1>4, <1>5 DEF NotStranded, CallTypes
<1>15. SendInv'
  BY <1>1, <1>2, <1>3, <1>4, <1>5 DEF SendInv, CallTypes
<1> QED BY <1>10, <1>11, <1>12, <1>13, <1>14, <1>15 DEF GatewayInv

\* A step that registers gives out an id that nobody has.
LEMMA RegisterKeeps ==
    ASSUME GatewayInv, NEW c \in Callers, KRegister(c)
    PROVE  GatewayInv'
<1>1. CallTypes /\ IdInv /\ SlotInv /\ DrainInv /\ NotStranded /\ SendInv
  BY DEF GatewayInv
<1>2. /\ strand' \in Seq(Jobs)
      /\ Incoming' \subseteq Incoming
      /\ \A d \in Callers : (Queued(d)' => Queued(d)) /\ QueuedOnce(d)'
  BY <1>1, QuietStrand DEF KRegister, CallTypes
<1>3. /\ \/ pc[c] = "hop" /\ pc' = [pc EXCEPT ![c] = "waiting"] /\ ~Queued(c)'
         \/ pc[c] = "off" /\ pc' = [pc EXCEPT ![c] = "sent"]
      /\ UNCHANGED <<what, run>>
  <2>1. QueuedOnce(c) /\ strand \in Seq(Jobs)
    BY <1>1 DEF SendInv, CallTypes
  <2>2. Pop /\ Head(strand) = <<"send", c>> => pc[c] = "hop" /\ ~Queued(c)'
    BY <1>1, <2>1, QueuedPop DEF SendInv
  <2> QED BY <2>2 DEF KRegister, Register, Go
<1>4. /\ nextId' = nextId + 1
      /\ id' = [id EXCEPT ![c] = nextId]
      /\ pending' = pending \union {[id |-> nextId, who |-> c]}
      /\ asked' = asked \union {[id |-> nextId, who |-> c, what |-> what[c]]}
      /\ slot' = [slot EXCEPT ![c] = NoAnswer]
      /\ late' = [late EXCEPT ![c] = run \in {"clearing", "returned"}]
  BY DEF KRegister, Register
<1>5. "waiting" \in CallPlaces /\ "sent" \in CallPlaces /\ nextId \in Nat \ {0}
  BY <1>1 DEF CallPlaces, CallTypes
<1>10. CallTypes'
  BY <1>1, <1>2, <1>3, <1>4, <1>5 DEF CallTypes
<1>11. IdInv'
  <2> DEFINE new == [id |-> nextId, who |-> c]
             ask == [id |-> nextId, who |-> c, what |-> what[c]]
  <2>1. /\ \A p \in pending' : p \in pending \/ p = new
        /\ \A q \in asked' : q \in asked \/ q = ask
    BY <1>4
  <2>2. /\ \A p \in pending : p.id # 0 /\ p.id < nextId /\ p.id \in Nat
        /\ \A q \in asked : q.id # 0 /\ q.id < nextId /\ q.id \in Nat
        /\ \A d \in Callers : id[d] < nextId /\ id[d] \in Nat
        /\ \A a \in Incoming' : a \in Incoming /\ a.re # 0 /\ a.re < nextId /\ a.re \in Nat
    <3>1. \A a \in Incoming : a.re \in Nat
      BY DEF Incoming, Answers
    <3> QED BY <1>1, <1>2, <3>1 DEF IdInv, CallTypes
  <2>3. /\ \A p \in pending' : p.id # 0 /\ p.id < nextId'
        /\ \A q \in asked' : q.id # 0 /\ q.id < nextId'
        /\ \A a \in Incoming' : a.re # 0 /\ a.re < nextId'
    BY <1>4, <1>5, <2>1, <2>2
  <2>4. \A d \in Callers : id'[d] < nextId'
    BY <1>1, <1>4, <1>5, <2>2 DEF CallTypes
  <2>5. \A p \in pending', q \in asked' : p.id = q.id => p.who = q.who
    BY <1>1, <1>5, <2>1, <2>2 DEF IdInv
  <2>6. \A p \in pending', a \in Incoming' : p.id = a.re => p.who = a.to
    BY <1>1, <1>5, <2>1, <2>2 DEF IdInv
  <2> QED BY <2>3, <2>4, <2>5, <2>6 DEF IdInv
<1>12. SlotInv'
  BY <1>1, <1>2, <1>3, <1>4, <1>5 DEF SlotInv, CallTypes
<1>13. DrainInv'
  BY <1>1, <1>2, <1>3, <1>4, <1>5 DEF DrainInv, CallTypes
<1>14. NotStranded'
  BY <1>1, <1>2, <1>3, <1>4, <1>5 DEF NotStranded, CallTypes
<1>15. SendInv'
  BY <1>1, <1>2, <1>3, <1>4, <1>5 DEF SendInv, CallTypes
<1> QED BY <1>10, <1>11, <1>12, <1>13, <1>14, <1>15 DEF GatewayInv

LEMMA GatewayKept ==
    ASSUME GatewayInv, CallerStep
    PROVE  GatewayInv'
  BY NothingKeeps, SpawnKeeps, CallKeeps, ReturnKeeps, MoveKeeps, AbortKeeps, ClearKeeps,
     ReceiveKeeps, ResumeKeeps, RegisterKeeps DEF CallerStep

-----------------------------------------------------------------------------
(***************************************************************************)
(* The types of what is not the gateway's table.                           *)
(***************************************************************************)

LEMMA LoopTypesKept ==
    ASSUME LoopTypes, [Next]_vars
    PROVE  LoopTypes'
<1>1. CASE UNCHANGED loopVars
  BY <1>1 DEF LoopTypes, loopVars
<1>2. ASSUME NEW job, Post(job), UNCHANGED <<run, stop, sweeping>> PROVE LoopTypes'
  BY <1>2 DEF LoopTypes, Post
<1>3. CASE SpawnLoops
  BY <1>3 DEF SpawnLoops, LoopTypes
<1>4. CASE Signal
  <2>1. sweeping' \in BOOLEAN
    <3>1. sweeping' = FALSE \/ sweeping' = sweeping
      BY <1>4 DEF Signal, RequestStop
    <3> QED BY <3>1, Zenon DEF LoopTypes
  <2> QED BY <1>4, <2>1 DEF Signal, RequestStop, LoopTypes
<1>5. CASE StrandStep
  <2>1. CASE BringUpJob
    BY <2>1 DEF BringUpJob, LoopTypes
  <2> QED BY <1>1, <1>5, <2>1 DEF StrandStep
<1>6. CASE GatewayStep
  <2>1. CASE EvictStale
    <3>1. sweeping' \in BOOLEAN
      BY <2>1 DEF EvictStale
    <3> QED BY <2>1, <3>1 DEF EvictStale, LoopTypes
  <2>2. CASE ReceiveTimesOut
    BY <2>2 DEF ReceiveTimesOut, LoopTypes
  <2>3. CASE Drain
    BY <2>3 DEF Drain, LoopTypes
  <2>4. CASE Clear
    BY <2>4 DEF Clear, LoopTypes
  <2> QED BY <1>1, <1>6, <2>1, <2>2, <2>3, <2>4 DEF GatewayStep, OffSend, OffWait
<1>7. CASE ReceiveAuth \/ ReceiveUpdate
  BY <1>2, <1>7 DEF ReceiveAuth, ReceiveUpdate
<1>8. CASE TdProcesses
  BY <1>2, <1>8 DEF TdProcesses, ReceiveAnswer
<1>9. CASE LoginStep
  BY <1>1, <1>9 DEF LoginStep, AuthStep, LoginRequest, LoginReply
<1>10. CASE RunStarts \/ Cancelled \/ TdCloses \/ UserDeletes \/ UNCHANGED vars
  BY <1>1, <1>10 DEF RunStarts, Cancelled, Abort, TdCloses, UserDeletes, vars, loopVars
<1>11. CASE (\E c \in Handlers : HandlerStep(c)) \/ (\E r \in Renders : StatusStep(r))
  BY <1>1, <1>11 DEF HandlerStep, StatusStep, RenderStep
<1> QED BY <1>3, <1>4, <1>5, <1>6, <1>7, <1>8, <1>9, <1>10, <1>11 DEF Next

\* A step that is neither of the login nor TDLib's leaves the login alone.
LoginSteps ==
    \/ SpawnLoops \/ StrandStep \/ ReceiveAuth \/ LoginStep \/ TdProcesses \/ TdCloses

LEMMA LoginQuiet ==
    ASSUME [Next]_vars, ~LoginSteps
    PROVE  UNCHANGED <<authVars, tdAuthVars>>
<1>1. CASE UNCHANGED vars
  BY <1>1 DEF vars, authVars, tdAuthVars
<1>2. CASE RunStarts \/ Signal \/ GatewayStep \/ ReceiveUpdate \/ Cancelled \/ UserDeletes
  BY <1>2 DEF RunStarts, Signal, GatewayStep, ReceiveUpdate, Cancelled, UserDeletes
<1>3. CASE (\E c \in Handlers : HandlerStep(c)) \/ (\E r \in Renders : StatusStep(r))
  BY <1>3 DEF HandlerStep, StatusStep
<1> QED BY <1>1, <1>2, <1>3 DEF Next, LoginSteps

\* The listener counts the state it sees.
LEMMA ActFacts ==
    ASSUME LoginTypes, NEW s \in AuthStates, Act(s)
    PROVE  /\ acted' \in [AuthStates -> Nat]
           /\ acted'[s] = acted[s] + 1
           /\ \A t \in AuthStates \ {s} : acted'[t] = acted[t]
           /\ completed' \in {"none", "ready", "closed"}
           /\ auth' = auth \/ (auth = "waiting" /\ auth' = "woken")
<1>1. acted \in [AuthStates -> Nat] /\ completed \in {"none", "ready", "closed"}
  BY DEF LoginTypes, AuthTypes
<1>2. acted' = [acted EXCEPT ![s] = @ + 1]
  BY DEF Act
<1>3. completed' \in {"none", "ready", "closed"}
  BY <1>1 DEF Act
<1>4. auth' = auth \/ (auth = "waiting" /\ auth' = "woken")
  BY DEF Act
<1> QED BY <1>1, <1>2, <1>3, <1>4

LEMMA LoginTypesKept ==
    ASSUME GatewayInv, LoginTypes, [Next]_vars
    PROVE  LoginTypes'
<1>1. CASE UNCHANGED <<authVars, tdAuthVars>>
  BY <1>1 DEF LoginTypes, AuthTypes, authVars, tdAuthVars
<1>2. ASSUME NEW s \in AuthStates, TdEnters(s), UNCHANGED authVars PROVE LoginTypes'
  BY <1>2 DEF TdEnters, LoginTypes, AuthTypes, authVars
<1>3. CASE SpawnLoops
  BY <1>3 DEF SpawnLoops, LoginTypes, AuthTypes, tdAuthVars
<1>4. CASE StrandStep
  <2> DEFINE job == Head(strand)
  <2>1. strand \in Seq(Jobs) /\ Pop
    BY <1>4 DEF GatewayInv, CallTypes, StrandStep, Pop
  <2>2. job \in Jobs
    BY <2>1, StrandPop
  <2>3. CASE job[1] = "auth" /\ AuthJob(job[2]) /\ UNCHANGED tdAuthVars
    <3>1. job[2] \in AuthStates
      BY <2>2, <2>3, JobFacts
    <3>2. CASE Act(job[2])
      <4>1. /\ acted' \in [AuthStates -> Nat]
            /\ completed' \in {"none", "ready", "closed"}
            /\ auth' = auth \/ (auth = "waiting" /\ auth' = "woken")
        BY <3>1, <3>2, ActFacts
      <4> QED BY <2>3, <3>1, <4>1 DEF AuthJob, LoginTypes, AuthTypes, tdAuthVars
    <3>3. CASE NoListener
      BY <2>3, <3>1, <3>3 DEF AuthJob, NoListener, LoginTypes, AuthTypes, tdAuthVars
    <3> QED BY <2>3, <3>2, <3>3 DEF AuthJob
  <2>4. CASE job[1] = "listen" /\ ListenJob(job[2]) /\ UNCHANGED tdAuthVars
    <3>1. job[2] \in BOOLEAN
      BY <2>2, <2>4, JobFacts
    <3>2. listener' = job[2] /\ UNCHANGED <<lastAuth, option, tdAuth, authOut>>
      BY <2>4 DEF ListenJob, tdAuthVars
    <3>3. listener' \in BOOLEAN
      BY <3>1, <3>2, Zenon
    <3>4. CASE lastAuth # "none" /\ Act(lastAuth)
      <4>1. lastAuth \in AuthStates
        BY <3>4 DEF LoginTypes, AuthTypes
      <4>2. /\ acted' \in [AuthStates -> Nat]
            /\ completed' \in {"none", "ready", "closed"}
            /\ auth' = auth \/ (auth = "waiting" /\ auth' = "woken")
        BY <3>4, <4>1, ActFacts
      <4> QED BY <3>2, <3>3, <4>2 DEF LoginTypes, AuthTypes
    <3>5. CASE NoListener
      BY <3>2, <3>3, <3>5 DEF NoListener, LoginTypes, AuthTypes
    <3> QED BY <2>4, <3>4, <3>5 DEF ListenJob
  <2>5. CASE TdEnters("params") /\ UNCHANGED authVars
    BY <1>2, <2>5 DEF AuthStates
  <2> QED BY <1>1, <1>4, <2>3, <2>4, <2>5 DEF StrandStep
<1>5. CASE ReceiveAuth
  BY <1>5 DEF ReceiveAuth, LoginTypes, AuthTypes, authVars
<1>6. CASE LoginStep
  <2>1. CASE AuthStep
    BY <2>1 DEF AuthStep, Authenticate, AuthWaits, AuthReturns, LoginTypes, AuthTypes,
                tdAuthVars
  <2>2. ASSUME NEW c, LoginReply(c) PROVE LoginTypes'
    BY <2>2, BotAssumption DEF LoginReply, LoginTypes, AuthTypes, tdAuthVars
  <2>3. ASSUME NEW c, LoginRequest(c) PROVE LoginTypes'
    BY <1>1, <2>3 DEF LoginRequest
  <2> QED BY <1>6, <2>1, <2>2, <2>3 DEF LoginStep
<1>7. CASE TdProcesses
  BY <1>1, <1>2, <1>7 DEF TdProcesses, AuthStates
<1>8. CASE TdCloses
  BY <1>2, <1>8 DEF TdCloses, AuthStates
<1> QED BY <1>1, <1>3, <1>4, <1>5, <1>6, <1>7, <1>8, LoginQuiet DEF LoginSteps

LEMMA EditedSeq ==
    ASSUME NEW S, NEW q \in Seq(S), NEW i, NEW e \in S
    PROVE  [q EXCEPT ![i] = e] \in Seq(S)
<1>1. q \in [1..Len(q) -> S] /\ Len(q) \in Nat
  OBVIOUS
<1>2. [q EXCEPT ![i] = e] \in [1..Len(q) -> S]
  BY <1>1
<1>3. \A n \in Nat : \A f \in [1..n -> S] : f \in Seq(S)
  OBVIOUS
<1> QED BY <1>1, <1>2, <1>3

\* Only renders, TDLib and users touch the chat.
LEMMA ChatQuiet ==
    ASSUME [Next]_vars, ~\E r \in Renders : StatusStep(r), ~TdProcesses, ~UserDeletes
    PROVE  UNCHANGED renderSide
<1>1. CASE UNCHANGED vars
  BY <1>1 DEF vars, renderSide
<1>2. CASE SpawnLoops \/ RunStarts \/ Signal \/ StrandStep \/ GatewayStep \/ ReceiveAuth
           \/ ReceiveUpdate \/ LoginStep \/ Cancelled \/ TdCloses
  BY <1>2 DEF SpawnLoops, RunStarts, Signal, StrandStep, GatewayStep, ReceiveAuth,
              ReceiveUpdate, LoginStep, Cancelled, TdCloses
<1>3. CASE \E c \in Handlers : HandlerStep(c)
  BY <1>3 DEF HandlerStep
<1> QED BY <1>1, <1>2, <1>3 DEF Next

\* The render that releases the token becomes idle, and the first waiter gets it.
LEMMA ReleaseTypes ==
    ASSUME ChatTypes, NEW r \in Renders, Release(r)
    PROVE  /\ rp' \in [Renders -> RenderPlaces]
           /\ token' \in BOOLEAN
           /\ waiters' \in Seq(Renders)
<1>1. rp \in [Renders -> RenderPlaces] /\ token \in BOOLEAN /\ waiters \in Seq(Renders)
  BY DEF ChatTypes
<1>2. "idle" \in RenderPlaces /\ "granted" \in RenderPlaces
  BY DEF RenderPlaces
<1>3. rp' \in [Renders -> RenderPlaces]
  BY <1>1, <1>2 DEF Release, At
<1>4. token' = TRUE \/ token' = token
  BY DEF Release
<1>5. waiters' \in Seq(Renders)
  BY <1>1 DEF Release
<1>6. token' \in BOOLEAN
  BY <1>1, <1>4, Zenon
<1> QED BY <1>3, <1>5, <1>6

LEMMA ShowTypes ==
    ASSUME ChatTypes, NEW r \in Renders, Show(r)
    PROVE  /\ rp' \in [Renders -> RenderPlaces]
           /\ draft' \in [Renders -> Texts \union {0}]
<1>1. rp \in [Renders -> RenderPlaces] /\ draft \in [Renders -> Texts \union {0}]
  BY DEF ChatTypes
<1>2. "send" \in RenderPlaces /\ "edit" \in RenderPlaces
  BY DEF RenderPlaces
<1> QED BY <1>1, <1>2 DEF Show, At

LEMMA RenderTypesKept ==
    ASSUME GatewayInv, ChatTypes, NEW r \in Renders, RenderStep(r)
    PROVE  ChatTypes'
<1>1. r \in Callers /\ slot \in [Callers -> Answers \union {NoAnswer}] /\ shown' = shown
  BY BotAssumption DEF GatewayInv, CallTypes, RenderStep
<1>2. slot[r].msg \in Nat
  BY <1>1 DEF Answers, NoAnswer
<1>3. /\ rp \in [Renders -> RenderPlaces] /\ draft \in [Renders -> Texts \union {0}]
      /\ left \in 0..MaxRenders /\ token \in BOOLEAN /\ waiters \in Seq(Renders)
      /\ cached \in Nat /\ html \in Texts \union {0} /\ shown' \in Seq(Texts \union {0})
      /\ failures \in Nat /\ unsure \subseteq Nat /\ MaxRenders \in Nat
      /\ {"idle", "acquire", "granted", "edit", "send"} \subseteq RenderPlaces
  BY <1>1, BotAssumption DEF ChatTypes, RenderPlaces
<1>4. Begins(r) => left' \in 0..MaxRenders
  BY <1>3 DEF Begins
<1>5. CASE RenderSkips(r) /\ UNCHANGED doubtVars
  BY <1>3, <1>4, <1>5 DEF RenderSkips, doubtVars, chatVars, ChatTypes
<1>6. CASE RenderShows(r) /\ UNCHANGED doubtVars
  BY <1>3, <1>4, <1>6, ShowTypes DEF RenderShows, doubtVars, ChatTypes
<1>7. CASE RefreshAcquires(r) /\ UNCHANGED doubtVars
  <2>1. token' = FALSE \/ token' = token
    BY <1>7 DEF RefreshAcquires
  <2>2. token' \in BOOLEAN
    BY <1>3, <2>1, Zenon
  <2>3. At(r, "granted") \/ At(r, "acquire")
    BY <1>7 DEF RefreshAcquires
  <2>4. rp' \in [Renders -> RenderPlaces]
    BY <1>3, <2>3 DEF At
  <2>5. waiters' = waiters \/ waiters' = Append(waiters, r)
    BY <1>7 DEF RefreshAcquires
  <2>6. waiters' \in Seq(Renders)
    BY <1>3, <2>5
  <2> QED BY <1>3, <1>4, <1>7, <2>2, <2>4, <2>6 DEF RefreshAcquires, doubtVars, ChatTypes
<1>8. CASE RefreshShows(r) /\ UNCHANGED doubtVars
  <2>1. CASE Release(r) /\ UNCHANGED <<draft, cached, html>>
    BY <1>3, <1>8, <2>1, ReleaseTypes DEF RefreshShows, doubtVars, ChatTypes
  <2>2. CASE Show(r) /\ UNCHANGED chatVars
    BY <1>3, <1>8, <2>2, ShowTypes DEF RefreshShows, doubtVars, chatVars, ChatTypes
  <2> QED BY <1>8, <2>1, <2>2 DEF RefreshShows
<1>9. CASE Edited(r)
  <2>1. CASE slot[r].is = "ok"
    <3>1. html' = draft[r] /\ Release(r) /\ UNCHANGED <<cached, failures, unsure, draft, left>>
      BY <1>9, <2>1 DEF Edited, doubtVars
    <3> QED BY <1>3, <3>1, ReleaseTypes DEF ChatTypes
  <2>2. CASE slot[r].is # "ok"
    <3>1. /\ failures' = failures + 1 /\ unsure' = unsure \union {cached} /\ At(r, "send")
          /\ UNCHANGED <<token, waiters, cached, html, draft, left>>
      BY <1>9, <2>2 DEF Edited, chatVars
    <3>2. rp' \in [Renders -> RenderPlaces]
      BY <1>3, <3>1 DEF At
    <3>3. unsure' \subseteq Nat /\ failures' \in Nat
      BY <1>3, <3>1
    <3> QED BY <1>3, <3>1, <3>2, <3>3 DEF ChatTypes
  <2> QED BY <2>1, <2>2
<1>10. CASE Sent(r)
  <2>1. Release(r) /\ UNCHANGED <<unsure, draft, left>>
    BY <1>10 DEF Sent
  <2>2. cached' \in Nat /\ html' \in Texts \union {0} /\ failures' \in Nat
    BY <1>2, <1>3, <1>10 DEF Sent
  <2> QED BY <1>3, <2>1, <2>2, ReleaseTypes DEF ChatTypes
<1> QED BY <1>5, <1>6, <1>7, <1>8, <1>9, <1>10 DEF RenderStep

LEMMA ChatTypesKept ==
    ASSUME GatewayInv, ChatTypes, [Next]_vars
    PROVE  ChatTypes'
<1>1. CASE \E r \in Renders : StatusStep(r)
  BY <1>1, RenderTypesKept DEF StatusStep
<1>2. CASE UNCHANGED <<chatVars, renderVars, doubtVars>> /\ shown' \in Seq(Texts \union {0})
  BY <1>2 DEF ChatTypes, chatVars, renderVars, doubtVars
<1>3. shown \in Seq(Texts \union {0})
  BY DEF ChatTypes
<1>4. CASE TdProcesses
  <2>1. \A q \in asked : q.what.html \in Texts \union {0}
    BY DEF GatewayInv, CallTypes, Requests
  <2>2. shown' \in Seq(Texts \union {0})
    BY <1>3, <1>4, <2>1 DEF TdProcesses
  <2> QED BY <1>2, <1>4, <2>2 DEF TdProcesses
<1>5. CASE UserDeletes
  <2>1. shown' \in Seq(Texts \union {0})
    BY <1>3, <1>5, EditedSeq DEF UserDeletes
  <2> QED BY <1>2, <1>5, <2>1 DEF UserDeletes
<1>6. CASE UNCHANGED renderSide
  BY <1>2, <1>3, <1>6 DEF renderSide
<1> QED BY <1>1, <1>4, <1>5, <1>6, ChatQuiet

LEMMA UpdatesKept ==
    ASSUME updates \in 0..Cardinality(Handlers), [Next]_vars
    PROVE  updates' \in 0..Cardinality(Handlers)
<1>1. Cardinality(Handlers) \in Nat
  BY BotAssumption, FS_CardinalityType
<1>2. CASE ReceiveUpdate
  BY <1>1, <1>2 DEF ReceiveUpdate
<1>3. CASE UNCHANGED updates
  BY <1>3
<1>4. CASE SpawnLoops \/ RunStarts \/ Signal \/ StrandStep \/ GatewayStep \/ ReceiveAuth
           \/ LoginStep \/ Cancelled \/ TdProcesses \/ TdCloses \/ UserDeletes
           \/ UNCHANGED vars
  BY <1>3, <1>4 DEF SpawnLoops, RunStarts, Signal, StrandStep, GatewayStep, ReceiveAuth,
              LoginStep, Cancelled, TdProcesses, TdCloses, UserDeletes, vars
<1>5. CASE (\E c \in Handlers : HandlerStep(c)) \/ (\E r \in Renders : StatusStep(r))
  BY <1>3, <1>5 DEF HandlerStep, StatusStep
<1> QED BY <1>2, <1>4, <1>5 DEF Next

\* The holder passes the token on.
LEMMA ReleaseToken ==
    ASSUME ChatTypes, TokenInv, NEW r \in Renders, rp[r] \in Holding, Release(r)
    PROVE  /\ TokenInv'
           /\ \A u \in Renders :
                 \/ u # r /\ rp'[u] = rp[u]
                 \/ u = r /\ rp'[u] = "idle"
                 \/ u # r /\ rp[u] = "acquire" /\ rp'[u] = "granted"
<1>1. rp \in [Renders -> RenderPlaces] /\ token \in BOOLEAN /\ waiters \in Seq(Renders)
  BY DEF ChatTypes
<1>2. \A u \in Renders : rp[u] \in Holding => u = r
  BY DEF TokenInv
<1>3. CASE waiters = <<>>
  <2>1. rp' = [rp EXCEPT ![r] = "idle"] /\ waiters' = waiters /\ token' = TRUE
    BY <1>3 DEF Release, At
  <2>2. \A u \in Renders : rp'[u] = IF u = r THEN "idle" ELSE rp[u]
    BY <1>1, <2>1
  <2>3. \A u \in Renders : rp'[u] \notin Holding
    BY <1>2, <2>2 DEF Holding
  <2>4. DOMAIN waiters' = {}
    BY <1>3, <2>1
  <2> QED BY <1>3, <2>1, <2>2, <2>3, <2>4 DEF TokenInv
<1>4. CASE waiters # <<>>
  <2> DEFINE h == Head(waiters)
  <2>1. /\ rp' = [rp EXCEPT ![r] = "idle", ![h] = "granted"]
        /\ waiters' = Tail(waiters) /\ token' = token
    BY <1>4 DEF Release
  <2>2. h \in Renders /\ 1 \in DOMAIN waiters /\ waiters[1] = h
    BY <1>1, <1>4
  <2>3. rp[h] = "acquire" /\ h # r
    BY <2>2 DEF TokenInv, Holding
  <2>4. \A i \in DOMAIN waiters' : /\ i \in Nat /\ i # 0 /\ i + 1 \in DOMAIN waiters
                                  /\ waiters'[i] = waiters[i + 1]
    BY <1>1, <1>4, <2>1
  <2>5. \A i \in DOMAIN waiters' : waiters'[i] # h /\ rp[waiters'[i]] = "acquire"
                                  /\ waiters'[i] \in Renders
    <3>1. ASSUME NEW i \in DOMAIN waiters'
          PROVE  waiters[i + 1] # h /\ rp[waiters[i + 1]] = "acquire" /\ waiters[i + 1] \in Renders
      <4>1. i \in Nat /\ i # 0 /\ i + 1 \in DOMAIN waiters /\ i + 1 # 1
        BY <2>4
      <4>2. waiters[i + 1] \in Renders
        BY <1>1, <4>1
      <4> QED BY <2>2, <4>1, <4>2 DEF TokenInv
    <3> QED BY <2>4, <3>1
  <2>6. \A u \in Renders : rp'[u] = IF u = h THEN "granted" ELSE IF u = r THEN "idle" ELSE rp[u]
    BY <1>1, <2>1, <2>2
  <2>7. \A i, j \in DOMAIN waiters' : waiters'[i] = waiters'[j] => i = j
    <3>1. SUFFICES ASSUME NEW i \in DOMAIN waiters', NEW j \in DOMAIN waiters',
                          waiters'[i] = waiters'[j]
                   PROVE  i = j
      OBVIOUS
    <3>2. i + 1 = j + 1 /\ i \in Nat /\ j \in Nat
      BY <2>4, <3>1 DEF TokenInv
    <3> QED BY <3>2
  <2>8. \A i \in DOMAIN waiters' : rp'[waiters'[i]] = "acquire"
    BY <2>3, <2>5, <2>6 DEF Holding
  <2>9. \A u \in Renders : rp'[u] \in Holding => u = h
    BY <1>2, <2>6 DEF Holding
  <2>10. ~token
    BY DEF TokenInv
  <2> HIDE DEF h
  <2> QED BY <2>1, <2>3, <2>6, <2>7, <2>8, <2>9, <2>10 DEF TokenInv
<1> QED BY <1>3, <1>4

\* A render that shows something holds the token, and goes on holding it.
LEMMA HolderMoves ==
    ASSUME ChatTypes, TokenInv, NEW r \in Renders, rp[r] \in Holding, NEW place \in Holding,
           At(r, place), UNCHANGED <<token, waiters>>
    PROVE  TokenInv'
<1>1. rp \in [Renders -> RenderPlaces] /\ waiters \in Seq(Renders)
  BY DEF ChatTypes
<1>2. \A u \in Renders : rp'[u] = IF u = r THEN place ELSE rp[u]
  BY <1>1 DEF At
<1>3. \A i \in DOMAIN waiters : waiters[i] \in Renders
  BY <1>1
<1>4. \A u \in Renders : rp'[u] \in Holding <=> rp[u] \in Holding
  BY <1>2
<1>5. "acquire" \notin Holding
  BY DEF Holding
<1> QED BY <1>2, <1>3, <1>4, <1>5 DEF TokenInv

\* A render takes the token that nobody holds.
LEMMA TokenTaken ==
    ASSUME ChatTypes, TokenInv, NEW r \in Renders, token, token' = FALSE,
           NEW place \in Holding, At(r, place), UNCHANGED waiters
    PROVE  TokenInv'
<1>1. rp \in [Renders -> RenderPlaces] /\ waiters = <<>>
  BY DEF ChatTypes, TokenInv
<1>2. \A u \in Renders : rp'[u] = IF u = r THEN place ELSE rp[u]
  BY <1>1 DEF At
<1>3. \A u \in Renders : rp[u] \notin Holding
  BY DEF TokenInv
<1>4. DOMAIN waiters' = {} /\ waiters' = <<>>
  BY <1>1
<1> QED BY <1>2, <1>3, <1>4 DEF TokenInv

LEMMA TokenKept ==
    ASSUME ChatTypes, TokenInv, [Next]_vars
    PROVE  TokenInv'
<1>1. CASE UNCHANGED <<rp, token, waiters>>
  BY <1>1 DEF TokenInv
<1>2. ASSUME NEW r \in Renders, RenderStep(r) PROVE TokenInv'
  <2>1. ASSUME Show(r) PROVE \E place \in Holding : At(r, place)
    BY <2>1 DEF Show, Holding
  <2>2. CASE RenderSkips(r)
    BY <1>1, <2>2 DEF RenderSkips, chatVars
  <2>3. CASE RenderShows(r)
    BY <2>1, <2>3, TokenTaken DEF RenderShows
  <2>4. CASE RefreshAcquires(r) /\ token
    BY <2>4, TokenTaken DEF RefreshAcquires, Holding
  <2>5. CASE RefreshAcquires(r) /\ ~token
    <3>1. /\ waiters' = Append(waiters, r) /\ rp' = [rp EXCEPT ![r] = "acquire"]
          /\ token' = token /\ rp[r] = "idle"
      BY <2>5 DEF RefreshAcquires, Begins, At
    <3>2. rp \in [Renders -> RenderPlaces] /\ waiters \in Seq(Renders)
      BY DEF ChatTypes
    <3>3. \A u \in Renders : rp'[u] = IF u = r THEN "acquire" ELSE rp[u]
      BY <3>1, <3>2
    <3>4. \A i \in DOMAIN waiters : rp[waiters[i]] = "acquire" /\ waiters[i] # r
                                   /\ waiters[i] \in Renders
      BY <3>1, <3>2 DEF TokenInv
    <3>5. \A i \in DOMAIN waiters' :
             \/ i \in DOMAIN waiters /\ waiters'[i] = waiters[i]
             \/ i = Len(waiters) + 1 /\ waiters'[i] = r
      BY <3>1, <3>2
    <3>6. \A i, j \in DOMAIN waiters' : waiters'[i] = waiters'[j] => i = j
      BY <3>4, <3>5 DEF TokenInv
    <3>7. \A i \in DOMAIN waiters' : rp'[waiters'[i]] = "acquire"
      BY <3>3, <3>4, <3>5
    <3>8. \A u \in Renders : rp'[u] \in Holding => rp[u] \in Holding
      BY <3>3 DEF Holding
    <3> QED BY <2>5, <3>1, <3>6, <3>7, <3>8 DEF TokenInv
  <2>6. CASE RefreshShows(r)
    <3>1. rp[r] \in Holding
      BY <2>6 DEF RefreshShows, Holding
    <3>2. CASE Release(r)
      BY <3>1, <3>2, ReleaseToken
    <3>3. CASE Show(r) /\ UNCHANGED chatVars
      BY <2>1, <3>1, <3>3, HolderMoves DEF chatVars
    <3> QED BY <2>6, <3>2, <3>3 DEF RefreshShows
  <2>7. CASE Edited(r)
    <3>1. rp[r] \in Holding /\ "send" \in Holding
      BY <2>7 DEF Edited, Holding
    <3> QED BY <2>7, <3>1, ReleaseToken, HolderMoves DEF Edited, chatVars
  <2>8. CASE Sent(r)
    <3>1. rp[r] \in Holding
      BY <2>8 DEF Sent, Holding
    <3> QED BY <2>8, <3>1, ReleaseToken DEF Sent
  <2> QED BY <1>2, <2>2, <2>3, <2>4, <2>5, <2>6, <2>7, <2>8 DEF RenderStep
<1> QED BY <1>1, <1>2, ChatQuiet DEF StatusStep, TdProcesses, UserDeletes, renderSide, chatVars,
                                     renderVars

LEMMA PhaseKept ==
    ASSUME GatewayInv, SideTypes, TokenInv, PhaseInv, [Next]_vars
    PROVE  PhaseInv'
<1>1. Renders \subseteq Callers /\ pc \in [Callers -> CallPlaces]
      /\ rp \in [Renders -> RenderPlaces] /\ waiters \in Seq(Renders)
  BY BotAssumption DEF GatewayInv, CallTypes, SideTypes, ChatTypes
<1>2. ASSUME NEW r \in Renders, StatusStep(r) PROVE PhaseInv'
  <2>1. ASSUME Go(r, "hop"), At(r, "edit") \/ At(r, "send") PROVE PhaseInv'
    BY <1>1, <2>1 DEF Go, At, PhaseInv
  <2>2. ASSUME Release(r), rp[r] \in Holding,
               \/ pc' = pc /\ rp[r] = "granted"
               \/ Go(r, "idle")
        PROVE  PhaseInv'
    <3>1. ASSUME NEW u \in Renders
          PROVE  \/ u # r /\ rp'[u] = rp[u]
                 \/ u = r /\ rp'[u] = "idle"
                 \/ u # r /\ rp[u] = "acquire" /\ rp'[u] = "granted"
      BY <2>2, ReleaseToken DEF SideTypes
    <3> QED BY <1>1, <2>2, <3>1 DEF Go, PhaseInv
  <2>3. ASSUME pc' = pc, rp[r] = "idle", \/ rp' = rp \/ At(r, "acquire") \/ At(r, "granted")
        PROVE  PhaseInv'
    BY <1>1, <2>3 DEF At, PhaseInv
  <2>4. CASE Edited(r) \/ Sent(r)
    BY <2>1, <2>2, <2>4 DEF Edited, Sent, CallAgain, Returned, Holding
  <2>5. CASE RenderShows(r) \/ RenderSkips(r) \/ RefreshAcquires(r)
    BY <2>1, <2>3, <2>5 DEF RenderShows, RenderSkips, RefreshAcquires, Show, Call, Begins,
                            callVars
  <2>6. CASE RefreshShows(r)
    BY <2>1, <2>2, <2>6 DEF RefreshShows, Show, Call, callVars, Holding
  <2> QED BY <1>2, <2>4, <2>5, <2>6 DEF StatusStep, RenderStep
<1>3. ASSUME ~\E r \in Renders : StatusStep(r) PROVE PhaseInv'
  <2>1. rp' = rp
    BY <1>3, ChatQuiet DEF renderSide, renderVars, TdProcesses, UserDeletes
  <2>2. CallerStep
    BY CallerKinds
  <2>3. \A r \in Renders :
           \/ pc'[r] = pc[r]
           \/ {pc[r], pc'[r]} \subseteq {"hop", "off", "sent", "waiting", "woken"}
    <3>1. CASE KNothing \/ KClear \/ \E q \in asked, a \in Answers : KReceive(q, a)
      BY <3>1 DEF KNothing, KClear, KReceive, callVars
    <3>2. ASSUME NEW c \in Callers, KSpawn(c) PROVE \A r \in Renders : pc'[r] = pc[r]
      BY <1>1, <3>2 DEF KSpawn, Go
    <3>3. ASSUME NEW c \in Callers, KReturn(c), c \notin Renders
          PROVE  \A r \in Renders : pc'[r] = pc[r]
      BY <1>1, <3>3 DEF KReturn, Returned, Go
    <3>4. ASSUME NEW c \in Callers, NEW w \in Requests, KCall(c, w), c \notin Renders
          PROVE  \A r \in Renders : pc'[r] = pc[r]
      BY <1>1, <3>4 DEF KCall, Call, CallAgain, Go
    <3>5. ASSUME NEW c \in Callers, KRegister(c) \/ KMove(c) \/ KAbort(c)
          PROVE  \A r \in Renders :
                    \/ pc'[r] = pc[r]
                    \/ {pc[r], pc'[r]} \subseteq {"hop", "off", "sent", "waiting", "woken"}
      <4>1. Pop /\ Head(strand) = <<"send", c>> => pc[c] = "hop"
        BY QueuedPop DEF GatewayInv, SendInv, CallTypes
      <4> QED BY <1>1, <3>5, <4>1 DEF KRegister, KMove, KAbort, Abort, Go
    <3>6. ASSUME NEW D \in SUBSET pending, KResume(D)
          PROVE  \A r \in Renders :
                    \/ pc'[r] = pc[r]
                    \/ {pc[r], pc'[r]} \subseteq {"hop", "off", "sent", "waiting", "woken"}
      BY <1>1, <3>6 DEF KResume
    <3> QED BY <1>3, <2>2, <3>1, <3>2, <3>3, <3>4, <3>5, <3>6 DEF CallerStep
  <2> QED BY <2>1, <2>3 DEF PhaseInv
<1> QED BY <1>2, <1>3
-----------------------------------------------------------------------------
(***************************************************************************)
(* Every caller gets its own answer.                                       *)
(***************************************************************************)

BaseInv == GatewayInv /\ SideTypes /\ TokenInv /\ PhaseInv

LEMMA BaseInit ==
    ASSUME Init
    PROVE  BaseInv
<1>1. /\ strand = <<>> /\ pending = {} /\ nextId = 1 /\ asked = {}
      /\ what = [c \in Callers |-> NoRequest]
      /\ id = [c \in Callers |-> 0]
      /\ slot = [c \in Callers |-> NoAnswer]
      /\ late = [c \in Callers |-> FALSE]
      /\ run \in {"new", "parked"}
  BY DEF Init
<1>2. \A c \in Callers : pc[c] \in {"idle", "done"}
  BY DEF Init
<1>3. pc = [c \in Callers |-> pc[c]]
  BY DEF Init
<1>4. Incoming = {} /\ \A c \in Callers : ~Queued(c) /\ QueuedOnce(c)
  BY <1>1, EmptyStrand DEF Incoming, Queued, QueuedOnce
<1>5. CallTypes
  <2>1. NoRequest \in Requests /\ "idle" \in CallPlaces /\ "done" \in CallPlaces
    BY DEF NoRequest, Request, Requests, CallPlaces
  <2>2. pc \in [Callers -> CallPlaces]
    BY <1>2, <1>3, <2>1
  <2> QED BY <1>1, <2>1, <2>2 DEF CallTypes
<1>6. GatewayInv
  BY <1>1, <1>2, <1>4, <1>5 DEF GatewayInv, IdInv, SlotInv, DrainInv, NotStranded, SendInv
<1>7. LoopTypes
  BY DEF Init, LoopTypes
<1>8. LoginTypes
  <2>1. acted \in [AuthStates -> Nat]
    BY DEF Init
  <2>2. /\ auth \in {"new", "ready"} /\ completed \in {"none", "ready"}
        /\ lastAuth \in {"none", "ready"} /\ tdAuth \in {"none", "ready"}
        /\ listener = FALSE /\ option = 0 /\ authOut = <<>>
    BY DEF Init
  <2>3. "ready" \in AuthStates
    BY DEF AuthStates
  <2>4. listener \in BOOLEAN
    BY <2>2, Zenon
  <2>5. option \in 0..NumOptions
    BY <2>2, BotAssumption
  <2>6. authOut \in Seq(AuthStates)
    BY <2>2
  <2>7. auth \in {"new", "starting", "installed", "waiting", "woken", "ready", "failed"}
        /\ completed \in {"none", "ready", "closed"}
    BY <2>2
  <2>8. lastAuth \in AuthStates \union {"none"} /\ tdAuth \in AuthStates \union {"none"}
    BY <2>2, <2>3
  <2> QED BY <2>1, <2>4, <2>5, <2>6, <2>7, <2>8 DEF LoginTypes, AuthTypes
<1>9. ChatTypes /\ TokenInv
  BY BotAssumption DEF Init, ChatTypes, RenderPlaces, TokenInv, Holding
<1>10. updates \in 0..Cardinality(Handlers)
  BY BotAssumption, FS_CardinalityType DEF Init
<1>11. PhaseInv
  BY BotAssumption DEF Init, PhaseInv
<1> QED BY <1>6, <1>7, <1>8, <1>9, <1>10, <1>11 DEF BaseInv, SideTypes

LEMMA BaseNext ==
    ASSUME BaseInv, [Next]_vars
    PROVE  BaseInv'
<1>1. GatewayInv /\ SideTypes /\ TokenInv /\ PhaseInv
  BY DEF BaseInv
<1>2. GatewayInv'
  BY <1>1, CallerKinds, GatewayKept
<1>3. SideTypes'
  BY <1>1, LoopTypesKept, LoginTypesKept, ChatTypesKept, UpdatesKept DEF SideTypes
<1>4. TokenInv' /\ PhaseInv'
  BY <1>1, TokenKept, PhaseKept DEF SideTypes
<1> QED BY <1>2, <1>3, <1>4 DEF BaseInv

\* However requests, answers, the sweep and the shutdown interleave, a caller
\* that await_send() returns to has the answer to its own request, and one that
\* still waits is in the table of pending requests, where something will find it.
THEOREM CallersAnswered == Spec => []CallsAnswered
<1>1. BaseInv => CallsAnswered
  BY DEF BaseInv, GatewayInv, SlotInv, CallsAnswered, OwnAnswer
<1>2. Init => BaseInv
  BY BaseInit
<1>3. BaseInv /\ [Next]_vars => BaseInv'
  BY BaseNext
<1> QED BY <1>1, <1>2, <1>3, PTL DEF Spec

-----------------------------------------------------------------------------
(***************************************************************************)
(* A step of the login is taken once.                                      *)
(***************************************************************************)

LEMMA RankFacts ==
    /\ \A s \in AuthStates \union {"none"} : Rank(s) \in 0..4
    /\ \A s, t \in AuthStates \union {"none"} : Rank(s) = Rank(t) => s = t
    /\ Rank("none") = 0 /\ Rank("params") = 1 /\ Rank("token") = 2 /\ Rank("ready") = 3
    /\ Rank("closed") = 4
    /\ {"params", "token", "ready", "closed"} = AuthStates
    /\ \A s \in AuthStates : Rank(s) # 0 /\ s # "none"
  BY DEF Rank, AuthStates

\* A step adds no authorisation state, no bringing up, no listener to the strand.
AuthKept ==
    /\ \A s \in AuthStates : OnStrand(<<"auth", s>>)' => OnStrand(<<"auth", s>>)
    /\ \A s, t \in AuthStates :
          Before(<<"auth", s>>, <<"auth", t>>)' => Before(<<"auth", s>>, <<"auth", t>>)
BringKept ==
    /\ OnStrand(<<"bringup">>)' => OnStrand(<<"bringup">>)
    /\ Before(<<"bringup">>, <<"bringup">>)' => Before(<<"bringup">>, <<"bringup">>)
ListenKept ==
    /\ OnStrand(Listen)' => OnStrand(Listen)
    /\ Before(Listen, Listen)' => Before(Listen, Listen)

LEMMA LoginStrand ==
    ASSUME strand \in Seq(Jobs)
    PROVE  /\ strand' = strand \/ Pop => AuthKept /\ BringKept /\ ListenKept
           /\ \A j \in Jobs : Push(j) =>
                 /\ j[1] # "auth" => AuthKept
                 /\ j # <<"bringup">> => BringKept
                 /\ j # Listen => ListenKept
<1>1. CASE strand' = strand
  BY <1>1, SameStrand DEF AuthKept, BringKept, ListenKept
<1>2. CASE Pop
  BY <1>2, StrandPop DEF AuthKept, BringKept, ListenKept
<1>3. ASSUME NEW j \in Jobs, Push(j)
      PROVE  /\ j[1] # "auth" => AuthKept
             /\ j # <<"bringup">> => BringKept
             /\ j # Listen => ListenKept
  <2>1. /\ \A k : OnStrand(k)' => OnStrand(k) \/ k = j
        /\ \A k, l : Before(k, l)' => Before(k, l) \/ l = j
    BY <1>3, StrandPush
  <2>2. j[1] # "auth" => \A s : <<"auth", s>> # j
    OBVIOUS
  <2>3. j[1] # "auth" => AuthKept
    BY <2>1, <2>2 DEF AuthKept
  <2>4. j # <<"bringup">> => BringKept
    BY <2>1 DEF BringKept
  <2>5. j # Listen => ListenKept
    BY <2>1 DEF ListenKept
  <2> QED BY <2>3, <2>4, <2>5
<1> QED BY <1>1, <1>2, <1>3

\* What a step can do to the login: nothing,
LNothing ==
    /\ AuthKept /\ BringKept /\ ListenKept
    /\ UNCHANGED <<lastAuth, acted, tdAuth, authOut>>
    /\ auth' = auth \/ {auth, auth'} \intersect {"new", "starting"} = {}
    /\ listener' => listener
    /\ run' = run \/ {run, run'} \intersect {"new", "spawned"} = {}

\* spawn run() and authenticate(),
LSpawn ==
    /\ run = "new" /\ run' = "spawned" /\ auth' = "starting"
    /\ UNCHANGED <<strand, lastAuth, acted, tdAuth, authOut, listener>>

\* post run() to the strand,
LRun ==
    /\ run = "spawned" /\ ~OnStrand(<<"bringup">>) /\ Push(<<"bringup">>)
    /\ UNCHANGED <<run, auth, lastAuth, acted, tdAuth, authOut, listener>>

\* create the client,
LBring ==
    /\ Pop /\ Head(strand) = <<"bringup">>
    /\ run' = "parked"
    /\ TdEnters("params")
    /\ UNCHANGED <<auth, lastAuth, acted, listener>>

\* enter the next state,
LEnter(s) ==
    /\ AuthKept /\ BringKept /\ ListenKept
    /\ tdAuth # "none" /\ Rank(tdAuth) < Rank(s)
    /\ TdEnters(s)
    /\ UNCHANGED <<run, auth, lastAuth, acted, listener>>

\* receive an update about it,
LReceive ==
    /\ authOut # <<>> /\ Push(<<"auth", Head(authOut)>>) /\ authOut' = Tail(authOut)
    /\ UNCHANGED <<run, auth, lastAuth, acted, tdAuth, listener>>

\* tell the listener of state s, if there is one,
Told(s) ==
    /\ acted'[s] = acted[s] + 1
    /\ \A t \in AuthStates \ {s} : acted'[t] = acted[t]
    /\ auth' = auth \/ (auth = "waiting" /\ auth' = "woken")

LAuth(s) ==
    /\ Pop /\ Head(strand) = <<"auth", s>>
    /\ lastAuth' = s
    /\ (listener /\ Told(s)) \/ (~listener /\ UNCHANGED <<acted, auth>>)
    /\ UNCHANGED <<run, listener, tdAuth, authOut>>

\* post a listener, or install it.
LPost ==
    /\ auth = "starting" /\ auth' = "installed"
    /\ Push(Listen)
    /\ UNCHANGED <<run, lastAuth, acted, tdAuth, authOut, listener>>

LListen ==
    /\ Pop /\ Head(strand) = Listen
    /\ (lastAuth # "none" /\ Told(lastAuth)) \/ (lastAuth = "none" /\ UNCHANGED <<acted, auth>>)
    /\ UNCHANGED <<run, lastAuth, tdAuth, authOut>>

LoginKind ==
    \/ LNothing \/ LSpawn \/ LRun \/ LBring \/ LReceive \/ LPost \/ LListen
    \/ \E s \in AuthStates : LEnter(s) \/ LAuth(s)

LEMMA LoginKinds ==
    ASSUME BaseInv, BringInv, [Next]_vars
    PROVE  LoginKind
<1>1. strand \in Seq(Jobs) /\ SendInv /\ LoginTypes /\ LoopTypes /\ GatewayInv
  BY DEF BaseInv, GatewayInv, CallTypes, SideTypes
<1>2. /\ strand' = strand \/ Pop => AuthKept /\ BringKept /\ ListenKept
      /\ \A j \in Jobs : Push(j) =>
            /\ j[1] # "auth" => AuthKept
            /\ j # <<"bringup">> => BringKept
            /\ j # Listen => ListenKept
  BY <1>1, LoginStrand
<1>3. /\ \A c \in Callers : <<"send", c>> \in Jobs
      /\ \A a \in Answers : <<"answer", a>> \in Jobs
      /\ <<"update">> \in Jobs /\ <<"listen", FALSE>> \in Jobs /\ Listen \in Jobs
      /\ <<"bringup">> \in Jobs
  BY DEF Jobs, Listen
<1>4. ASSUME NEW j \in Jobs, Push(j), j[1] \in {"send", "answer", "update"}
      PROVE  AuthKept /\ BringKept /\ ListenKept
  <2>1. j # <<"bringup">> /\ j # Listen /\ j[1] # "auth"
    <3>1. <<"bringup">>[1] = "bringup" /\ Listen[1] = "listen"
      BY DEF Listen
    <3> QED BY <1>4, <3>1
  <2> QED BY <1>2, <1>4, <2>1
<1>5. ASSUME AuthKept, BringKept, ListenKept,
             UNCHANGED <<authVars, tdAuthVars>>,
             run' = run \/ {run, run'} \intersect {"new", "spawned"} = {}
      PROVE  LoginKind
  BY <1>5 DEF LoginKind, LNothing, authVars, tdAuthVars
<1>6. CASE UNCHANGED vars \/ Signal \/ UserDeletes \/ Cancelled
  BY <1>2, <1>5, <1>6 DEF vars, Signal, RequestStop, UserDeletes, Cancelled, Abort, loopVars
<1>7. CASE SpawnLoops
  BY <1>7 DEF SpawnLoops, LoginKind, LSpawn, tdAuthVars
<1>8. CASE RunStarts
  <2>1. ~OnStrand(<<"bringup">>)
    BY <1>8 DEF RunStarts, OnStrand
  <2> QED BY <1>8, <2>1 DEF RunStarts, LoginKind, LRun, Push, authVars, tdAuthVars, loopVars
<1>9. CASE GatewayStep
  <2>1. strand' = strand /\ UNCHANGED <<authVars, tdAuthVars>>
    BY <1>9 DEF GatewayStep, EvictStale, ReceiveTimesOut, Drain, Clear, OffSend, OffWait
  <2>2. run' = run \/ {run, run'} \intersect {"new", "spawned"} = {}
    BY <1>9 DEF GatewayStep, EvictStale, ReceiveTimesOut, Drain, Clear, OffSend, OffWait,
                loopVars
  <2> QED BY <1>2, <1>5, <2>1, <2>2
<1>10. CASE ReceiveAuth
  BY <1>10 DEF ReceiveAuth, LoginKind, LReceive, Post, Push, authVars
<1>11. CASE ReceiveUpdate
  <2>1. Push(<<"update">>)
    BY <1>11 DEF ReceiveUpdate, Post, Push
  <2> QED BY <1>3, <1>4, <1>5, <1>11, <2>1 DEF ReceiveUpdate
<1>12. ASSUME NEW c \in Callers, Push(<<"send", c>>) \/ strand' = strand
       PROVE  AuthKept /\ BringKept /\ ListenKept
  <2>1. <<"send", c>>[1] = "send" /\ <<"send", c>> \in Jobs
    BY <1>3
  <2> QED BY <1>2, <1>4, <1>12, <2>1
<1>13. ASSUME NEW c \in Handlers, HandlerStep(c) PROVE LoginKind
  <2>1. c \in Callers
    BY BotAssumption
  <2>2. Push(<<"send", c>>) \/ strand' = strand
    BY <1>13 DEF HandlerStep, Call, Push
  <2> QED BY <1>5, <1>12, <1>13, <2>1, <2>2 DEF HandlerStep, loopVars
<1>14. ASSUME NEW r \in Renders, StatusStep(r) PROVE LoginKind
  <2>1. r \in Callers
    BY BotAssumption
  <2>2. Push(<<"send", r>>) \/ strand' = strand
    BY <1>14 DEF StatusStep, RenderStep, RenderSkips, RenderShows, RefreshAcquires, RefreshShows,
                 Edited, Sent, Show, Call, CallAgain, Push
  <2> QED BY <1>5, <1>12, <1>14, <2>1, <2>2 DEF StatusStep, RenderStep, loopVars
<1>15. CASE LoginStep
  <2>1. ASSUME NEW c \in {Params, Token, Options}, LoginRequest(c) \/ LoginReply(c)
        PROVE  LoginKind
    <3>1. c \in Callers
      BY BotAssumption
    <3>2. Push(<<"send", c>>) \/ strand' = strand
      BY <2>1 DEF LoginRequest, LoginReply, Call, CallAgain, Push
    <3>3. AuthKept /\ BringKept /\ ListenKept
      BY <1>12, <3>1, <3>2
    <3>4. UNCHANGED <<run, auth, listener, lastAuth, acted, tdAuth, authOut>>
      BY <2>1 DEF LoginRequest, LoginReply, loopVars, authVars, tdAuthVars
    <3> QED BY <3>3, <3>4 DEF LoginKind, LNothing
  <2>2. CASE AuthStep
    <3>1. UNCHANGED <<run, listener, lastAuth, acted, tdAuth, authOut>>
      BY <2>2 DEF AuthStep, Authenticate, AuthWaits, AuthReturns, loopVars, tdAuthVars
    <3>2. CASE Authenticate
      BY <3>1, <3>2 DEF Authenticate, LoginKind, LPost, Push, Listen
    <3>3. CASE AuthWaits
      BY <1>2, <3>1, <3>3 DEF AuthWaits, LoginKind, LNothing
    <3>4. CASE AuthReturns
      <4>1. Push(<<"listen", FALSE>>)
        BY <3>4 DEF AuthReturns, Push
      <4>2. <<"listen", FALSE>> # Listen
        BY DEF Listen
      <4>3. AuthKept /\ BringKept /\ ListenKept
        BY <1>2, <1>3, <4>1, <4>2
      <4> QED BY <3>1, <3>4, <4>3 DEF AuthReturns, LoginKind, LNothing
    <3> QED BY <2>2, <3>2, <3>3, <3>4 DEF AuthStep
  <2> QED BY <1>15, <2>1, <2>2 DEF LoginStep
<1>16. CASE TdCloses
  <2>1. strand' = strand /\ TdEnters("closed") /\ tdAuth \in {"token", "ready"}
        /\ UNCHANGED <<run, auth, lastAuth, acted, listener>>
    BY <1>16 DEF TdCloses, loopVars, authVars
  <2>2. Rank(tdAuth) < Rank("closed") /\ "closed" \in AuthStates
    BY <2>1, RankFacts
  <2> QED BY <1>2, <2>1, <2>2 DEF LoginKind, LEnter
<1>17. CASE TdProcesses
  <2>1. PICK q \in asked, outcome \in Outcomes, m \in Nat :
             /\ ReceiveAnswer(q, outcome, m)
             /\ \/ UNCHANGED tdAuthVars
                \/ q.what.op = tdAuth /\ TdEnters(IF tdAuth = "params" THEN "token" ELSE "ready")
    <3>1. Len(Append(shown, 0)) \in Nat /\ \A h : Len(Append(shown, h)) \in Nat
      BY DEF BaseInv, SideTypes, ChatTypes
    <3> QED BY <1>17, <3>1 DEF TdProcesses, Outcomes
  <2>2. Answer(q.id, q.who, outcome, m) \in Answers /\ q.what.op \in Ops
    BY <1>1 DEF GatewayInv, CallTypes, SendInv, Answer, Answers
  <2>3. Push(<<"answer", Answer(q.id, q.who, outcome, m)>>)
    BY <2>1 DEF ReceiveAnswer, Post, Push
  <2>4. AuthKept /\ BringKept /\ ListenKept
    BY <1>3, <1>4, <2>2, <2>3
  <2>5. UNCHANGED <<run, authVars>>
    BY <1>17, <2>1 DEF TdProcesses, ReceiveAnswer
  <2>6. CASE UNCHANGED tdAuthVars
    BY <1>5, <2>4, <2>5, <2>6
  <2>7. CASE q.what.op = tdAuth /\ TdEnters(IF tdAuth = "params" THEN "token" ELSE "ready")
    <3>1. tdAuth \in {"params", "token"}
      BY <1>1, <2>2, <2>7 DEF LoginTypes, AuthTypes, AuthStates, Ops
    <3>2. PICK s \in AuthStates : TdEnters(s) /\ Rank(tdAuth) < Rank(s)
      BY <2>7, <3>1, RankFacts
    <3> QED BY <2>4, <2>5, <3>1, <3>2 DEF LoginKind, LEnter, authVars
  <2> QED BY <2>1, <2>6, <2>7
<1>18. CASE StrandStep
  <2> DEFINE job == Head(strand)
  <2>1. Pop /\ job \in Jobs
    BY <1>1, <1>18, StrandPop DEF StrandStep, Pop
  <2>2. AuthKept /\ BringKept /\ ListenKept
    BY <1>2, <2>1
  <2>3. CASE UNCHANGED <<loopVars, authVars, tdAuthVars>>
    BY <1>5, <2>2, <2>3 DEF loopVars
  <2>4. CASE job[1] = "auth" /\ AuthJob(job[2]) /\ UNCHANGED <<run, tdAuthVars>>
    <3>1. job[2] \in AuthStates /\ job = <<"auth", job[2]>>
      BY <2>1, <2>4, JobFacts
    <3>2. /\ lastAuth' = job[2] /\ UNCHANGED <<listener, run, tdAuth, authOut>>
          /\ (listener /\ Act(job[2])) \/ (~listener /\ NoListener)
      BY <2>4 DEF AuthJob, tdAuthVars
    <3>3. Act(job[2]) => Told(job[2])
      BY <1>1, <3>1, ActFacts DEF Told
    <3>4. LAuth(job[2])
      BY <2>1, <3>1, <3>2, <3>3 DEF LAuth, NoListener
    <3> QED BY <3>1, <3>4 DEF LoginKind
  <2>5. CASE job[1] = "listen" /\ ListenJob(job[2]) /\ UNCHANGED <<run, tdAuthVars>>
    <3>1. job[2] \in BOOLEAN /\ job = <<"listen", job[2]>>
      BY <2>1, <2>5, JobFacts
    <3>2. CASE job[2] = TRUE
      <4>1. /\ UNCHANGED <<lastAuth, run, tdAuth, authOut>>
            /\ (lastAuth # "none" /\ Act(lastAuth)) \/ (lastAuth = "none" /\ NoListener)
        BY <2>5, <3>2 DEF ListenJob, tdAuthVars
      <4>2. lastAuth # "none" => lastAuth \in AuthStates
        BY <1>1 DEF LoginTypes, AuthTypes
      <4>3. lastAuth # "none" /\ Act(lastAuth) => Told(lastAuth)
        BY <1>1, <4>2, ActFacts DEF Told
      <4>4. job = Listen
        BY <3>1, <3>2 DEF Listen
      <4>5. LListen
        BY <2>1, <4>1, <4>3, <4>4 DEF LListen, NoListener
      <4> QED BY <4>5 DEF LoginKind
    <3>3. CASE job[2] = FALSE
      <4>1. UNCHANGED <<lastAuth, run, tdAuth, authOut, acted, auth>> /\ listener' = FALSE
        BY <2>5, <3>3 DEF ListenJob, NoListener, tdAuthVars
      <4> QED BY <2>2, <4>1 DEF LoginKind, LNothing
    <3> QED BY <3>1, <3>2, <3>3
  <2>6. CASE job[1] = "bringup" /\ BringUpJob /\ TdEnters("params") /\ UNCHANGED authVars
    <3>1. job = <<"bringup">>
      BY <2>1, <2>6, JobFacts
    <3> QED BY <2>1, <2>6, <3>1 DEF LoginKind, LBring, BringUpJob, authVars
  <2> QED BY <1>18, <2>3, <2>4, <2>5, <2>6 DEF StrandStep, loopVars
<1> QED BY <1>6, <1>7, <1>8, <1>9, <1>10, <1>11, <1>13, <1>14, <1>15, <1>16, <1>17, <1>18 DEF Next

LoginInv == BringInv /\ OrderInv /\ ActInv

\* What the strand keeps, the invariants about it keep.
LEMMA LoginNothingKeeps ==
    ASSUME LoginInv, LNothing
    PROVE  LoginInv'
<1>1. BringInv'
  BY DEF LoginInv, BringInv, LNothing, BringKept
<1>2. OrderInv'
  BY DEF LoginInv, OrderInv, LNothing, AuthKept
<1>3. ActInv'
  BY DEF LoginInv, ActInv, LNothing, ListenKept
<1> QED BY <1>1, <1>2, <1>3 DEF LoginInv

LEMMA LoginSpawnKeeps ==
    ASSUME LoginInv, LSpawn
    PROVE  LoginInv'
<1>1. /\ \A k : OnStrand(k)' <=> OnStrand(k)
      /\ \A k, l : Before(k, l)' <=> Before(k, l)
  BY SameStrand DEF LSpawn
<1>2. BringInv'
  BY <1>1 DEF LoginInv, BringInv, LSpawn
<1>3. OrderInv'
  BY <1>1 DEF LoginInv, OrderInv, LSpawn
<1>4. ActInv'
  BY <1>1 DEF LoginInv, BringInv, ActInv, LSpawn
<1> QED BY <1>2, <1>3, <1>4 DEF LoginInv

LEMMA LoginRunKeeps ==
    ASSUME LoginInv, strand \in Seq(Jobs), LRun
    PROVE  LoginInv'
<1>1. <<"bringup">> \in Jobs /\ <<"bringup">>[1] # "auth" /\ <<"bringup">> # Listen
  BY DEF Jobs, Listen
<1>2. AuthKept /\ ListenKept
  BY <1>1, LoginStrand DEF LRun
<1>3. ~Before(<<"bringup">>, <<"bringup">>)'
  BY <1>1, StrandPush DEF LoginInv, BringInv, LRun
<1>4. BringInv'
  BY <1>3 DEF LoginInv, BringInv, LRun
<1>5. OrderInv'
  BY <1>2 DEF LoginInv, OrderInv, LRun, AuthKept
<1>6. ActInv'
  BY <1>2 DEF LoginInv, ActInv, LRun, ListenKept
<1> QED BY <1>4, <1>5, <1>6 DEF LoginInv

\* TDLib's next state comes after all that are on their way.
LEMMA EnterOrder ==
    ASSUME LoginTypes, OrderInv, AuthKept, NEW s \in AuthStates, TdEnters(s),
           Rank(tdAuth) < Rank(s), lastAuth' = lastAuth
    PROVE  OrderInv'
<1>1. /\ tdAuth' = s /\ authOut' = Append(authOut, s) /\ authOut \in Seq(AuthStates)
      /\ lastAuth \in AuthStates \union {"none"} /\ tdAuth \in AuthStates \union {"none"}
  BY DEF TdEnters, LoginTypes, AuthTypes
<1>2. \A t \in AuthStates \union {"none"} : Rank(t) \in Nat
  BY RankFacts
<1>3. /\ Len(authOut) \in Nat
      /\ \A j \in DOMAIN authOut' :
            \/ j \in DOMAIN authOut /\ authOut'[j] = authOut[j] /\ authOut[j] \in AuthStates
               /\ j <= Len(authOut) /\ j \in Nat
            \/ j = Len(authOut) + 1 /\ authOut'[j] = s
  BY <1>1
<1>4. Rank(lastAuth) < Rank(s) /\ Rank(lastAuth') <= Rank(tdAuth')
  BY <1>1, <1>2 DEF OrderInv
<1>5. ASSUME NEW t \in AuthStates, OnStrand(<<"auth", t>>)'
      PROVE  /\ Rank(lastAuth) < Rank(t) /\ Rank(t) <= Rank(s)
             /\ \A j \in DOMAIN authOut' : Rank(t) < Rank(authOut'[j])
  <2>1. /\ Rank(lastAuth) < Rank(t) /\ Rank(t) <= Rank(tdAuth)
        /\ \A j \in DOMAIN authOut : Rank(t) < Rank(authOut[j])
    BY <1>5 DEF OrderInv, AuthKept
  <2>2. Rank(t) < Rank(s)
    BY <1>1, <1>2, <2>1
  <2> QED BY <1>1, <1>2, <1>3, <2>1, <2>2
<1>6. \A t, u \in AuthStates : Before(<<"auth", t>>, <<"auth", u>>)' => Rank(t) < Rank(u)
  BY DEF OrderInv, AuthKept
<1>7. ASSUME NEW j \in DOMAIN authOut'
      PROVE  /\ Rank(lastAuth) < Rank(authOut'[j]) /\ Rank(authOut'[j]) <= Rank(s)
             /\ \A i \in DOMAIN authOut' : i < j => Rank(authOut'[i]) < Rank(authOut'[j])
  <2>1. \A i \in DOMAIN authOut : /\ Rank(lastAuth) < Rank(authOut[i])
                                  /\ Rank(authOut[i]) < Rank(s)
    <3>1. \A i \in DOMAIN authOut : Rank(lastAuth) < Rank(authOut[i]) /\ Rank(authOut[i]) <= Rank(tdAuth)
                                   /\ authOut[i] \in AuthStates
      BY <1>1 DEF OrderInv
    <3> QED BY <1>1, <1>2, <3>1
  <2>2. CASE j \in DOMAIN authOut /\ authOut'[j] = authOut[j] /\ j <= Len(authOut) /\ j \in Nat
    <3>1. \A i \in DOMAIN authOut' : i < j => i \in DOMAIN authOut /\ authOut'[i] = authOut[i]
      BY <1>3, <2>2
    <3>2. \A i \in DOMAIN authOut : i < j => Rank(authOut[i]) < Rank(authOut[j])
      BY <2>2 DEF OrderInv
    <3>3. authOut[j] \in AuthStates
      BY <1>1, <2>2
    <3> QED BY <1>1, <1>2, <2>1, <2>2, <3>1, <3>2, <3>3
  <2>3. CASE j = Len(authOut) + 1 /\ authOut'[j] = s
    <3>1. \A i \in DOMAIN authOut' : i < j => i \in DOMAIN authOut /\ authOut'[i] = authOut[i]
      BY <1>3, <2>3
    <3> QED BY <1>2, <1>4, <2>1, <2>3, <3>1
  <2> QED BY <1>3, <2>2, <2>3
<1> QED BY <1>1, <1>4, <1>5, <1>6, <1>7 DEF OrderInv

LEMMA LoginBringKeeps ==
    ASSUME LoginInv, LoginTypes, strand \in Seq(Jobs), LBring
    PROVE  LoginInv'
<1>1. /\ OnStrand(<<"bringup">>)
      /\ ~OnStrand(<<"bringup">>)' /\ ~Before(<<"bringup">>, <<"bringup">>)'
  BY StrandPop DEF LoginInv, BringInv, LBring
<1>2. AuthKept /\ ListenKept
  BY LoginStrand DEF LBring
<1>3. tdAuth = "none"
  BY <1>1 DEF LoginInv, BringInv
<1>4. BringInv'
  BY <1>1 DEF LBring, BringInv
<1>5. OrderInv'
  <2>1. Rank(tdAuth) < Rank("params") /\ "params" \in AuthStates
    BY <1>3, RankFacts
  <2> QED BY <1>2, <2>1, EnterOrder DEF LoginInv, LBring
<1>6. ActInv'
  BY <1>2 DEF LoginInv, ActInv, LBring, ListenKept
<1> QED BY <1>4, <1>5, <1>6 DEF LoginInv

LEMMA LoginEnterKeeps ==
    ASSUME LoginInv, LoginTypes, NEW s \in AuthStates, LEnter(s)
    PROVE  LoginInv'
<1>1. BringInv'
  BY DEF LoginInv, BringInv, LEnter, BringKept
<1>2. OrderInv'
  BY EnterOrder DEF LoginInv, LEnter
<1>3. ActInv'
  BY DEF LoginInv, ActInv, LEnter, ListenKept
<1> QED BY <1>1, <1>2, <1>3 DEF LoginInv

LEMMA LoginReceiveKeeps ==
    ASSUME LoginInv, LoginTypes, strand \in Seq(Jobs), LReceive
    PROVE  LoginInv'
<1> DEFINE s == Head(authOut)
<1>1. /\ authOut \in Seq(AuthStates) /\ s \in AuthStates
      /\ 1 \in DOMAIN authOut /\ authOut[1] = s
      /\ \A j \in DOMAIN authOut' : /\ j \in Nat /\ j # 0 /\ j + 1 \in DOMAIN authOut
                                    /\ authOut'[j] = authOut[j + 1]
  BY DEF LoginTypes, LReceive
<1>2. <<"auth", s>> \in Jobs /\ <<"auth", s>> # <<"bringup">> /\ <<"auth", s>> # Listen
  BY <1>1 DEF Jobs, Listen
<1>3. BringKept /\ ListenKept
  BY <1>2, LoginStrand DEF LReceive
<1>4. /\ \A t \in AuthStates : OnStrand(<<"auth", t>>)' => OnStrand(<<"auth", t>>) \/ t = s
      /\ \A t, u \in AuthStates : Before(<<"auth", t>>, <<"auth", u>>)' =>
            Before(<<"auth", t>>, <<"auth", u>>) \/ (u = s /\ OnStrand(<<"auth", t>>))
  <2>1. \A t, u : <<"auth", t>> = <<"auth", u>> => t = u
    OBVIOUS
  <2> QED BY <1>2, <2>1, StrandPush DEF LReceive
<1>5. BringInv'
  BY <1>3 DEF LoginInv, BringInv, LReceive, BringKept
<1>6. ActInv'
  BY <1>3 DEF LoginInv, ActInv, LReceive, ListenKept
<1>7. OrderInv'
  <2>1. /\ Rank(lastAuth) < Rank(s) /\ Rank(s) <= Rank(tdAuth)
        /\ UNCHANGED <<lastAuth, tdAuth>>
    BY <1>1 DEF LoginInv, OrderInv, LReceive
  <2>2. \A j \in DOMAIN authOut' :
           /\ Rank(lastAuth) < Rank(authOut'[j]) /\ Rank(authOut'[j]) <= Rank(tdAuth)
           /\ Rank(s) < Rank(authOut'[j])
    <3>1. ASSUME NEW j \in DOMAIN authOut'
          PROVE  /\ Rank(lastAuth) < Rank(authOut[j + 1]) /\ Rank(authOut[j + 1]) <= Rank(tdAuth)
                 /\ Rank(s) < Rank(authOut[j + 1])
      <4>1. j + 1 \in DOMAIN authOut /\ 1 < j + 1
        BY <1>1
      <4> QED BY <1>1, <4>1 DEF LoginInv, OrderInv
    <3> QED BY <1>1, <3>1
  <2>3. \A i, j \in DOMAIN authOut' : i < j => Rank(authOut'[i]) < Rank(authOut'[j])
    <3>1. SUFFICES ASSUME NEW i \in DOMAIN authOut', NEW j \in DOMAIN authOut', i < j
                   PROVE  Rank(authOut[i + 1]) < Rank(authOut[j + 1])
      BY <1>1
    <3>2. i + 1 \in DOMAIN authOut /\ j + 1 \in DOMAIN authOut /\ i + 1 < j + 1
      BY <1>1, <3>1
    <3> QED BY <3>2 DEF LoginInv, OrderInv
  <2>4. \A t \in AuthStates : OnStrand(<<"auth", t>>) =>
           /\ Rank(lastAuth) < Rank(t) /\ Rank(t) <= Rank(tdAuth) /\ Rank(t) < Rank(s)
           /\ \A j \in DOMAIN authOut' : Rank(t) < Rank(authOut'[j])
    BY <1>1 DEF LoginInv, OrderInv
  <2>5. \A t, u \in AuthStates : Before(<<"auth", t>>, <<"auth", u>>) => Rank(t) < Rank(u)
    BY DEF LoginInv, OrderInv
  <2>6. Rank(lastAuth) <= Rank(tdAuth)
    BY DEF LoginInv, OrderInv
  <2> HIDE DEF s
  <2> QED BY <1>4, <2>1, <2>2, <2>3, <2>4, <2>5, <2>6 DEF OrderInv
<1> QED BY <1>5, <1>6, <1>7 DEF LoginInv

LEMMA LoginAuthKeeps ==
    ASSUME LoginInv, LoginTypes, strand \in Seq(Jobs), NEW s \in AuthStates, LAuth(s)
    PROVE  LoginInv'
<1>1. AuthKept /\ BringKept /\ ListenKept
  BY LoginStrand DEF LAuth
<1>2. /\ OnStrand(<<"auth", s>>)
      /\ \A t \in AuthStates : OnStrand(<<"auth", t>>)' => Before(<<"auth", s>>, <<"auth", t>>)
  BY StrandPop DEF LAuth
<1>3. Rank(lastAuth) < Rank(s) /\ Rank(s) <= Rank(tdAuth) /\ lastAuth' = s
      /\ UNCHANGED <<run, listener, tdAuth, authOut>>
  BY <1>2 DEF LoginInv, OrderInv, LAuth
<1>4. \A t \in AuthStates \union {"none"} : Rank(t) \in Nat
  BY RankFacts
<1>5. lastAuth \in AuthStates \union {"none"} /\ acted \in [AuthStates -> Nat]
  BY DEF LoginTypes, AuthTypes
<1>6. BringInv'
  BY <1>1, <1>3 DEF LoginInv, BringInv, LAuth, BringKept, Told
<1>7. OrderInv'
  BY <1>1, <1>2, <1>3 DEF LoginInv, OrderInv, AuthKept
<1>8. ActInv'
  <2>1. \A t \in AuthStates : acted[t] # 0 => Rank(t) <= Rank(lastAuth)
    BY DEF LoginInv, ActInv
  <2>2. acted[s] = 0
    BY <1>3, <1>4, <1>5, <2>1
  <2>3. \A t \in AuthStates : acted[t] # 0 => Rank(t) <= Rank(s)
    BY <1>3, <1>4, <1>5, <2>1
  <2>4. CASE listener /\ Told(s)
    <3>1. \A t \in AuthStates : acted'[t] <= 1 /\ (acted'[t] # 0 => Rank(t) <= Rank(s))
      BY <1>4, <2>2, <2>3, <2>4 DEF Told, LoginInv, ActInv
    <3>2. auth' \notin {"new", "starting"} /\ ~OnStrand(Listen)'
      BY <1>1, <2>4 DEF Told, LoginInv, ActInv, ListenKept
    <3> QED BY <1>1, <1>3, <3>1, <3>2 DEF LoginInv, ActInv, ListenKept
  <2>5. CASE UNCHANGED <<acted, auth>>
    BY <1>1, <1>3, <2>3, <2>5 DEF LoginInv, ActInv, ListenKept
  <2> QED BY <2>4, <2>5 DEF LAuth
<1> QED BY <1>6, <1>7, <1>8 DEF LoginInv

LEMMA LoginPostKeeps ==
    ASSUME LoginInv, strand \in Seq(Jobs), LPost
    PROVE  LoginInv'
<1>1. Listen \in Jobs /\ Listen[1] # "auth" /\ Listen # <<"bringup">>
  BY DEF Jobs, Listen
<1>2. AuthKept /\ BringKept
  BY <1>1, LoginStrand DEF LPost
<1>3. ~Before(Listen, Listen)'
  BY <1>1, StrandPush DEF LoginInv, ActInv, LPost
<1>4. BringInv'
  BY <1>2 DEF LoginInv, BringInv, LPost, BringKept
<1>5. OrderInv'
  BY <1>2 DEF LoginInv, OrderInv, LPost, AuthKept
<1>6. ActInv'
  BY <1>3 DEF LoginInv, ActInv, LPost
<1> QED BY <1>4, <1>5, <1>6 DEF LoginInv

LEMMA LoginListenKeeps ==
    ASSUME LoginInv, LoginTypes, strand \in Seq(Jobs), LListen
    PROVE  LoginInv'
<1>1. AuthKept /\ BringKept
  BY LoginStrand DEF LListen
<1>2. OnStrand(Listen) /\ ~OnStrand(Listen)' /\ ~Before(Listen, Listen)'
  BY StrandPop DEF LListen, LoginInv, ActInv
<1>3. auth \notin {"new", "starting"} /\ \A s \in AuthStates : acted[s] = 0
  BY <1>2 DEF LoginInv, ActInv
<1>4. auth' \notin {"new", "starting"}
  BY <1>3 DEF LListen, Told
<1>5. BringInv'
  BY <1>1, <1>3, <1>4 DEF LoginInv, BringInv, LListen, BringKept
<1>6. OrderInv'
  BY <1>1 DEF LoginInv, OrderInv, LListen, AuthKept
<1>7. ActInv'
  <2>1. \A s \in AuthStates : Rank(s) \in Nat
    BY RankFacts
  <2>2. lastAuth # "none" => lastAuth \in AuthStates
    BY DEF LoginTypes, AuthTypes
  <2>3. \A s \in AuthStates : acted'[s] <= 1 /\ (acted'[s] # 0 => Rank(s) <= Rank(lastAuth))
    BY <1>3, <2>1, <2>2 DEF LListen, Told
  <2> QED BY <1>2, <1>4, <2>3 DEF ActInv, LListen
<1> QED BY <1>5, <1>6, <1>7 DEF LoginInv

LEMMA LoginInit ==
    ASSUME Init
    PROVE  LoginInv
<1>1. (\A k : ~OnStrand(k)) /\ (\A k, l : ~Before(k, l))
  BY EmptyStrand DEF Init
<1>2. BringInv
  BY <1>1 DEF Init, BringInv
<1>3. OrderInv
  BY <1>1, RankFacts DEF Init, OrderInv
<1>4. ActInv
  <2>1. ~listener
    BY DEF Init
  <2>2. CASE auth = "new" /\ acted = [s \in AuthStates |-> 0]
    BY <1>1, <2>1, <2>2 DEF ActInv
  <2>3. CASE auth = "ready" /\ lastAuth = "ready"
             /\ acted = [s \in AuthStates |-> IF s = "closed" THEN 0 ELSE 1]
    <3>1. \A s \in AuthStates : acted[s] <= 1 /\ (acted[s] # 0 => s # "closed")
      BY <2>3
    <3>2. \A s \in AuthStates : s # "closed" => Rank(s) <= 3
      BY DEF Rank, AuthStates
    <3>3. Rank(lastAuth) = 3
      BY <2>3, RankFacts
    <3> QED BY <1>1, <2>3, <3>1, <3>2, <3>3 DEF ActInv
  <2> QED BY <2>2, <2>3 DEF Init
<1> QED BY <1>2, <1>3, <1>4 DEF LoginInv

LEMMA LoginNext ==
    ASSUME BaseInv, LoginInv, [Next]_vars
    PROVE  LoginInv'
<1>1. strand \in Seq(Jobs) /\ LoginTypes
  BY DEF BaseInv, GatewayInv, CallTypes, SideTypes
<1>2. LoginKind
  BY LoginKinds DEF LoginInv
<1> QED BY <1>1, <1>2, LoginNothingKeeps, LoginSpawnKeeps, LoginRunKeeps, LoginBringKeeps,
           LoginEnterKeeps, LoginReceiveKeeps, LoginAuthKeeps, LoginPostKeeps, LoginListenKeeps
    DEF LoginKind

\* Whether TDLib's states arrive before the listener or after it, and whatever
\* they wait behind on the strand, the listener acts on each at most once: neither
\* the parameters nor the token are sent twice.
THEOREM LoginStepsOnce == Spec => []LoginStepOnce
<1>1. LoginInv => LoginStepOnce
  BY DEF LoginInv, ActInv, LoginStepOnce
<1>2. Init => BaseInv /\ LoginInv
  BY BaseInit, LoginInit
<1>3. BaseInv /\ LoginInv /\ [Next]_vars => BaseInv' /\ LoginInv'
  BY BaseNext, LoginNext
<1> QED BY <1>1, <1>2, <1>3, PTL DEF Spec

-----------------------------------------------------------------------------
(***************************************************************************)
(* Requests that TDLib has not processed.                                  *)
(***************************************************************************)

LEMMA AskNothing ==
    ASSUME GatewayInv, AskInv, KNothing
    PROVE  AskInv'
<1>1. CallTypes /\ IdInv /\ SlotInv /\ DrainInv /\ NotStranded /\ SendInv
  BY DEF GatewayInv
<1>2. /\ strand' \in Seq(Jobs)
      /\ Incoming' \subseteq Incoming
      /\ \A d \in Callers : (Queued(d)' => Queued(d)) /\ QueuedOnce(d)'
  BY <1>1, QuietStrand DEF KNothing, CallTypes
<1>3. /\ UNCHANGED <<pc, what, id, slot, late, pending, nextId, asked>>
      /\ run' = "clearing" => run = "clearing"
  BY DEF KNothing, callVars, tableVars
<1>10. IsFiniteSet(asked')
  BY <1>2, <1>3 DEF AskInv
<1>11. \A d \in Callers :
          /\ pc'[d] \in {"idle", "spawned", "hop", "off", "done"} =>
                id'[d] = 0 /\ slot'[d] = NoAnswer
          /\ slot'[d].is = "ok" => slot'[d].re = id'[d]
          /\ what'[d].op \in {"send", "edit"} => d \in Renders
  BY <1>1, <1>2, <1>3 DEF AskInv, CallTypes, IdInv, NoAnswer
<1>12. \A q \in asked' :
          /\ q.what.op \in {"send", "edit"} => q.who \in Renders
          /\ \A d \in Callers : q.id = id'[d] => q.who = d /\ q.what = what'[d] /\ slot'[d].is # "ok"
          /\ \A z \in asked' : q.id = z.id => q = z
          /\ \A b \in Incoming' : q.id # b.re
  BY <1>1, <1>2, <1>3 DEF AskInv, CallTypes, IdInv, NoAnswer
<1> QED BY <1>10, <1>11, <1>12 DEF AskInv

LEMMA AskSpawn ==
    ASSUME GatewayInv, AskInv, NEW c \in Callers, KSpawn(c)
    PROVE  AskInv'
<1>1. CallTypes /\ IdInv /\ SlotInv /\ DrainInv /\ NotStranded /\ SendInv
  BY DEF GatewayInv
<1>2. /\ strand' \in Seq(Jobs)
      /\ Incoming' \subseteq Incoming
      /\ \A d \in Callers : (Queued(d)' => Queued(d)) /\ QueuedOnce(d)'
  BY <1>1, QuietStrand DEF KSpawn, CallTypes
<1>3. /\ pc[c] = "idle" /\ pc' = [pc EXCEPT ![c] = "spawned"]
      /\ UNCHANGED <<what, id, slot, late, pending, nextId, asked, run>>
  BY DEF KSpawn, Go, tableVars
<1>4. "spawned" \in CallPlaces
  BY DEF CallPlaces
<1>10. IsFiniteSet(asked')
  BY <1>2, <1>3 DEF AskInv
<1>11. \A d \in Callers :
          /\ pc'[d] \in {"idle", "spawned", "hop", "off", "done"} =>
                id'[d] = 0 /\ slot'[d] = NoAnswer
          /\ slot'[d].is = "ok" => slot'[d].re = id'[d]
          /\ what'[d].op \in {"send", "edit"} => d \in Renders
  BY <1>1, <1>2, <1>3 DEF AskInv, CallTypes, IdInv, NoAnswer
<1>12. \A q \in asked' :
          /\ q.what.op \in {"send", "edit"} => q.who \in Renders
          /\ \A d \in Callers : q.id = id'[d] => q.who = d /\ q.what = what'[d] /\ slot'[d].is # "ok"
          /\ \A z \in asked' : q.id = z.id => q = z
          /\ \A b \in Incoming' : q.id # b.re
  BY <1>1, <1>2, <1>3 DEF AskInv, CallTypes, IdInv, NoAnswer
<1> QED BY <1>10, <1>11, <1>12 DEF AskInv

LEMMA AskCall ==
    ASSUME GatewayInv, AskInv, NEW c \in Callers, NEW w \in Requests, KCall(c, w)
    PROVE  AskInv'
<1>1. CallTypes /\ IdInv /\ SlotInv /\ DrainInv /\ NotStranded /\ SendInv
  BY DEF GatewayInv
<1>2. pc[c] \in {"idle", "spawned", "woken"} /\ Push(<<"send", c>>)
  BY DEF KCall, Call, CallAgain, Push
<1>3. /\ strand' \in Seq(Jobs)
      /\ Incoming' = Incoming
      /\ \A d \in Callers : (Queued(d)' => Queued(d) \/ d = c) /\ QueuedOnce(d)'
  BY <1>1, <1>2, CallStrand DEF CallTypes
<1>4. /\ pc' = [pc EXCEPT ![c] = "hop"]
      /\ what' = [what EXCEPT ![c] = w] /\ w.op \in Ops /\ (w.op \in {"send", "edit"} => c \in Renders)
      /\ id' = id \/ id' = [id EXCEPT ![c] = 0]
      /\ slot' = slot \/ slot' = [slot EXCEPT ![c] = NoAnswer]
      /\ UNCHANGED <<late, pending, nextId, asked, run>>
  BY DEF KCall, Call, CallAgain, Go, tableVars
<1>5. "hop" \in CallPlaces /\ 0 \in Nat /\ 0 < nextId
  BY <1>1 DEF CallPlaces, CallTypes
<1>6. \A d \in Callers :
         IF d = c THEN pc'[d] = "hop" /\ id'[d] = 0 /\ slot'[d] = NoAnswer /\ what'[d] = w
                  ELSE pc'[d] = pc[d] /\ id'[d] = id[d] /\ slot'[d] = slot[d] /\ what'[d] = what[d]
  <2>1. pc[c] \in {"idle", "spawned"} => id[c] = 0 /\ slot[c] = NoAnswer
    BY DEF AskInv
  <2>2. \/ pc[c] \in {"idle", "spawned"} /\ UNCHANGED <<id, slot>>
        \/ id' = [id EXCEPT ![c] = 0] /\ slot' = [slot EXCEPT ![c] = NoAnswer]
    BY DEF KCall, Call, CallAgain
  <2> QED BY <1>1, <1>4, <2>1, <2>2 DEF CallTypes
<1>7. NoAnswer.is = "none" /\ \A q \in asked : q.id # 0
  BY <1>1 DEF NoAnswer, IdInv
<1>10. IsFiniteSet(asked')
  BY <1>2, <1>3, <1>4, <1>5 DEF AskInv
<1>11. \A d \in Callers :
          /\ pc'[d] \in {"idle", "spawned", "hop", "off", "done"} =>
                id'[d] = 0 /\ slot'[d] = NoAnswer
          /\ slot'[d].is = "ok" => slot'[d].re = id'[d]
          /\ what'[d].op \in {"send", "edit"} => d \in Renders
  BY <1>3, <1>4, <1>6, <1>7 DEF AskInv
<1>12. \A q \in asked' :
          /\ q.what.op \in {"send", "edit"} => q.who \in Renders
          /\ \A d \in Callers : q.id = id'[d] => q.who = d /\ q.what = what'[d] /\ slot'[d].is # "ok"
          /\ \A z \in asked' : q.id = z.id => q = z
          /\ \A b \in Incoming' : q.id # b.re
  BY <1>3, <1>4, <1>6, <1>7 DEF AskInv
<1> QED BY <1>10, <1>11, <1>12 DEF AskInv

LEMMA AskReturn ==
    ASSUME GatewayInv, AskInv, NEW c \in Callers, KReturn(c)
    PROVE  AskInv'
<1>1. CallTypes /\ IdInv /\ SlotInv /\ DrainInv /\ NotStranded /\ SendInv
  BY DEF GatewayInv
<1>2. /\ strand' \in Seq(Jobs)
      /\ Incoming' \subseteq Incoming
      /\ \A d \in Callers : (Queued(d)' => Queued(d)) /\ QueuedOnce(d)'
  BY <1>1, QuietStrand DEF KReturn, CallTypes
<1>3. PICK place \in {"idle", "done"} : pc' = [pc EXCEPT ![c] = place]
  BY DEF KReturn, Returned, Go
<1>4. /\ pc[c] = "woken"
      /\ id' = [id EXCEPT ![c] = 0]
      /\ slot' = [slot EXCEPT ![c] = NoAnswer]
      /\ what' = [what EXCEPT ![c] = NoRequest]
      /\ UNCHANGED <<late, pending, nextId, asked, run>>
  BY DEF KReturn, Returned, tableVars
<1>5. place \in CallPlaces /\ NoRequest \in Requests /\ 0 \in Nat /\ 0 < nextId
  BY <1>1 DEF CallPlaces, NoRequest, Request, Requests, CallTypes
<1>6. \A d \in Callers :
         IF d = c THEN pc'[d] = place /\ id'[d] = 0 /\ slot'[d] = NoAnswer /\ what'[d] = NoRequest
                  ELSE pc'[d] = pc[d] /\ id'[d] = id[d] /\ slot'[d] = slot[d] /\ what'[d] = what[d]
  BY <1>1, <1>3, <1>4 DEF CallTypes
<1>7. NoAnswer.is = "none" /\ NoRequest.op = "none" /\ \A q \in asked : q.id # 0
  BY <1>1 DEF NoAnswer, NoRequest, Request, IdInv
<1>10. IsFiniteSet(asked')
  BY <1>2, <1>3, <1>4, <1>5 DEF AskInv
<1>11. \A d \in Callers :
          /\ pc'[d] \in {"idle", "spawned", "hop", "off", "done"} =>
                id'[d] = 0 /\ slot'[d] = NoAnswer
          /\ slot'[d].is = "ok" => slot'[d].re = id'[d]
          /\ what'[d].op \in {"send", "edit"} => d \in Renders
  BY <1>2, <1>4, <1>6, <1>7 DEF AskInv
<1>12. \A q \in asked' :
          /\ q.what.op \in {"send", "edit"} => q.who \in Renders
          /\ \A d \in Callers : q.id = id'[d] => q.who = d /\ q.what = what'[d] /\ slot'[d].is # "ok"
          /\ \A z \in asked' : q.id = z.id => q = z
          /\ \A b \in Incoming' : q.id # b.re
  BY <1>2, <1>4, <1>6, <1>7 DEF AskInv
<1> QED BY <1>10, <1>11, <1>12 DEF AskInv

LEMMA AskMove ==
    ASSUME GatewayInv, AskInv, NEW c \in Callers, KMove(c)
    PROVE  AskInv'
<1>1. CallTypes /\ IdInv /\ SlotInv /\ DrainInv /\ NotStranded /\ SendInv
  BY DEF GatewayInv
<1>2. /\ strand' \in Seq(Jobs)
      /\ Incoming' \subseteq Incoming
      /\ \A d \in Callers : (Queued(d)' => Queued(d)) /\ QueuedOnce(d)'
  BY <1>1, QuietStrand DEF KMove, CallTypes
<1>3. /\ \/ pc[c] = "hop" /\ pc' = [pc EXCEPT ![c] = "off"] /\ ~Queued(c)'
         \/ pc[c] = "sent" /\ pc' = [pc EXCEPT ![c] = "waiting"]
      /\ UNCHANGED <<what, id, slot, late, pending, nextId, asked, run>>
  <2>1. QueuedOnce(c) /\ strand \in Seq(Jobs)
    BY <1>1 DEF SendInv, CallTypes
  <2>2. Pop /\ Head(strand) = <<"send", c>> => pc[c] = "hop" /\ ~Queued(c)'
    BY <1>1, <2>1, QueuedPop DEF SendInv
  <2> QED BY <2>2 DEF KMove, Go, tableVars
<1>4. "off" \in CallPlaces /\ "waiting" \in CallPlaces
  BY DEF CallPlaces
<1>10. IsFiniteSet(asked')
  BY <1>2, <1>3 DEF AskInv
<1>11. \A d \in Callers :
          /\ pc'[d] \in {"idle", "spawned", "hop", "off", "done"} =>
                id'[d] = 0 /\ slot'[d] = NoAnswer
          /\ slot'[d].is = "ok" => slot'[d].re = id'[d]
          /\ what'[d].op \in {"send", "edit"} => d \in Renders
  BY <1>1, <1>2, <1>3 DEF AskInv, CallTypes, IdInv, NoAnswer
<1>12. \A q \in asked' :
          /\ q.what.op \in {"send", "edit"} => q.who \in Renders
          /\ \A d \in Callers : q.id = id'[d] => q.who = d /\ q.what = what'[d] /\ slot'[d].is # "ok"
          /\ \A z \in asked' : q.id = z.id => q = z
          /\ \A b \in Incoming' : q.id # b.re
  BY <1>1, <1>2, <1>3 DEF AskInv, CallTypes, IdInv, NoAnswer
<1> QED BY <1>10, <1>11, <1>12 DEF AskInv

LEMMA AskAbort ==
    ASSUME GatewayInv, AskInv, NEW c \in Callers, KAbort(c)
    PROVE  AskInv'
<1>1. CallTypes /\ IdInv /\ SlotInv /\ DrainInv /\ NotStranded /\ SendInv
  BY DEF GatewayInv
<1>2. /\ strand' \in Seq(Jobs)
      /\ Incoming' \subseteq Incoming
      /\ \A d \in Callers : (Queued(d)' => Queued(d)) /\ QueuedOnce(d)'
  BY <1>1, QuietStrand DEF KAbort, Abort, CallTypes
<1>3. /\ pc[c] = "waiting" /\ pc' = [pc EXCEPT ![c] = "woken"]
      /\ slot' = [slot EXCEPT ![c] = Answer(id[c], c, "cancelled", 0)]
      /\ id' = [id EXCEPT ![c] = 0]
      /\ UNCHANGED <<what, late, pending, nextId, asked, run>>
  BY DEF KAbort, Abort, Go, tableVars
<1>4. /\ "woken" \in CallPlaces /\ 0 \in Nat /\ 0 < nextId
      /\ Answer(id[c], c, "cancelled", 0) \in Answers
      /\ Answer(id[c], c, "cancelled", 0).to = c
      /\ Answer(id[c], c, "cancelled", 0) # NoAnswer
  BY <1>1 DEF CallPlaces, CallTypes, Answer, Answers, Outcomes, NoAnswer
<1>6. \A d \in Callers :
         IF d = c THEN pc'[d] = "woken" /\ id'[d] = 0 /\ slot'[d].is = "cancelled"
                  ELSE pc'[d] = pc[d] /\ id'[d] = id[d] /\ slot'[d] = slot[d]
  BY <1>1, <1>3 DEF CallTypes, Answer
<1>7. \A q \in asked : q.id # 0
  BY <1>1 DEF IdInv
<1>10. IsFiniteSet(asked')
  BY <1>2, <1>3, <1>4 DEF AskInv
<1>11. \A d \in Callers :
          /\ pc'[d] \in {"idle", "spawned", "hop", "off", "done"} =>
                id'[d] = 0 /\ slot'[d] = NoAnswer
          /\ slot'[d].is = "ok" => slot'[d].re = id'[d]
          /\ what'[d].op \in {"send", "edit"} => d \in Renders
  BY <1>2, <1>3, <1>6, <1>7 DEF AskInv
<1>12. \A q \in asked' :
          /\ q.what.op \in {"send", "edit"} => q.who \in Renders
          /\ \A d \in Callers : q.id = id'[d] => q.who = d /\ q.what = what'[d] /\ slot'[d].is # "ok"
          /\ \A z \in asked' : q.id = z.id => q = z
          /\ \A b \in Incoming' : q.id # b.re
  BY <1>2, <1>3, <1>6, <1>7 DEF AskInv
<1> QED BY <1>10, <1>11, <1>12 DEF AskInv

LEMMA AskClear ==
    ASSUME GatewayInv, AskInv, KClear
    PROVE  AskInv'
<1>1. CallTypes /\ IdInv /\ SlotInv /\ DrainInv /\ NotStranded /\ SendInv
  BY DEF GatewayInv
<1>2. /\ strand' \in Seq(Jobs)
      /\ Incoming' \subseteq Incoming
      /\ \A d \in Callers : (Queued(d)' => Queued(d)) /\ QueuedOnce(d)'
  BY <1>1, QuietStrand DEF KClear, CallTypes
<1>3. /\ run = "clearing" /\ run' = "returned" /\ pending' = {}
      /\ UNCHANGED <<pc, what, id, slot, late, nextId, asked>>
  BY DEF KClear, callVars
<1>10. IsFiniteSet(asked')
  BY <1>2, <1>3 DEF AskInv
<1>11. \A d \in Callers :
          /\ pc'[d] \in {"idle", "spawned", "hop", "off", "done"} =>
                id'[d] = 0 /\ slot'[d] = NoAnswer
          /\ slot'[d].is = "ok" => slot'[d].re = id'[d]
          /\ what'[d].op \in {"send", "edit"} => d \in Renders
  BY <1>1, <1>2, <1>3 DEF AskInv, CallTypes, IdInv, NoAnswer
<1>12. \A q \in asked' :
          /\ q.what.op \in {"send", "edit"} => q.who \in Renders
          /\ \A d \in Callers : q.id = id'[d] => q.who = d /\ q.what = what'[d] /\ slot'[d].is # "ok"
          /\ \A z \in asked' : q.id = z.id => q = z
          /\ \A b \in Incoming' : q.id # b.re
  BY <1>1, <1>2, <1>3 DEF AskInv, CallTypes, IdInv, NoAnswer
<1> QED BY <1>10, <1>11, <1>12 DEF AskInv

LEMMA AskReceive ==
    ASSUME GatewayInv, AskInv, NEW q \in asked, NEW a \in Answers, KReceive(q, a)
    PROVE  AskInv'
<1>1. CallTypes /\ IdInv /\ SlotInv /\ DrainInv /\ NotStranded /\ SendInv
  BY DEF GatewayInv
<1>2. <<"answer", a>> \in Jobs /\ <<"answer", a>>[1] # "send"
  BY DEF Jobs
<1>3. /\ a.re = q.id /\ a.to = q.who /\ Push(<<"answer", a>>)
      /\ asked' = asked \ {q}
      /\ UNCHANGED <<pc, what, id, slot, late, pending, nextId, run>>
  BY DEF KReceive, callVars, tableVars
<1>4. /\ strand' \in Seq(Jobs)
      /\ Incoming' = Incoming \union {a}
      /\ \A d \in Callers : (Queued(d)' => Queued(d)) /\ QueuedOnce(d)'
  <2>1. strand \in Seq(Jobs) /\ \A d \in Callers : QueuedOnce(d)
    BY <1>1 DEF CallTypes, SendInv
  <2>2. strand' \in Seq(Jobs)
    BY <1>2, <1>3, <2>1, StrandPush
  <2>3. Incoming' = Incoming \union {a}
    BY <1>2, <1>3, <2>1, IncomingPush
  <2>4. \A d \in Callers : (Queued(d)' => Queued(d)) /\ QueuedOnce(d)'
    BY <1>2, <1>3, <2>1, QueuedPush
  <2> QED BY <2>2, <2>3, <2>4
<1>10. IsFiniteSet(asked')
  BY <1>2, <1>3, <1>4, FS_Subset DEF AskInv
<1>11. \A d \in Callers :
          /\ pc'[d] \in {"idle", "spawned", "hop", "off", "done"} =>
                id'[d] = 0 /\ slot'[d] = NoAnswer
          /\ slot'[d].is = "ok" => slot'[d].re = id'[d]
          /\ what'[d].op \in {"send", "edit"} => d \in Renders
  BY <1>1, <1>2, <1>3, <1>4 DEF AskInv, CallTypes, IdInv, NoAnswer
<1>12. \A y \in asked' :
          /\ y.what.op \in {"send", "edit"} => y.who \in Renders
          /\ \A d \in Callers : y.id = id'[d] => y.who = d /\ y.what = what'[d] /\ slot'[d].is # "ok"
          /\ \A z \in asked' : y.id = z.id => y = z
          /\ \A b \in Incoming' : y.id # b.re
  BY <1>1, <1>2, <1>3, <1>4 DEF AskInv, CallTypes, IdInv, NoAnswer
<1> QED BY <1>10, <1>11, <1>12 DEF AskInv

LEMMA AskResume ==
    ASSUME GatewayInv, AskInv, NEW D \in SUBSET pending, KResume(D)
    PROVE  AskInv'
<1>1. CallTypes /\ IdInv /\ SlotInv /\ DrainInv /\ NotStranded /\ SendInv
  BY DEF GatewayInv
<1>2. /\ strand' \in Seq(Jobs)
      /\ Incoming' \subseteq Incoming
      /\ \A d \in Callers : (Queued(d)' => Queued(d)) /\ QueuedOnce(d)'
  BY <1>1, QuietStrand DEF KResume, CallTypes
<1>3. /\ pending' = pending \ D \/ (pending' = pending /\ D = pending)
      /\ run' = "clearing" => run = "clearing" \/ D = pending
      /\ pc' \in [Callers -> CallPlaces]
      /\ slot' \in [Callers -> Answers \union {NoAnswer}]
      /\ UNCHANGED <<what, id, late, nextId, asked>>
  BY DEF KResume
<1>4. \A c \in Callers :
         \/ pc'[c] = pc[c] /\ slot'[c] = slot[c]
         \/ /\ pc'[c] = IF pc[c] = "waiting" THEN "woken" ELSE pc[c]
            /\ slot'[c].re = id[c] /\ id[c] # 0
            /\ slot'[c].is = "ok" => slot'[c] \in Incoming
  <2>1. \A p \in D : p.id # 0
    BY <1>1 DEF IdInv
  <2>2. \A c \in Callers : [id |-> id[c], who |-> c] \in D => id[c] # 0
    BY <2>1
  <2> QED BY <2>2 DEF KResume
<1>5. pending' \subseteq pending
  BY <1>3
<1>10. IsFiniteSet(asked')
  BY <1>2, <1>3, <1>4 DEF AskInv
<1>11. ASSUME NEW d \in Callers
       PROVE  /\ pc'[d] \in {"idle", "spawned", "hop", "off", "done"} =>
                id'[d] = 0 /\ slot'[d] = NoAnswer
              /\ slot'[d].is = "ok" => slot'[d].re = id'[d]
              /\ what'[d].op \in {"send", "edit"} => d \in Renders
  <2>1. /\ pc[d] \in {"idle", "spawned", "hop", "off", "done"} => id[d] = 0 /\ slot[d] = NoAnswer
        /\ slot[d].is = "ok" => slot[d].re = id[d]
        /\ what[d].op \in {"send", "edit"} => d \in Renders
        /\ id' = id /\ what' = what
    BY <1>3 DEF AskInv
  <2>2. CASE pc'[d] = pc[d] /\ slot'[d] = slot[d]
    BY <2>1, <2>2
  <2>3. CASE pc'[d] = (IF pc[d] = "waiting" THEN "woken" ELSE pc[d])
             /\ slot'[d].re = id[d] /\ id[d] # 0
    BY <2>1, <2>3
  <2> QED BY <1>4, <2>2, <2>3
<1>12. ASSUME NEW q \in asked'
       PROVE  /\ q.what.op \in {"send", "edit"} => q.who \in Renders
              /\ \A d \in Callers : q.id = id'[d] => q.who = d /\ q.what = what'[d] /\ slot'[d].is # "ok"
              /\ \A z \in asked' : q.id = z.id => q = z
              /\ \A b \in Incoming' : q.id # b.re
  <2>1. /\ q.what.op \in {"send", "edit"} => q.who \in Renders
        /\ \A d \in Callers : q.id = id[d] => q.who = d /\ q.what = what[d] /\ slot[d].is # "ok"
        /\ \A z \in asked : q.id = z.id => q = z
        /\ \A b \in Incoming : q.id # b.re
        /\ asked' = asked /\ id' = id /\ what' = what
    BY <1>3 DEF AskInv
  <2>2. ASSUME NEW d \in Callers, q.id = id[d] PROVE slot'[d].is # "ok"
    BY <1>4, <2>1, <2>2
  <2> QED BY <1>2, <2>1, <2>2
<1> QED BY <1>10, <1>11, <1>12 DEF AskInv

LEMMA AskRegister ==
    ASSUME GatewayInv, AskInv, NEW c \in Callers, KRegister(c)
    PROVE  AskInv'
<1>1. CallTypes /\ IdInv /\ SlotInv /\ DrainInv /\ NotStranded /\ SendInv
  BY DEF GatewayInv
<1>2. /\ strand' \in Seq(Jobs)
      /\ Incoming' \subseteq Incoming
      /\ \A d \in Callers : (Queued(d)' => Queued(d)) /\ QueuedOnce(d)'
  BY <1>1, QuietStrand DEF KRegister, CallTypes
<1>3. /\ \/ pc[c] = "hop" /\ pc' = [pc EXCEPT ![c] = "waiting"] /\ ~Queued(c)'
         \/ pc[c] = "off" /\ pc' = [pc EXCEPT ![c] = "sent"]
      /\ UNCHANGED <<what, run>>
  <2>1. QueuedOnce(c) /\ strand \in Seq(Jobs)
    BY <1>1 DEF SendInv, CallTypes
  <2>2. Pop /\ Head(strand) = <<"send", c>> => pc[c] = "hop" /\ ~Queued(c)'
    BY <1>1, <2>1, QueuedPop DEF SendInv
  <2> QED BY <2>2 DEF KRegister, Register, Go
<1>4. /\ nextId' = nextId + 1
      /\ id' = [id EXCEPT ![c] = nextId]
      /\ pending' = pending \union {[id |-> nextId, who |-> c]}
      /\ asked' = asked \union {[id |-> nextId, who |-> c, what |-> what[c]]}
      /\ slot' = [slot EXCEPT ![c] = NoAnswer]
      /\ late' = [late EXCEPT ![c] = run \in {"clearing", "returned"}]
  BY DEF KRegister, Register
<1>5. "waiting" \in CallPlaces /\ "sent" \in CallPlaces /\ nextId \in Nat \ {0}
  BY <1>1 DEF CallPlaces, CallTypes
<1>10. IsFiniteSet(asked')
  BY <1>2, <1>3, <1>4, <1>5, FS_AddElement DEF AskInv
<1>11. \A d \in Callers :
          /\ pc'[d] \in {"idle", "spawned", "hop", "off", "done"} =>
                id'[d] = 0 /\ slot'[d] = NoAnswer
          /\ slot'[d].is = "ok" => slot'[d].re = id'[d]
          /\ what'[d].op \in {"send", "edit"} => d \in Renders
  BY <1>1, <1>2, <1>3, <1>4, <1>5 DEF AskInv, CallTypes, IdInv, NoAnswer
<1>12. \A q \in asked' :
          /\ q.what.op \in {"send", "edit"} => q.who \in Renders
          /\ \A d \in Callers : q.id = id'[d] => q.who = d /\ q.what = what'[d] /\ slot'[d].is # "ok"
          /\ \A z \in asked' : q.id = z.id => q = z
          /\ \A b \in Incoming' : q.id # b.re
  BY <1>1, <1>2, <1>3, <1>4, <1>5 DEF AskInv, CallTypes, IdInv, NoAnswer
<1> QED BY <1>10, <1>11, <1>12 DEF AskInv

LEMMA AskKept ==
    ASSUME GatewayInv, AskInv, CallerStep
    PROVE  AskInv'
  BY AskNothing, AskSpawn, AskCall, AskReturn, AskMove, AskAbort, AskClear, AskReceive, AskResume,
     AskRegister DEF CallerStep

-----------------------------------------------------------------------------
(***************************************************************************)
(* The status message.                                                     *)
(***************************************************************************)

LEMMA CardinalityAdd ==
    ASSUME NEW S, IsFiniteSet(S), NEW x
    PROVE  /\ Cardinality(S \union {x}) \in Nat
           /\ Cardinality(S \union {x}) <= Cardinality(S) + 1
           /\ x \notin S => Cardinality(S \union {x}) = Cardinality(S) + 1
<1>1. /\ IsFiniteSet(S \union {x})
      /\ Cardinality(S \union {x}) = IF x \in S THEN Cardinality(S) ELSE Cardinality(S) + 1
  BY FS_AddElement
<1>2. Cardinality(S) \in Nat
  BY FS_CardinalityType
<1> QED BY <1>1, <1>2

LEMMA LedgerTypes ==
    ASSUME ChatTypes, AskInv
    PROVE  /\ IsFiniteSet(Others) /\ Cardinality(Others) \in Nat
           /\ IsFiniteSet(Orphans) /\ Cardinality(Orphans) \in Nat
           /\ Replaces \in {0, 1} /\ Arriving \in {0, 1} /\ failures \in Nat
<1>1. DOMAIN shown = 1..Len(shown) /\ Len(shown) \in Nat /\ failures \in Nat
  BY DEF ChatTypes
<1>2. IsFiniteSet(DOMAIN shown)
  BY <1>1, FS_Interval
<1>3. IsFiniteSet(Others)
  BY <1>2, FS_Subset DEF Others
<1>4. IsFiniteSet(Orphans)
  BY FS_Subset DEF Orphans, AskInv
<1> QED BY <1>1, <1>3, <1>4, FS_CardinalityType DEF Replaces, Arriving

LEMMA LedgerTypesNext ==
    ASSUME ChatTypes', AskInv'
    PROVE  /\ IsFiniteSet(Others') /\ Cardinality(Others') \in Nat
           /\ IsFiniteSet(Orphans') /\ Cardinality(Orphans') \in Nat
           /\ Replaces' \in {0, 1} /\ Arriving' \in {0, 1} /\ failures' \in Nat
<1>1. DOMAIN shown' = 1..Len(shown') /\ Len(shown') \in Nat /\ failures' \in Nat
  BY DEF ChatTypes
<1>2. IsFiniteSet(DOMAIN shown')
  BY <1>1, FS_Interval
<1>3. IsFiniteSet(Others')
  BY <1>2, FS_Subset DEF Others
<1>4. IsFiniteSet(Orphans')
  BY FS_Subset DEF Orphans, AskInv
<1> QED BY <1>1, <1>3, <1>4, FS_CardinalityType DEF Replaces, Arriving

\* A step that leaves the chat alone.
LEMMA StatusQuiet ==
    ASSUME ChatTypes, AskInv, StatusInv, UNCHANGED renderSide, AskInv',
           \A r \in Renders : rp[r] \in {"send", "edit"} => what'[r] = what[r],
           \A r \in Renders, a \in Answers : Heard(r, a)' /\ a.is = "ok" => Heard(r, a),
           EditInv',
           Cardinality(Orphans') + Arriving <= Cardinality(Orphans) + Arriving'
    PROVE  StatusInv'
<1>1. UNCHANGED <<rp, draft, cached, html, shown, failures, unsure>>
  BY DEF renderSide, chatVars, renderVars, doubtVars
<1>2. DraftInv'
  BY <1>1 DEF StatusInv, DraftInv
<1>3. OkInv'
  BY <1>1 DEF StatusInv, OkInv
<1>4. TruthInv'
  BY <1>1 DEF StatusInv, TruthInv
<1>5. Ledger'
  <2>1. Cardinality(Others') = Cardinality(Others) /\ Replaces' = Replaces /\ failures' = failures
    BY <1>1 DEF Others, Replaces
  <2>2. /\ Cardinality(Others) \in Nat /\ Cardinality(Orphans) \in Nat
        /\ Replaces \in {0, 1} /\ Arriving \in {0, 1} /\ failures \in Nat
    BY LedgerTypes
  <2>3. ChatTypes'
    BY <1>1 DEF renderSide, chatVars, renderVars, ChatTypes
  <2>4. Cardinality(Orphans') \in Nat /\ Arriving' \in {0, 1}
    BY <2>3, LedgerTypesNext
  <2>5. Cardinality(Others) + Cardinality(Orphans) + Replaces <= failures + Arriving
    BY DEF StatusInv, Ledger
  <2> QED BY <2>1, <2>2, <2>4, <2>5 DEF Ledger
<1> QED BY <1>2, <1>3, <1>4, <1>5 DEF StatusInv

\* Renders are where they were, as far as the chat is concerned.
RendersKept ==
    /\ asked' = asked /\ Incoming' \subseteq Incoming
    /\ \A r \in Renders :
          /\ what'[r] = what[r] /\ id'[r] = id[r] /\ slot'[r] = slot[r]
          /\ pc'[r] \in {"hop", "off"} <=> pc[r] \in {"hop", "off"}

LEMMA StatusSame ==
    ASSUME ChatTypes, AskInv, StatusInv, UNCHANGED renderSide, AskInv', RendersKept
    PROVE  StatusInv'
<1>1. UNCHANGED <<rp, draft, cached, html, shown, failures, unsure>>
  BY DEF renderSide, chatVars, renderVars, doubtVars
<1>2. \A q \in asked : q.what.op \in {"send", "edit"} => q.who \in Renders
  BY DEF AskInv
<1>3. EditInv'
  BY <1>1, <1>2 DEF StatusInv, EditInv, Current, RendersKept
<1>4. Orphans' = Orphans
  BY <1>1, <1>2 DEF Orphans, RendersKept
<1>5. Arriving' = Arriving
  <2>1. \A r \in Renders : Processed(r)' <=> Processed(r)
    BY <1>1 DEF Processed, RendersKept
  <2> QED BY <2>1 DEF Arriving
<1>6. \A r \in Renders, a \in Answers : Heard(r, a)' => Heard(r, a)
  BY DEF Heard, RendersKept
<1>7. Cardinality(Orphans') + Arriving <= Cardinality(Orphans) + Arriving'
  BY <1>4, <1>5, LedgerTypes
<1> QED BY <1>3, <1>6, <1>7, StatusQuiet DEF RendersKept

\* Answers are stored: a good one was on its way.
LEMMA StatusResume ==
    ASSUME ChatTypes, GatewayInv, AskInv, StatusInv, UNCHANGED renderSide, AskInv',
           NEW D \in SUBSET pending, KResume(D)
    PROVE  StatusInv'
<1>1. UNCHANGED <<rp, draft, cached, html, shown, failures, unsure, what, id, asked>>
  BY DEF renderSide, chatVars, renderVars, doubtVars, KResume
<1>2. Incoming' \subseteq Incoming /\ Renders \subseteq Callers
  <2>1. strand' = strand \/ Pop
    BY DEF KResume
  <2> QED BY <2>1, QuietStrand, BotAssumption DEF GatewayInv, CallTypes
<1>3. \A c \in Callers :
         \/ pc'[c] = pc[c] /\ slot'[c] = slot[c]
         \/ /\ pc'[c] = IF pc[c] = "waiting" THEN "woken" ELSE pc[c]
            /\ slot'[c].re = id[c] /\ id[c] # 0
            /\ slot'[c].is = "ok" => slot'[c] \in Incoming
  <2>1. \A p \in D : p.id # 0
    BY DEF GatewayInv, IdInv
  <2>2. \A c \in Callers : [id |-> id[c], who |-> c] \in D => id[c] # 0
    BY <2>1
  <2> QED BY <2>2 DEF KResume
<1>4. \A r \in Renders, a \in Answers : Heard(r, a)' /\ a.is = "ok" => Heard(r, a)
  BY <1>1, <1>2, <1>3 DEF Heard
<1>5. EditInv'
  <2>1. \A q \in asked : q.what.op \in {"send", "edit"} => q.who \in Callers
    BY <1>2 DEF AskInv
  <2>2. ASSUME NEW q \in asked, Current(q), q.who \in Callers PROVE Current(q)'
    <3>1. id[q.who] = 0 => slot'[q.who] = slot[q.who]
      BY <1>3, <2>2
    <3> QED BY <1>1, <2>2, <3>1 DEF Current
  <2> QED BY <1>1, <2>1, <2>2 DEF StatusInv, EditInv
<1>6. Orphans' = Orphans
  BY <1>1 DEF Orphans
<1>7. Arriving' = Arriving
  <2>1. \A r \in Renders : Processed(r)' <=> Processed(r)
    BY <1>1, <1>2, <1>3 DEF Processed
  <2> QED BY <2>1 DEF Arriving
<1>8. Cardinality(Orphans') + Arriving <= Cardinality(Orphans) + Arriving'
  BY <1>6, <1>7, LedgerTypes
<1> QED BY <1>1, <1>4, <1>5, <1>8, StatusQuiet

\* A request that was processed, sent by r.
LEMMA WhatIs ==
    ASSUME ChatTypes, PhaseInv, DraftInv, NEW r \in Renders, pc[r] # "idle"
    PROVE  /\ rp[r] \in {"send", "edit"}
           /\ what[r].op = "send" <=> rp[r] = "send"
           /\ what[r].op = "edit" <=> rp[r] = "edit"
<1>1. rp[r] \in {"send", "edit"}
  BY DEF ChatTypes, PhaseInv, RenderPlaces
<1>2. \A h, m : Request("send", h, m).op = "send" /\ Request("edit", h, m).op = "edit"
  BY DEF Request
<1> QED BY <1>1, <1>2 DEF DraftInv

\* What a render awaits is the request for its draft.
LEMMA DraftFacts ==
    ASSUME DraftInv, NEW r \in Renders
    PROVE  /\ rp[r] = "send" => what[r].op = "send" /\ what[r].html = draft[r]
           /\ rp[r] = "edit" => /\ what[r].op = "edit" /\ what[r].html = draft[r]
                                /\ what[r].msg = cached /\ cached # 0
                                /\ cached \in DOMAIN shown
<1>1. \A h, m : /\ Request("send", h, m).op = "send" /\ Request("send", h, m).html = h
                /\ Request("edit", h, m).op = "edit" /\ Request("edit", h, m).html = h
                /\ Request("edit", h, m).msg = m
  BY DEF Request
<1> QED BY <1>1 DEF DraftInv

\* c registers: the request is its own.
LEMMA StatusRegister ==
    ASSUME ChatTypes, GatewayInv, PhaseInv, AskInv, StatusInv, UNCHANGED renderSide, AskInv',
           NEW c \in Callers, KRegister(c)
    PROVE  StatusInv'
<1>0. PICK new : new = [id |-> nextId, who |-> c, what |-> what[c]]
  OBVIOUS
<1>1. UNCHANGED <<rp, draft, cached, html, shown, failures, unsure, what>>
  BY DEF renderSide, chatVars, renderVars, doubtVars, KRegister, Register
<1>2. CallTypes /\ IdInv /\ SendInv
  BY DEF GatewayInv
<1>3. Incoming' \subseteq Incoming /\ Renders \subseteq Callers
  <2>1. strand' = strand \/ Pop
    BY DEF KRegister
  <2> QED BY <1>2, <2>1, QuietStrand, BotAssumption DEF CallTypes
<1>4. /\ pc[c] \in {"hop", "off"} /\ pc'[c] \in {"waiting", "sent"}
      /\ \A d \in Callers : d # c => pc'[d] = pc[d]
  <2>1. QueuedOnce(c) /\ strand \in Seq(Jobs) /\ pc \in [Callers -> CallPlaces]
    BY <1>2 DEF SendInv, CallTypes
  <2>2. Pop /\ Head(strand) = <<"send", c>> => pc[c] = "hop"
    BY <1>2, <2>1, QueuedPop DEF SendInv
  <2> QED BY <2>1, <2>2 DEF KRegister, Go
<1>5. /\ nextId \in Nat /\ nextId # 0
      /\ \A d \in Callers : id'[d] = IF d = c THEN nextId ELSE id[d]
      /\ \A d \in Callers : slot'[d] = IF d = c THEN NoAnswer ELSE slot[d]
      /\ asked' = asked \union {new}
  BY <1>0, <1>2 DEF KRegister, Register, CallTypes
<1>6. /\ id[c] = 0 /\ slot[c] = NoAnswer /\ NoAnswer.is = "none"
      /\ \A q \in asked : q.id # 0 /\ q.id # nextId
      /\ \A d \in Callers : id[d] # nextId
      /\ \A a \in Incoming : a.re # nextId
  BY <1>2, <1>4, <1>5 DEF AskInv, IdInv, NoAnswer, CallTypes
<1>7. \A r \in Renders, a \in Answers : Heard(r, a)' /\ a.is = "ok" => Heard(r, a)
  BY <1>3, <1>5, <1>6 DEF Heard
<1>8. \A q \in asked : q.what.op \in {"send", "edit"} => q.who \in Callers
  BY <1>3 DEF AskInv
<1>9. EditInv'
  <2>1. ASSUME NEW q \in asked, Current(q), q.who \in Callers PROVE Current(q)'
    <3>1. q.who # c
      BY <1>6, <2>1 DEF Current
    <3> QED BY <1>1, <1>5, <2>1, <3>1 DEF Current
  <2>2. new.id = nextId /\ new.who = c /\ new.what = what[c]
    BY <1>0
  <2>3. ASSUME what[c].op \in {"send", "edit"}
        PROVE  /\ c \in Renders /\ rp[c] \in {"send", "edit"}
               /\ what[c].op = "edit" <=> rp[c] = "edit"
    BY <1>4, <2>3, WhatIs DEF AskInv, StatusInv
  <2>4. ASSUME NEW r \in Renders
        PROVE  /\ rp[r] = "send" => what[r].html = draft[r] /\ draft[r] \in Texts
               /\ rp[r] = "edit" => /\ what[r].html = draft[r] /\ draft[r] \in Texts
                                    /\ what[r].msg = cached /\ cached \in DOMAIN shown
    <3>1. \A h, m : /\ Request("send", h, m).html = h
                    /\ Request("edit", h, m).html = h /\ Request("edit", h, m).msg = m
      BY DEF Request
    <3> QED BY <3>1 DEF StatusInv, DraftInv
  <2>5. /\ what[c].op \in {"send", "edit"} => what[c].html \in Texts
        /\ what[c].op = "edit" => /\ what[c].msg \in DOMAIN shown
                                  /\ rp[c] = "edit" /\ what[c].html = draft[c]
                                  /\ what[c].msg = cached
    BY <2>3, <2>4
  <2>6. what[c].op = "edit" => Current(new)'
    BY <1>1, <1>5, <2>2, <2>5 DEF Current
  <2>7. \A q \in asked :
           /\ q.what.op \in {"send", "edit"} => q.what.html \in Texts
           /\ q.what.op = "edit" =>
                 q.what.msg \in DOMAIN shown /\ (q.what.msg \in unsure \/ Current(q)')
    BY <1>8, <2>1 DEF StatusInv, EditInv
  <2>8. ASSUME NEW q \in asked'
        PROVE  /\ q.what.op \in {"send", "edit"} => q.what.html \in Texts
               /\ q.what.op = "edit" =>
                    q.what.msg \in DOMAIN shown /\ (q.what.msg \in unsure \/ Current(q)')
    BY <1>5, <2>2, <2>5, <2>6, <2>7
  <2> QED BY <1>1, <2>8 DEF EditInv
<1>10. Orphans' = Orphans
  <2>1. new.id = nextId /\ new.who = c
    BY <1>0
  <2>2. ASSUME NEW q \in asked, q.what.op = "send" PROVE q.id # id'[q.who] <=> q.id # id[q.who]
    BY <1>5, <1>6, <1>8, <2>2
  <2>3. ~(new.id # id'[new.who])
    BY <1>5, <2>1
  <2> QED BY <1>5, <2>2, <2>3 DEF Orphans
<1>11. Arriving' = Arriving
  <2>1. new.id = nextId
    BY <1>0
  <2>2. ASSUME NEW r \in Renders PROVE Processed(r)' <=> Processed(r)
    <3>1. CASE r = c
      BY <1>4, <1>5, <2>1, <3>1 DEF Processed
    <3>2. CASE r # c
      <4>1. r \in Callers /\ id'[r] = id[r] /\ pc'[r] = pc[r] /\ rp'[r] = rp[r] /\ id[r] # nextId
        BY <1>1, <1>3, <1>4, <1>5, <1>6, <3>2
      <4> QED BY <1>5, <2>1, <4>1 DEF Processed
    <3> QED BY <3>1, <3>2
  <2> QED BY <2>2 DEF Arriving
<1>12. Cardinality(Orphans') + Arriving <= Cardinality(Orphans) + Arriving'
  BY <1>10, <1>11, LedgerTypes
<1> QED BY <1>1, <1>7, <1>9, <1>12, StatusQuiet

\* The wait of c is cancelled: its request is nobody's from now on.
LEMMA StatusAbort ==
    ASSUME ChatTypes, GatewayInv, TokenInv, PhaseInv, AskInv, StatusInv, UNCHANGED renderSide,
           AskInv', NEW c \in Callers, KAbort(c)
    PROVE  StatusInv'
<1>1. UNCHANGED <<rp, draft, cached, html, shown, failures, unsure, what, asked, strand>>
  BY DEF renderSide, chatVars, renderVars, doubtVars, KAbort, Abort
<1>2. CallTypes /\ IdInv /\ Renders \subseteq Callers
  BY BotAssumption DEF GatewayInv
<1>3. /\ pc[c] = "waiting" /\ pc'[c] = "woken" /\ id'[c] = 0 /\ slot'[c].is = "cancelled"
      /\ \A d \in Callers : d # c => pc'[d] = pc[d] /\ id'[d] = id[d] /\ slot'[d] = slot[d]
  BY <1>2 DEF KAbort, Abort, Go, CallTypes, Answer
<1>4. Incoming' = Incoming /\ \A a \in Incoming : a.re # 0
  BY <1>1, <1>2 DEF Incoming, OnStrand, IdInv
<1>5. \A q \in asked : q.id # 0
  BY <1>2 DEF IdInv
<1>6. \A r \in Renders, a \in Answers : Heard(r, a)' /\ a.is = "ok" => Heard(r, a)
  BY <1>2, <1>3, <1>4 DEF Heard
<1>7. \A q \in asked : q.what.op \in {"send", "edit"} => q.who \in Callers
  BY <1>2 DEF AskInv
<1>8. EditInv'
  <2>1. ASSUME NEW q \in asked, Current(q), q.who \in Callers PROVE Current(q)'
    BY <1>1, <1>3, <2>1 DEF Current
  <2> QED BY <1>1, <1>7, <2>1 DEF StatusInv, EditInv
<1>9. Cardinality(Orphans') + Arriving <= Cardinality(Orphans) + Arriving'
  <2>1. /\ IsFiniteSet(Orphans) /\ Cardinality(Orphans) \in Nat
        /\ Arriving \in {0, 1}
    BY LedgerTypes
  <2>2. Arriving' \in {0, 1}
    BY DEF Arriving
  <2>3. ASSUME NEW q \in asked, q.id = id[c], q.what.op = "send"
        PROVE  /\ Orphans' = Orphans \union {q} /\ Arriving' = 1 /\ Arriving = 0
    <3>1. q.who = c /\ what[c] = q.what /\ c \in Renders
      BY <2>3 DEF AskInv
    <3>2. rp[c] = "send"
      BY <1>3, <2>3, <3>1, WhatIs DEF StatusInv
    <3>3. \A r \in Renders : rp[r] = "send" => r = c
      BY <3>1, <3>2 DEF TokenInv, Holding
    <3>4. ~\E r \in Renders : Processed(r)
      BY <2>3, <3>3 DEF Processed
    <3>5. Processed(c)'
      BY <1>1, <1>3, <1>5, <3>2 DEF Processed
    <3>6. \A z \in asked : z.id = id[c] => z = q
      BY <2>3 DEF AskInv
    <3>7. \A z \in asked : z.what.op = "send" =>
             (z.id # id'[z.who] <=> (z.id # id[z.who] \/ z = q))
      BY <1>3, <1>5, <1>7, <2>3, <3>1, <3>6
    <3> QED BY <1>1, <2>3, <3>1, <3>4, <3>5, <3>7 DEF Orphans, Arriving
  <2>4. CASE \E q \in asked : q.id = id[c] /\ q.what.op = "send"
    <3>1. PICK q \in asked : Orphans' = Orphans \union {q} /\ Arriving' = 1 /\ Arriving = 0
      BY <2>3, <2>4
    <3>2. /\ Cardinality(Orphans \union {q}) \in Nat
          /\ Cardinality(Orphans \union {q}) <= Cardinality(Orphans) + 1
      BY <2>1, CardinalityAdd
    <3>3. Cardinality(Orphans') = Cardinality(Orphans \union {q})
      BY <3>1
    <3> QED BY <2>1, <3>1, <3>2, <3>3
  <2>5. CASE ~\E q \in asked : q.id = id[c] /\ q.what.op = "send"
    <3>1. Orphans' = Orphans
      <4>1. \A z \in asked : z.what.op = "send" => (z.id # id'[z.who] <=> z.id # id[z.who])
        BY <1>3, <1>5, <1>7, <2>5
      <4> QED BY <1>1, <4>1 DEF Orphans
    <3>2. \A r \in Renders : Processed(r) => Processed(r)'
      <4>1. ASSUME NEW r \in Renders, Processed(r), r # c PROVE Processed(r)'
        BY <1>1, <1>2, <1>3, <4>1 DEF Processed
      <4>2. ASSUME c \in Renders, Processed(c) PROVE Processed(c)'
        BY <1>1, <1>3, <1>5, <4>2 DEF Processed
      <4> QED BY <4>1, <4>2
    <3>3. Arriving = 1 => Arriving' = 1
      BY <3>2 DEF Arriving
    <3> QED BY <2>1, <2>2, <3>1, <3>3
  <2> QED BY <2>4, <2>5
<1> QED BY <1>1, <1>6, <1>8, <1>9, StatusQuiet

\* The steps that are neither a render's, nor TDLib's answer, nor a user's.
LEMMA StatusOther ==
    ASSUME BaseInv, AskInv, StatusInv, [Next]_vars, AskInv',
           ~\E r \in Renders : StatusStep(r), ~TdProcesses, ~UserDeletes
    PROVE  StatusInv'
<1>1. GatewayInv /\ ChatTypes /\ SideTypes /\ TokenInv /\ PhaseInv /\ Renders \subseteq Callers
  BY BotAssumption DEF BaseInv, SideTypes
<1>2. UNCHANGED renderSide
  BY ChatQuiet
<1>3. CallerStep
  BY <1>1, CallerKinds
<1>4. CallTypes /\ SendInv /\ strand \in Seq(Jobs) /\ pc \in [Callers -> CallPlaces]
  BY <1>1 DEF GatewayInv, CallTypes
<1>5. CASE RendersKept
  BY <1>1, <1>2, <1>5, StatusSame
<1>6. CASE KNothing \/ KClear
  <2>1. Incoming' \subseteq Incoming
    BY <1>4, <1>6, QuietStrand DEF KNothing, KClear
  <2> QED BY <1>5, <1>6, <2>1 DEF KNothing, KClear, RendersKept, callVars
<1>7. ASSUME NEW c \in Callers, KSpawn(c) PROVE RendersKept
  <2>1. Incoming' \subseteq Incoming
    BY <1>4, <1>7, QuietStrand DEF KSpawn
  <2>2. \A r \in Renders : pc'[r] = pc[r]
    BY <1>1, <1>4, <1>7 DEF KSpawn, Go
  <2> QED BY <1>7, <2>1, <2>2 DEF KSpawn, RendersKept
<1>8. ASSUME NEW c \in Callers, c \notin Renders, KReturn(c) PROVE RendersKept
  <2>1. Incoming' = Incoming
    BY <1>8 DEF KReturn, Incoming, OnStrand
  <2>2. PICK place \in {"idle", "done"} : Returned(c, place)
    BY <1>8 DEF KReturn
  <2>3. \A r \in Renders : pc'[r] = pc[r] /\ what'[r] = what[r] /\ id'[r] = id[r] /\ slot'[r] = slot[r]
    BY <1>1, <1>4, <1>8, <2>2 DEF Returned, Go, CallTypes
  <2> QED BY <1>8, <2>1, <2>3 DEF KReturn, RendersKept
<1>9. ASSUME NEW c \in Callers, NEW w \in Requests, c \notin Renders, KCall(c, w) PROVE RendersKept
  <2>1. pc[c] # "hop" /\ Push(<<"send", c>>)
    BY <1>9 DEF KCall, Call, CallAgain, Push
  <2>2. Incoming' = Incoming
    BY <1>4, <2>1, CallStrand
  <2>3. \A r \in Renders : pc'[r] = pc[r] /\ what'[r] = what[r] /\ id'[r] = id[r] /\ slot'[r] = slot[r]
    BY <1>1, <1>4, <1>9 DEF KCall, Call, CallAgain, Go, CallTypes
  <2> QED BY <1>9, <2>2, <2>3 DEF KCall, RendersKept
<1>10. ASSUME NEW c \in Callers, KMove(c) PROVE RendersKept
  <2>1. Incoming' \subseteq Incoming
    BY <1>4, <1>10, QuietStrand DEF KMove
  <2>2. Pop /\ Head(strand) = <<"send", c>> => pc[c] = "hop"
    BY <1>4, QueuedPop DEF SendInv
  <2>3. \A r \in Renders : pc'[r] \in {"hop", "off"} <=> pc[r] \in {"hop", "off"}
    BY <1>1, <1>4, <1>10, <2>2 DEF KMove, Go
  <2> QED BY <1>10, <2>1, <2>3 DEF KMove, RendersKept
<1>11. ASSUME NEW c \in Callers, KRegister(c) PROVE StatusInv'
  BY <1>1, <1>2, <1>11, StatusRegister
<1>12. ASSUME NEW c \in Callers, KAbort(c) PROVE StatusInv'
  BY <1>1, <1>2, <1>12, StatusAbort
<1>13. ASSUME NEW D \in SUBSET pending, KResume(D) PROVE StatusInv'
  BY <1>1, <1>2, <1>13, StatusResume
<1> QED BY <1>3, <1>5, <1>6, <1>7, <1>8, <1>9, <1>10, <1>11, <1>12, <1>13 DEF CallerStep

LEMMA StatusDeleted ==
    ASSUME ChatTypes, AskInv, StatusInv, UserDeletes
    PROVE  StatusInv'
<1>1. /\ UNCHANGED <<rp, draft, cached, html, failures, unsure, what, id, slot, pc, asked, strand>>
      /\ cached # 0 /\ shown' = [shown EXCEPT ![cached] = 0]
  BY DEF UserDeletes, chatVars, renderVars, doubtVars, callVars
<1>2. /\ DOMAIN shown' = DOMAIN shown
      /\ \A m \in DOMAIN shown : m # cached => shown'[m] = shown[m]
      /\ cached \in DOMAIN shown => shown'[cached] = 0
  BY <1>1 DEF ChatTypes
<1>3. cached \in DOMAIN shown
  BY <1>1 DEF StatusInv, DraftInv
<1>4. Incoming' = Incoming
  BY <1>1 DEF Incoming, OnStrand
<1>5. DraftInv'
  BY <1>1, <1>2 DEF StatusInv, DraftInv
<1>6. EditInv'
  <2>1. \A q \in asked : Current(q)' <=> Current(q)
    BY <1>1 DEF Current
  <2> QED BY <1>1, <1>2, <2>1 DEF StatusInv, EditInv
<1>7. OkInv'
  <2>1. \A r \in Renders, a \in Answers : Heard(r, a)' <=> Heard(r, a)
    BY <1>1, <1>4 DEF Heard
  <2> QED BY <1>1, <1>2, <1>3, <2>1 DEF StatusInv, OkInv
<1>8. TruthInv'
  BY <1>1, <1>2, <1>3 DEF TruthInv
<1>9. Ledger'
  <2>1. Others' = Others
    BY <1>1, <1>2 DEF Others
  <2>2. Orphans' = Orphans /\ Replaces' = Replaces
    BY <1>1 DEF Orphans, Replaces
  <2>3. Arriving' = Arriving
    BY <1>1 DEF Arriving, Processed
  <2> QED BY <1>1, <2>1, <2>2, <2>3 DEF StatusInv, Ledger
<1> QED BY <1>5, <1>6, <1>7, <1>8, <1>9 DEF StatusInv

\* TDLib answers q with a: it has sent no, one or an other text for it.
Answering(q, a) ==
    /\ UNCHANGED <<rp, draft, cached, html, failures, unsure, what, id, slot, pc>>
    /\ asked' = asked \ {q} /\ Incoming' = Incoming \union {a}
    /\ a.re = q.id

\* The request that is processed was an orphan, or is one that a render awaits.
LEMMA AnswerPays ==
    ASSUME GatewayInv, ChatTypes, TokenInv, PhaseInv, AskInv, DraftInv,
           NEW q \in asked, NEW a \in Answers, Answering(q, a)
    PROVE  /\ Cardinality(Orphans') \in Nat /\ Arriving' \in {0, 1}
           /\ Cardinality(Orphans') + Arriving <= Cardinality(Orphans) + Arriving'
           /\ q.what.op = "send" =>
                 Cardinality(Orphans') + Arriving + 1 <= Cardinality(Orphans) + Arriving'
<1>1. /\ IsFiniteSet(Orphans) /\ Cardinality(Orphans) \in Nat /\ Arriving \in {0, 1}
      /\ Arriving' \in {0, 1}
  BY LedgerTypes DEF Arriving
<1>2. Orphans' = Orphans \ {q}
  BY DEF Answering, Orphans
<1>3. /\ Cardinality(Orphans \ {q}) \in Nat
      /\ Cardinality(Orphans \ {q}) = IF q \in Orphans THEN Cardinality(Orphans) - 1
                                                      ELSE Cardinality(Orphans)
  BY <1>1, FS_RemoveElement, FS_CardinalityType
<1>4. Cardinality(Orphans') = Cardinality(Orphans \ {q})
  BY <1>2
<1>5. \A r \in Renders : Processed(r) => Processed(r)'
  BY DEF Processed, Answering
<1>6. Arriving = 1 => Arriving' = 1
  BY <1>5 DEF Arriving
<1>7. ASSUME q.what.op = "send", q \notin Orphans PROVE Arriving = 0 /\ Arriving' = 1
  <2>1. q.id = id[q.who] /\ q.who \in Renders /\ Renders \subseteq Callers
    BY <1>7, BotAssumption DEF Orphans, AskInv
  <2>2. what[q.who] = q.what
    BY <2>1 DEF AskInv
  <2>3. q.id # 0
    BY DEF GatewayInv, IdInv
  <2>4. pc[q.who] \notin {"idle", "hop", "off"}
    BY <2>1, <2>3 DEF AskInv
  <2>5. rp[q.who] = "send"
    BY <1>7, <2>1, <2>2, <2>4, WhatIs
  <2>6. \A r \in Renders : rp[r] = "send" => r = q.who
    BY <2>1, <2>5 DEF TokenInv, Holding
  <2>7. ~\E r \in Renders : Processed(r)
    BY <2>1, <2>6 DEF Processed
  <2>8. \A z \in asked : z.id = q.id => z = q
    BY DEF AskInv
  <2>9. PICK u \in Renders : u = q.who
    BY <2>1
  <2>10. Processed(u)'
    BY <2>1, <2>4, <2>5, <2>8, <2>9 DEF Processed, Answering
  <2> QED BY <2>7, <2>10 DEF Arriving
<1> QED BY <1>1, <1>3, <1>4, <1>6, <1>7

\* Everything but what the answer says of the chat.
LEMMA AnswerQuiet ==
    ASSUME GatewayInv, ChatTypes, AskInv, StatusInv,
           NEW q \in asked, NEW a \in Answers, Answering(q, a)
    PROVE  /\ DOMAIN shown \subseteq DOMAIN shown' => DraftInv' /\ EditInv'
           /\ \A r \in Renders, b \in Answers : Heard(r, b)' =>
                 \/ Heard(r, b)
                 \/ b = a /\ q.who = r /\ what[r] = q.what
           /\ Replaces' = Replaces
<1>1. /\ UNCHANGED <<rp, draft, cached, html, failures, unsure, what, id, slot, pc>>
      /\ asked' = asked \ {q} /\ Incoming' = Incoming \union {a} /\ a.re = q.id
  BY DEF Answering
<1>2. ASSUME DOMAIN shown \subseteq DOMAIN shown' PROVE DraftInv'
  BY <1>1, <1>2 DEF StatusInv, DraftInv
<1>3. ASSUME DOMAIN shown \subseteq DOMAIN shown' PROVE EditInv'
  <2>1. \A z \in asked : Current(z)' <=> Current(z)
    BY <1>1 DEF Current
  <2> QED BY <1>1, <1>3, <2>1 DEF StatusInv, EditInv
<1>4. ASSUME NEW r \in Renders, NEW b \in Answers, Heard(r, b)', ~Heard(r, b)
      PROVE  b = a /\ q.who = r /\ what[r] = q.what
  <2>1. b = a /\ q.id = id[r]
    BY <1>1, <1>4 DEF Heard
  <2>2. r \in Callers
    BY BotAssumption
  <2> QED BY <2>1, <2>2 DEF AskInv
<1>5. Replaces' = Replaces
  BY <1>1 DEF Replaces
<1> QED BY <1>2, <1>3, <1>4, <1>5

\* A refusal, or the answer to a request that is not about the status message.
LEMMA StatusAnswered ==
    ASSUME GatewayInv, ChatTypes, TokenInv, PhaseInv, AskInv, StatusInv,
           NEW q \in asked, NEW a \in Answers, Answering(q, a), shown' = shown,
           a.is = "ok" => q.what.op \notin {"send", "edit"}
    PROVE  StatusInv'
<1>1. DraftInv' /\ EditInv' /\ Replaces' = Replaces
  BY AnswerQuiet
<1>2. UNCHANGED <<rp, draft, cached, html, failures, unsure>>
  BY DEF Answering
<1>3. OkInv'
  <2>1. ASSUME NEW r \in Renders, NEW b \in Answers, Heard(r, b)', b.is = "ok",
               rp[r] \in {"send", "edit"}
        PROVE  Heard(r, b)
    <3>1. what[r].op \in {"send", "edit"}
      BY <2>1, DraftFacts DEF StatusInv
    <3> QED BY <2>1, <3>1, AnswerQuiet
  <2> QED BY <1>2, <2>1 DEF StatusInv, OkInv
<1>4. TruthInv'
  BY <1>2 DEF StatusInv, TruthInv
<1>5. Ledger'
  <2>1. Others' = Others
    BY <1>2 DEF Others
  <2>2. /\ Cardinality(Others) \in Nat /\ Cardinality(Orphans) \in Nat
        /\ Replaces \in {0, 1} /\ Arriving \in {0, 1} /\ failures \in Nat
    BY LedgerTypes
  <2>3. /\ Cardinality(Orphans') \in Nat /\ Arriving' \in {0, 1}
        /\ Cardinality(Orphans') + Arriving <= Cardinality(Orphans) + Arriving'
    BY AnswerPays DEF StatusInv
  <2>4. Cardinality(Others) + Cardinality(Orphans) + Replaces <= failures + Arriving
    BY DEF StatusInv, Ledger
  <2>5. Cardinality(Others') = Cardinality(Others) /\ failures' = failures /\ Replaces' = Replaces
    BY <1>1, <1>2, <2>1
  <2>6. Cardinality(Others') + Cardinality(Orphans') + Replaces' <= failures' + Arriving'
    BY <2>2, <2>3, <2>4, <2>5
  <2> QED BY <2>6 DEF Ledger
<1> QED BY <1>1, <1>3, <1>4, <1>5 DEF StatusInv

\* A new message.
LEMMA StatusNew ==
    ASSUME GatewayInv, ChatTypes, TokenInv, PhaseInv, AskInv, StatusInv,
           NEW q \in asked, NEW a \in Answers, Answering(q, a),
           q.what.op = "send", shown' = Append(shown, q.what.html), a.msg = Len(shown) + 1
    PROVE  StatusInv'
<1> DEFINE n == Len(shown) + 1
<1>1. /\ n \notin DOMAIN shown /\ DOMAIN shown' = DOMAIN shown \union {n}
      /\ shown'[n] = q.what.html /\ n # 0
      /\ \A m \in DOMAIN shown : shown'[m] = shown[m]
  <2>1. shown \in Seq(Texts \union {0})
    BY DEF ChatTypes
  <2> QED BY <2>1
<1> HIDE DEF n
<1>2. DraftInv' /\ EditInv' /\ Replaces' = Replaces
  BY <1>1, AnswerQuiet
<1>3. UNCHANGED <<rp, draft, cached, html, failures, unsure>> /\ a.msg = n
  BY DEF Answering, n
<1>4. cached # n /\ n \notin unsure /\ (cached # 0 => cached \in DOMAIN shown)
  BY <1>1 DEF StatusInv, DraftInv
<1>5. q.what.html \in Texts /\ q.what.html # 0
  BY BotAssumption DEF StatusInv, EditInv
<1>6. OkInv'
  <2>1. ASSUME NEW r \in Renders, NEW b \in Answers, Heard(r, b)', b.is = "ok", rp[r] = "send"
        PROVE  /\ b.msg \in DOMAIN shown' /\ b.msg # cached
               /\ b.msg \notin unsure /\ shown'[b.msg] = draft[r]
    <3>1. CASE Heard(r, b)
      <4>1. /\ b.msg \in DOMAIN shown /\ b.msg # cached
            /\ b.msg \notin unsure /\ shown[b.msg] = draft[r]
        BY <2>1, <3>1 DEF StatusInv, OkInv
      <4> QED BY <1>1, <4>1
    <3>2. CASE b = a /\ what[r] = q.what
      <4>1. q.what.html = draft[r]
        BY <2>1, <3>2, DraftFacts DEF StatusInv
      <4> QED BY <1>1, <1>3, <1>4, <3>2, <4>1
    <3> QED BY <2>1, <3>1, <3>2, AnswerQuiet
  <2>2. ASSUME NEW r \in Renders, NEW b \in Answers, Heard(r, b)', b.is = "ok", rp[r] = "edit"
        PROVE  cached \in unsure \/ shown'[cached] \in {0, draft[r]}
    <3>1. cached \in DOMAIN shown /\ what[r].op = "edit"
      BY <2>2, DraftFacts DEF StatusInv
    <3>2. Heard(r, b)
      BY <2>2, <3>1, AnswerQuiet
    <3>3. cached \in unsure \/ shown[cached] \in {0, draft[r]}
      BY <2>2, <3>2 DEF StatusInv, OkInv
    <3> QED BY <1>1, <3>1, <3>3
  <2> QED BY <1>3, <2>1, <2>2 DEF OkInv
<1>7. TruthInv'
  BY <1>1, <1>3, <1>4 DEF StatusInv, TruthInv
<1>8. Ledger'
  <2>1. Others' = Others \union {n} /\ n \notin Others
    BY <1>1, <1>3, <1>4, <1>5 DEF Others
  <2>2. /\ Cardinality(Others) \in Nat /\ Cardinality(Orphans) \in Nat /\ IsFiniteSet(Others)
        /\ Replaces \in {0, 1} /\ Arriving \in {0, 1} /\ failures \in Nat
    BY LedgerTypes
  <2>3. /\ Cardinality(Orphans') \in Nat /\ Arriving' \in {0, 1}
        /\ Cardinality(Orphans') + Arriving + 1 <= Cardinality(Orphans) + Arriving'
    BY AnswerPays DEF StatusInv
  <2>4. Cardinality(Others) + Cardinality(Orphans) + Replaces <= failures + Arriving
    BY DEF StatusInv, Ledger
  <2>5. Cardinality(Others \union {n}) = Cardinality(Others) + 1
    BY <2>1, <2>2, CardinalityAdd
  <2>6. Cardinality(Others') = Cardinality(Others) + 1 /\ failures' = failures /\ Replaces' = Replaces
    BY <1>2, <1>3, <2>1, <2>5
  <2>7. Cardinality(Others') + Cardinality(Orphans') + Replaces' <= failures' + Arriving'
    BY <2>2, <2>3, <2>4, <2>6
  <2> QED BY <2>7 DEF Ledger
<1> QED BY <1>2, <1>6, <1>7, <1>8 DEF StatusInv

\* A message is edited: it is the cached one, unless an edit of it was reported failed.
LEMMA StatusEdited ==
    ASSUME GatewayInv, ChatTypes, TokenInv, PhaseInv, AskInv, StatusInv,
           NEW q \in asked, NEW a \in Answers, Answering(q, a),
           q.what.op = "edit", shown[q.what.msg] # 0,
           shown' = [shown EXCEPT ![q.what.msg] = q.what.html]
    PROVE  StatusInv'
<1> DEFINE n == q.what.msg
<1>1. q.what.html \in Texts /\ q.what.html # 0 /\ n \in DOMAIN shown /\ (n \in unsure \/ Current(q))
  BY BotAssumption DEF StatusInv, EditInv
<1>2. /\ DOMAIN shown' = DOMAIN shown
      /\ \A m \in DOMAIN shown : shown'[m] = IF m = n THEN q.what.html ELSE shown[m]
  BY <1>1 DEF ChatTypes
<1>3. DraftInv' /\ EditInv' /\ Replaces' = Replaces
  BY <1>2, AnswerQuiet
<1>4. UNCHANGED <<rp, draft, cached, html, failures, unsure>>
  BY DEF Answering
<1>5. /\ q.who \in Renders
      /\ n \notin unsure => n = cached /\ rp[q.who] = "edit" /\ q.what.html = draft[q.who]
      /\ cached # 0 => cached \in DOMAIN shown
  BY <1>1 DEF AskInv, Current, StatusInv, DraftInv
<1>6. \A r \in Renders : rp[r] = "edit" /\ rp[q.who] = "edit" => r = q.who
  BY <1>5 DEF TokenInv, Holding
<1> HIDE DEF n
<1>7. OkInv'
  <2>1. ASSUME NEW r \in Renders, NEW b \in Answers, Heard(r, b)', b.is = "ok", rp[r] = "send"
        PROVE  /\ b.msg \in DOMAIN shown' /\ b.msg # cached
               /\ b.msg \notin unsure /\ shown'[b.msg] = draft[r]
    <3>1. what[r].op = "send"
      BY <2>1, DraftFacts DEF StatusInv
    <3>2. Heard(r, b)
      BY <2>1, <3>1, AnswerQuiet
    <3>3. /\ b.msg \in DOMAIN shown /\ b.msg # cached
          /\ b.msg \notin unsure /\ shown[b.msg] = draft[r]
      BY <2>1, <3>2 DEF StatusInv, OkInv
    <3> QED BY <1>2, <1>5, <3>3
  <2>2. ASSUME NEW r \in Renders, NEW b \in Answers, Heard(r, b)', b.is = "ok", rp[r] = "edit",
               cached \notin unsure
        PROVE  shown'[cached] \in {0, draft[r]}
    <3>1. cached \in DOMAIN shown
      BY <2>2 DEF StatusInv, DraftInv
    <3>2. CASE n = cached
      <4>1. shown'[cached] = q.what.html /\ rp[q.who] = "edit" /\ q.what.html = draft[q.who]
        BY <1>2, <1>5, <2>2, <3>1, <3>2
      <4> QED BY <1>6, <2>2, <4>1
    <3>3. CASE n # cached
      <4>1. what[r] = Request("edit", draft[r], cached)
        BY <2>2 DEF StatusInv, DraftInv
      <4>2. what[r] # q.what
        BY <3>3, <4>1 DEF Request, n
      <4>3. Heard(r, b)
        BY <2>2, <4>2, AnswerQuiet
      <4>4. shown[cached] \in {0, draft[r]}
        BY <2>2, <4>3 DEF StatusInv, OkInv
      <4> QED BY <1>2, <3>1, <3>3, <4>4
    <3> QED BY <3>2, <3>3
  <2> QED BY <1>4, <2>1, <2>2 DEF OkInv
<1>8. TruthInv'
  <2>1. ASSUME cached # 0, cached \notin unsure
        PROVE  \/ shown'[cached] \in {0, html}
               \/ \E r \in Renders : rp[r] = "edit" /\ shown'[cached] \in {0, draft[r]}
    <3>1. CASE n = cached
      BY <1>2, <1>5, <2>1, <3>1
    <3>2. CASE n # cached
      <4>1. shown'[cached] = shown[cached]
        BY <1>2, <1>5, <2>1, <3>2
      <4> QED BY <2>1, <4>1 DEF StatusInv, TruthInv
    <3> QED BY <3>1, <3>2
  <2> QED BY <1>4, <2>1 DEF TruthInv
<1>9. Ledger'
  <2>1. Others' = Others
    <3>1. \A m \in DOMAIN shown : shown'[m] # 0 <=> shown[m] # 0
      BY <1>1, <1>2 DEF n
    <3> QED BY <1>2, <1>4, <3>1 DEF Others
  <2>2. /\ Cardinality(Others) \in Nat /\ Cardinality(Orphans) \in Nat
        /\ Replaces \in {0, 1} /\ Arriving \in {0, 1} /\ failures \in Nat
    BY LedgerTypes
  <2>3. /\ Cardinality(Orphans') \in Nat /\ Arriving' \in {0, 1}
        /\ Cardinality(Orphans') + Arriving <= Cardinality(Orphans) + Arriving'
    BY AnswerPays DEF StatusInv
  <2>4. Cardinality(Others) + Cardinality(Orphans) + Replaces <= failures + Arriving
    BY DEF StatusInv, Ledger
  <2>5. Cardinality(Others') = Cardinality(Others) /\ failures' = failures /\ Replaces' = Replaces
    BY <1>3, <1>4, <2>1
  <2>6. Cardinality(Others') + Cardinality(Orphans') + Replaces' <= failures' + Arriving'
    BY <2>2, <2>3, <2>4, <2>5
  <2> QED BY <2>6 DEF Ledger
<1> QED BY <1>3, <1>7, <1>8, <1>9 DEF StatusInv

LEMMA StatusProcessed ==
    ASSUME BaseInv, AskInv, StatusInv, TdProcesses
    PROVE  StatusInv'
<1>1. /\ GatewayInv /\ ChatTypes /\ TokenInv /\ PhaseInv /\ LoginTypes
      /\ strand \in Seq(Jobs) /\ Len(shown) \in Nat
  BY DEF BaseInv, SideTypes, GatewayInv, CallTypes, ChatTypes
<1>2. ASSUME NEW q \in asked, NEW outcome \in {"ok", "error"}, NEW m \in Nat,
             ReceiveAnswer(q, outcome, m)
      PROVE  LET a == Answer(q.id, q.who, outcome, m)
             IN  a \in Answers /\ Answering(q, a) /\ a.is = outcome /\ a.msg = m
  <2>1. PICK a \in Answers : a = Answer(q.id, q.who, outcome, m)
    BY <1>1 DEF GatewayInv, CallTypes, Answer, Answers, Outcomes
  <2>2. Push(<<"answer", a>>) /\ <<"answer", a>> \in Jobs
    BY <1>2, <2>1 DEF ReceiveAnswer, Post, Push, Jobs
  <2>3. Incoming' = Incoming \union {a}
    BY <1>1, <2>2, IncomingPush
  <2>4. a.re = q.id /\ a.is = outcome /\ a.msg = m
    BY <2>1 DEF Answer
  <2>5. Answering(q, a)
    BY <1>2, <2>3, <2>4 DEF TdProcesses, ReceiveAnswer, Answering, chatVars, renderVars, doubtVars,
                            callVars
  <2> QED BY <2>1, <2>4, <2>5
<1>3. ASSUME NEW q \in asked, ReceiveAnswer(q, "error", 0), shown' = shown
      PROVE  StatusInv'
  <2>1. PICK a \in Answers : Answering(q, a) /\ a.is = "error"
    BY <1>2, <1>3
  <2> QED BY <1>1, <1>3, <2>1, StatusAnswered
<1>4. ASSUME NEW q \in asked, ReceiveAnswer(q, "ok", 0), shown' = shown,
             q.what.op \notin {"send", "edit"}
      PROVE  StatusInv'
  <2>1. PICK a \in Answers : Answering(q, a)
    BY <1>2, <1>4
  <2> QED BY <1>1, <1>4, <2>1, StatusAnswered
<1>5. ASSUME NEW q \in asked, q.what.op = "send", shown' = Append(shown, q.what.html),
             ReceiveAnswer(q, "ok", Len(shown'))
      PROVE  StatusInv'
  <2>1. Len(shown') = Len(shown) + 1 /\ Len(shown) + 1 \in Nat
    BY <1>1, <1>5 DEF ChatTypes
  <2>2. PICK a \in Answers : Answering(q, a) /\ a.msg = Len(shown) + 1
    BY <1>2, <1>5, <2>1
  <2> QED BY <1>1, <1>5, <2>2, StatusNew
<1>6. ASSUME NEW q \in asked, q.what.op = "edit", shown[q.what.msg] # 0,
             shown' = [shown EXCEPT ![q.what.msg] = q.what.html], ReceiveAnswer(q, "ok", 0)
      PROVE  StatusInv'
  <2>1. PICK a \in Answers : Answering(q, a)
    BY <1>2, <1>6
  <2> QED BY <1>1, <1>6, <2>1, StatusEdited
<1>7. tdAuth \notin {"send", "edit"}
  BY <1>1 DEF LoginTypes, AuthTypes, AuthStates
<1> QED BY <1>3, <1>4, <1>5, <1>6, <1>7 DEF TdProcesses

Awaiting == {"send", "edit"}

\* A render waits for the token, takes it or passes it on.
LEMMA StatusRests ==
    ASSUME AskInv, StatusInv,
           UNCHANGED <<draft, cached, html, shown, failures, unsure, strand, callVars, asked>>,
           \A u \in Renders : rp'[u] = rp[u] \/ {rp[u], rp'[u]} \intersect Awaiting = {}
    PROVE  StatusInv'
<1>1. UNCHANGED <<draft, cached, html, shown, failures, unsure, strand, asked, pc, what, id, slot>>
  BY DEF callVars
<1>2. \A u \in Renders : (rp'[u] = "send" <=> rp[u] = "send") /\ (rp'[u] = "edit" <=> rp[u] = "edit")
  BY DEF Awaiting
<1>3. Incoming' = Incoming
  BY <1>1 DEF Incoming, OnStrand
<1>4. DraftInv'
  BY <1>1, <1>2 DEF StatusInv, DraftInv
<1>5. EditInv'
  <2>1. ASSUME NEW q \in asked, q.who \in Renders PROVE Current(q)' <=> Current(q)
    BY <1>1, <1>2, <2>1 DEF Current
  <2> QED BY <1>1, <2>1 DEF StatusInv, EditInv, AskInv
<1>6. OkInv'
  <2>1. \A r \in Renders, a \in Answers : Heard(r, a)' <=> Heard(r, a)
    BY <1>1, <1>3 DEF Heard
  <2> QED BY <1>1, <1>2, <2>1 DEF StatusInv, OkInv
<1>7. TruthInv'
  BY <1>1, <1>2 DEF StatusInv, TruthInv
<1>8. Ledger'
  <2>1. Others' = Others
    BY <1>1 DEF Others
  <2>2. Orphans' = Orphans
    BY <1>1 DEF Orphans
  <2>3. Replaces' = Replaces
    BY <1>1, <1>2 DEF Replaces
  <2>4. \A u \in Renders : Processed(u)' <=> Processed(u)
    BY <1>1, <1>2 DEF Processed
  <2>5. Arriving' = Arriving
    BY <2>4 DEF Arriving
  <2> QED BY <1>1, <2>1, <2>2, <2>3, <2>5 DEF StatusInv, Ledger
<1> QED BY <1>4, <1>5, <1>6, <1>7, <1>8 DEF StatusInv

\* After a step of r that leaves nobody awaiting Telegram.
LEMMA StatusFinished ==
    ASSUME StatusInv, ChatTypes', AskInv', UNCHANGED <<asked, shown, unsure>>,
           \A u \in Renders : rp'[u] \notin Awaiting,
           \A q \in asked : q.what.op = "edit" => q.what.msg \in unsure,
           cached' # 0 => cached' \in DOMAIN shown,
           cached' # 0 /\ cached' \notin unsure => shown[cached'] \in {0, html'},
           Cardinality(Others') + Cardinality(Orphans') <= failures'
    PROVE  StatusInv'
<1>1. \A u \in Renders : rp'[u] # "send" /\ rp'[u] # "edit"
  BY DEF Awaiting
<1>2. DraftInv'
  BY <1>1 DEF StatusInv, DraftInv
<1>3. EditInv'
  BY DEF StatusInv, EditInv
<1>4. OkInv'
  BY <1>1 DEF OkInv
<1>5. TruthInv'
  BY DEF TruthInv
<1>6. Ledger'
  <2>1. Replaces' = 0
    BY <1>1 DEF Replaces
  <2>2. Arriving' = 0
    BY <1>1 DEF Arriving, Processed
  <2>3. Cardinality(Others') \in Nat /\ Cardinality(Orphans') \in Nat /\ failures' \in Nat
    BY LedgerTypesNext
  <2>4. Cardinality(Others') + Cardinality(Orphans') + Replaces' <= failures' + Arriving'
    BY <2>1, <2>2, <2>3
  <2> QED BY <2>4 DEF Ledger
<1> QED BY <1>2, <1>3, <1>4, <1>5, <1>6 DEF StatusInv

\* After a step of r that begins a request, which nobody else awaits.
LEMMA StatusBegins ==
    ASSUME StatusInv, ChatTypes', AskInv', IdInv', DraftInv', UNCHANGED <<asked, shown, cached>>,
           NEW r \in Renders, pc'[r] = "hop",
           \A u \in Renders : u # r => rp'[u] \notin Awaiting,
           \A q \in asked : q.what.op = "edit" => q.what.msg \in unsure',
           cached # 0 /\ cached \notin unsure' => shown[cached] \in {0, html'},
           Cardinality(Others') + Cardinality(Orphans') + Replaces' <= failures'
    PROVE  StatusInv'
<1>1. \A u \in Renders : u # r => rp'[u] # "send" /\ rp'[u] # "edit"
  BY DEF Awaiting
<1>2. id'[r] = 0 /\ slot'[r].is = "none" /\ \A a \in Incoming' : a.re # 0
  <2>1. r \in Callers /\ NoAnswer.is = "none"
    BY BotAssumption DEF NoAnswer
  <2> QED BY <2>1 DEF AskInv, IdInv
<1>3. EditInv'
  BY DEF StatusInv, EditInv
<1>4. OkInv'
  <2>1. \A a \in Answers : Heard(r, a)' => a.is # "ok"
    BY <1>2 DEF Heard
  <2> QED BY <1>1, <2>1 DEF OkInv
<1>5. TruthInv'
  BY DEF TruthInv
<1>6. Ledger'
  <2>1. \A u \in Renders : ~Processed(u)'
    BY <1>1 DEF Processed
  <2>2. Arriving' = 0
    BY <2>1 DEF Arriving
  <2>3. Cardinality(Others') \in Nat /\ Cardinality(Orphans') \in Nat /\ failures' \in Nat
        /\ Replaces' \in {0, 1}
    BY LedgerTypesNext
  <2>4. Cardinality(Others') + Cardinality(Orphans') + Replaces' <= failures' + Arriving'
    BY <2>2, <2>3
  <2> QED BY <2>4 DEF Ledger
<1> QED BY <1>3, <1>4, <1>5, <1>6 DEF StatusInv

\* The state while nobody awaits Telegram.
LEMMA StatusResting ==
    ASSUME ChatTypes, AskInv, StatusInv, \A u \in Renders : rp[u] \notin Awaiting
    PROVE  /\ \A q \in asked : q.what.op = "edit" => q.what.msg \in unsure
           /\ cached # 0 /\ cached \notin unsure => shown[cached] \in {0, html}
           /\ Cardinality(Others) + Cardinality(Orphans) <= failures
<1>1. \A u \in Renders : rp[u] # "send" /\ rp[u] # "edit"
  BY DEF Awaiting
<1>2. \A q \in asked : q.what.op = "edit" => q.what.msg \in unsure
  BY <1>1 DEF StatusInv, EditInv, AskInv, Current
<1>3. cached # 0 /\ cached \notin unsure => shown[cached] \in {0, html}
  BY <1>1 DEF StatusInv, TruthInv
<1>4. Replaces = 0 /\ Arriving = 0
  BY <1>1 DEF Replaces, Arriving, Processed
<1>5. Cardinality(Others) \in Nat /\ Cardinality(Orphans) \in Nat /\ failures \in Nat
  BY LedgerTypes
<1> QED BY <1>2, <1>3, <1>4, <1>5 DEF StatusInv, Ledger

\* A render with the token shows something.
LEMMA StatusShows ==
    ASSUME BaseInv, AskInv, StatusInv, ChatTypes', AskInv', IdInv', NEW r \in Renders, Show(r),
           UNCHANGED <<cached, html, shown, asked, doubtVars>>,
           \A u \in Renders : rp[u] \notin Awaiting
    PROVE  StatusInv'
<1>1. /\ Renders \subseteq Callers /\ ChatTypes
      /\ pc \in [Callers -> CallPlaces] /\ what \in [Callers -> Requests]
      /\ rp \in [Renders -> RenderPlaces] /\ draft \in [Renders -> Texts \union {0}]
  BY BotAssumption DEF BaseInv, GatewayInv, CallTypes, SideTypes, ChatTypes
<1>2. PICK text \in Texts, place \in Awaiting :
         /\ draft' = [draft EXCEPT ![r] = text] /\ rp' = [rp EXCEPT ![r] = place]
         /\ \/ /\ cached = 0 /\ place = "send"
               /\ what' = [what EXCEPT ![r] = Request("send", text, 0)]
            \/ /\ cached # 0 /\ place = "edit"
               /\ what' = [what EXCEPT ![r] = Request("edit", text, cached)]
  BY DEF Show, Call, At, Awaiting
<1>3. /\ pc' = [pc EXCEPT ![r] = "hop"] /\ id' = id
      /\ UNCHANGED <<cached, html, shown, asked, failures, unsure>>
  BY DEF Show, Call, Go, doubtVars
<1>4. pc'[r] = "hop" /\ rp'[r] = place /\ draft'[r] = text /\ r \in Callers
  BY <1>1, <1>2, <1>3
<1>5. \A u \in Renders : u # r => rp'[u] \notin Awaiting
  BY <1>1, <1>2
<1>6. /\ place = "send" => what'[r] = Request("send", text, 0) /\ cached = 0
      /\ place = "edit" => what'[r] = Request("edit", text, cached) /\ cached # 0
  BY <1>1, <1>2, <1>4 DEF Awaiting
<1>7. DraftInv'
  <2>1. \A u \in Renders : u # r => rp'[u] # "send" /\ rp'[u] # "edit"
    BY <1>5 DEF Awaiting
  <2>2. /\ cached # 0 => cached \in DOMAIN shown
        /\ unsure \subseteq DOMAIN shown
    BY DEF StatusInv, DraftInv
  <2>3. /\ rp'[r] \in {"send", "edit"} => draft'[r] \in Texts
        /\ rp'[r] = "send" => what'[r] = Request("send", draft'[r], 0)
        /\ rp'[r] = "edit" => cached # 0 /\ what'[r] = Request("edit", draft'[r], cached)
    BY <1>4, <1>6
  <2> QED BY <1>3, <2>1, <2>2, <2>3 DEF DraftInv
<1>8. /\ \A q \in asked : q.what.op = "edit" => q.what.msg \in unsure
      /\ cached # 0 /\ cached \notin unsure => shown[cached] \in {0, html}
      /\ Cardinality(Others) + Cardinality(Orphans) <= failures
  BY <1>1, StatusResting
<1>9. Cardinality(Others') + Cardinality(Orphans') + Replaces' <= failures'
  <2>1. Others' = Others /\ Orphans' = Orphans
    BY <1>3 DEF Others, Orphans
  <2>2. Replaces' = 0
    <3>1. ASSUME NEW u \in Renders, rp'[u] = "send" PROVE cached = 0
      BY <1>4, <1>5, <1>6, <3>1 DEF Awaiting
    <3> QED BY <1>3, <3>1 DEF Replaces
  <2>3. Cardinality(Others) \in Nat /\ Cardinality(Orphans) \in Nat /\ failures \in Nat
    BY <1>1, LedgerTypes
  <2> QED BY <1>3, <1>8, <2>1, <2>2, <2>3
<1> QED BY <1>3, <1>4, <1>5, <1>7, <1>8, <1>9, StatusBegins

\* The reply to the edit of r: it was carried out, or it may have been.
LEMMA StatusEditOver ==
    ASSUME BaseInv, AskInv, StatusInv, ChatTypes', AskInv', IdInv', NEW r \in Renders, Edited(r),
           UNCHANGED <<shown, asked>>
    PROVE  StatusInv'
<1>1. /\ Renders \subseteq Callers /\ r \in Callers /\ ChatTypes /\ TokenInv
      /\ pc \in [Callers -> CallPlaces] /\ what \in [Callers -> Requests] /\ id \in [Callers -> Nat]
      /\ rp \in [Renders -> RenderPlaces]
      /\ slot \in [Callers -> Answers \union {NoAnswer}]
      /\ \A q \in asked : q.id # 0
  BY BotAssumption DEF BaseInv, GatewayInv, CallTypes, SideTypes, ChatTypes, IdInv
<1>2. rp[r] = "edit" /\ \A u \in Renders : u # r => rp[u] \notin Awaiting
  BY <1>1 DEF Edited, TokenInv, Holding, Awaiting
<1>3. cached # 0 /\ cached \in DOMAIN shown /\ what[r].op = "edit" /\ draft[r] \in Texts
  BY <1>2, DraftFacts DEF StatusInv, DraftInv
<1>4. \A q \in asked : q.what.op = "edit" =>
         q.what.msg \in unsure \/ (q.who = r /\ q.what.msg = cached /\ slot[r].is # "ok")
  <2>1. ASSUME NEW q \in asked, q.what.op = "edit", Current(q)
        PROVE  q.who = r /\ q.what.msg = cached /\ slot[r].is # "ok"
    <3>1. q.who \in Renders /\ rp[q.who] = "edit" /\ q.what.msg = cached
          /\ (q.id = id[q.who] \/ slot[q.who].is \notin {"none", "ok"})
      BY <2>1 DEF AskInv, Current
    <3>2. q.who = r
      BY <1>2, <3>1 DEF Awaiting
    <3> QED BY <1>1, <3>1, <3>2 DEF AskInv
  <2> QED BY <2>1 DEF StatusInv, EditInv
<1>5. Arriving = 0 /\ Replaces = 0
  <2>1. \A u \in Renders : rp[u] # "send"
    BY <1>2 DEF Awaiting
  <2> QED BY <2>1 DEF Arriving, Replaces, Processed
<1>6. Cardinality(Others) \in Nat /\ Cardinality(Orphans) \in Nat /\ failures \in Nat
  BY <1>1, LedgerTypes
<1>7. Cardinality(Others) + Cardinality(Orphans) <= failures
  BY <1>5, <1>6 DEF StatusInv, Ledger
<1>8. \A d \in Callers : id'[d] = IF d = r THEN 0 ELSE id[d]
  BY <1>1 DEF Edited, Returned, CallAgain
<1>9. Orphans' = Orphans
  <2>1. ASSUME NEW q \in asked, q.what.op = "send" PROVE q.id # id'[q.who] <=> q.id # id[q.who]
    <3>1. q.who \in Callers
      BY <1>1, <2>1 DEF AskInv
    <3>2. q.who = r => q.id # id[r]
      BY <1>1, <1>3, <2>1 DEF AskInv
    <3> QED BY <1>1, <1>8, <3>1, <3>2
  <2> QED BY <2>1 DEF Orphans
<1>10. CASE slot[r].is = "ok"
  <2>1. /\ html' = draft[r] /\ Release(r) /\ UNCHANGED <<cached, failures, unsure>>
    BY <1>10 DEF Edited, doubtVars
  <2>2. \A u \in Renders : rp'[u] \notin Awaiting
    <3>1. rp[r] \in Holding
      BY <1>2 DEF Holding
    <3>2. ASSUME NEW u \in Renders
          PROVE  \/ u # r /\ rp'[u] = rp[u]
                 \/ u = r /\ rp'[u] = "idle"
                 \/ u # r /\ rp[u] = "acquire" /\ rp'[u] = "granted"
      BY <1>1, <2>1, <3>1, ReleaseToken
    <3>3. "idle" \notin Awaiting /\ "granted" \notin Awaiting
      BY DEF Awaiting
    <3> QED BY <1>2, <3>2, <3>3
  <2>3. cached \notin unsure => shown[cached] \in {0, html'}
    <3>1. slot[r] \in Answers
      BY <1>1, <1>10 DEF NoAnswer
    <3>2. Heard(r, slot[r])
      BY DEF Heard
    <3> QED BY <1>2, <1>10, <2>1, <3>1, <3>2 DEF StatusInv, OkInv
  <2>4. Others' = Others
    BY <2>1 DEF Others
  <2>5. Cardinality(Others') + Cardinality(Orphans') <= failures'
    BY <1>7, <1>9, <2>1, <2>4
  <2>6. \A q \in asked : q.what.op = "edit" => q.what.msg \in unsure
    BY <1>4, <1>10
  <2> QED BY <1>3, <2>1, <2>2, <2>3, <2>5, <2>6, StatusFinished
<1>11. CASE slot[r].is # "ok"
  <2>1. /\ failures' = failures + 1 /\ unsure' = unsure \union {cached}
        /\ CallAgain(r, Request("send", draft[r], 0)) /\ At(r, "send")
        /\ UNCHANGED <<cached, html, draft>>
    BY <1>11 DEF Edited, chatVars
  <2>2. /\ pc'[r] = "hop" /\ rp'[r] = "send" /\ what'[r] = Request("send", draft[r], 0)
        /\ \A u \in Renders : u # r => rp'[u] = rp[u]
    BY <1>1, <2>1 DEF CallAgain, Go, At
  <2>3. \A u \in Renders : u # r => rp'[u] \notin Awaiting
    BY <1>2, <2>2
  <2>4. DraftInv'
    <3>1. \A u \in Renders : u # r => rp'[u] # "send" /\ rp'[u] # "edit"
      BY <2>3 DEF Awaiting
    <3>2. unsure \subseteq DOMAIN shown
      BY DEF StatusInv, DraftInv
    <3> QED BY <1>3, <2>1, <2>2, <3>1, <3>2 DEF DraftInv
  <2>5. \A q \in asked : q.what.op = "edit" => q.what.msg \in unsure'
    BY <1>4, <2>1
  <2>6. Others' = Others
    BY <2>1 DEF Others
  <2>7. Replaces' \in {0, 1}
    BY DEF Replaces
  <2>8. Cardinality(Others') + Cardinality(Orphans') + Replaces' <= failures'
    BY <1>6, <1>7, <1>9, <2>1, <2>6, <2>7
  <2> QED BY <2>1, <2>2, <2>3, <2>4, <2>5, <2>8, StatusBegins
<1> QED BY <1>10, <1>11

\* The reply to the send of r: its message is the new one, or is paid for by the failure.
LEMMA StatusSendOver ==
    ASSUME BaseInv, AskInv, StatusInv, ChatTypes', AskInv', NEW r \in Renders, Sent(r),
           UNCHANGED <<shown, asked>>
    PROVE  StatusInv'
<1>1. /\ Renders \subseteq Callers /\ r \in Callers /\ ChatTypes /\ TokenInv
      /\ id \in [Callers -> Nat] /\ rp \in [Renders -> RenderPlaces]
      /\ slot \in [Callers -> Answers \union {NoAnswer}]
      /\ \A q \in asked : q.id # 0
  BY BotAssumption DEF BaseInv, GatewayInv, CallTypes, SideTypes, ChatTypes, IdInv
<1>2. rp[r] = "send" /\ pc[r] = "woken" /\ \A u \in Renders : u # r => rp[u] \notin Awaiting
  BY <1>1 DEF Sent, TokenInv, Holding, Awaiting
<1>3. \A u \in Renders : rp[u] # "edit"
  BY <1>2 DEF Awaiting
<1>4. \A q \in asked : q.what.op = "edit" => q.what.msg \in unsure
  BY <1>3 DEF StatusInv, EditInv, AskInv, Current
<1>5. \A u \in Renders : rp'[u] \notin Awaiting
  <2>1. rp[r] \in Holding /\ Release(r)
    BY <1>2 DEF Holding, Sent
  <2>2. ASSUME NEW u \in Renders
        PROVE  \/ u # r /\ rp'[u] = rp[u]
               \/ u = r /\ rp'[u] = "idle"
               \/ u # r /\ rp[u] = "acquire" /\ rp'[u] = "granted"
    BY <1>1, <2>1, ReleaseToken
  <2>3. "idle" \notin Awaiting /\ "granted" \notin Awaiting
    BY DEF Awaiting
  <2> QED BY <1>2, <2>2, <2>3
<1>6. /\ Cardinality(Others) \in Nat /\ Cardinality(Orphans) \in Nat /\ failures \in Nat
      /\ IsFiniteSet(Others) /\ IsFiniteSet(Orphans) /\ Arriving \in {0, 1} /\ Replaces \in {0, 1}
  BY <1>1, LedgerTypes
<1>7. Cardinality(Others) + Cardinality(Orphans) + Replaces <= failures + Arriving
  BY DEF StatusInv, Ledger
<1>8. /\ unsure' = unsure /\ \A d \in Callers : id'[d] = IF d = r THEN 0 ELSE id[d]
  BY <1>1 DEF Sent, Returned
<1>9. /\ \A q \in asked : q.what.op = "send" => q.who \in Callers
      /\ \A q \in asked : q.id = id[r] => q.who = r /\ slot[r].is # "ok"
      /\ \A q, z \in asked : q.id = z.id => q = z
  BY <1>1 DEF AskInv
<1>10. draft[r] # 0 /\ (cached # 0 => cached \in DOMAIN shown)
  BY <1>2, BotAssumption DEF StatusInv, DraftInv
<1>11. CASE slot[r].is = "ok"
  <2>1. PICK m : m = slot[r].msg
    OBVIOUS
  <2>2. cached' = m /\ html' = draft[r] /\ failures' = failures
    BY <1>11, <2>1 DEF Sent
  <2>3. m \in DOMAIN shown /\ m # cached /\ m \notin unsure /\ shown[m] = draft[r]
    <3>1. slot[r] \in Answers
      BY <1>1, <1>11 DEF NoAnswer
    <3>2. Heard(r, slot[r])
      BY DEF Heard
    <3> QED BY <1>2, <1>11, <2>1, <3>1, <3>2 DEF StatusInv, OkInv
  <2>4. Orphans' = Orphans
    <3>1. ASSUME NEW q \in asked, q.what.op = "send" PROVE q.id # id'[q.who] <=> q.id # id[q.who]
      BY <1>1, <1>8, <1>9, <1>11, <3>1
    <3> QED BY <3>1 DEF Orphans
  <2>5. Cardinality(Others') + 1 <= Cardinality(Others) + Replaces
    <3>1. m \in Others
      BY <1>10, <2>3 DEF Others
    <3>2. Cardinality(Others \ {m}) = Cardinality(Others) - 1 /\ IsFiniteSet(Others \ {m})
          /\ Cardinality(Others \ {m}) \in Nat
      BY <1>6, <3>1, FS_RemoveElement, FS_CardinalityType
    <3>3. CASE cached = 0
      <4>1. 0 \notin DOMAIN shown
        BY <1>1 DEF ChatTypes
      <4>2. Others' = Others \ {m}
        BY <2>2, <3>3, <4>1 DEF Others
      <4>3. Cardinality(Others') = Cardinality(Others \ {m})
        BY <4>2
      <4> QED BY <1>6, <3>2, <4>3
    <3>4. CASE cached # 0
      <4>1. Replaces = 1
        BY <1>2, <3>4 DEF Replaces
      <4>2. Others' \subseteq (Others \ {m}) \union {cached}
        BY <2>2 DEF Others
      <4>3. Cardinality((Others \ {m}) \union {cached}) <= Cardinality(Others \ {m}) + 1
            /\ Cardinality((Others \ {m}) \union {cached}) \in Nat
        BY <3>2, CardinalityAdd
      <4>4. IsFiniteSet((Others \ {m}) \union {cached})
        BY <3>2, FS_AddElement
      <4>5. Cardinality(Others') <= Cardinality((Others \ {m}) \union {cached})
        BY <4>2, <4>4, FS_Subset
      <4>6. Cardinality(Others') \in Nat
        BY LedgerTypesNext
      <4> QED BY <1>6, <3>2, <4>1, <4>3, <4>5, <4>6
    <3> QED BY <3>3, <3>4
  <2>6. Cardinality(Others') \in Nat
    BY LedgerTypesNext
  <2>7. Cardinality(Others') + Cardinality(Orphans') <= failures'
    BY <1>6, <1>7, <2>2, <2>4, <2>5, <2>6
  <2>8. cached' # 0 => cached' \in DOMAIN shown
    BY <2>2, <2>3
  <2>9. cached' # 0 /\ cached' \notin unsure => shown[cached'] \in {0, html'}
    BY <2>2, <2>3
  <2> QED BY <1>4, <1>5, <1>8, <2>7, <2>8, <2>9, StatusFinished
<1>12. CASE slot[r].is # "ok"
  <2>1. failures' = failures + 1 /\ UNCHANGED <<cached, html>>
    BY <1>12 DEF Sent
  <2>2. cached # 0 /\ cached \notin unsure => shown[cached] \in {0, html}
    BY <1>3 DEF StatusInv, TruthInv
  <2>3. Others' = Others
    BY <2>1 DEF Others
  <2>4. Cardinality(Orphans') + Arriving <= Cardinality(Orphans) + 1
    <3>1. CASE \E q \in asked : q.id = id[r] /\ q.what.op = "send"
      <4>1. PICK q \in asked : q.id = id[r] /\ q.what.op = "send"
        BY <3>1
      <4>2. \A z \in asked : z.what.op = "send" =>
               (z.id # id'[z.who] <=> (z.id # id[z.who] \/ z = q))
        BY <1>1, <1>8, <1>9, <4>1
      <4>3. Orphans' = Orphans \union {q}
        BY <4>1, <4>2 DEF Orphans
      <4>4. Arriving = 0
        <5>1. \A u \in Renders : u # r => rp[u] # "send"
          BY <1>2 DEF Awaiting
        <5>2. \A u \in Renders : ~Processed(u)
          BY <4>1, <5>1 DEF Processed
        <5> QED BY <5>2 DEF Arriving
      <4>5. /\ Cardinality(Orphans \union {q}) \in Nat
            /\ Cardinality(Orphans \union {q}) <= Cardinality(Orphans) + 1
        BY <1>6, CardinalityAdd
      <4>6. Cardinality(Orphans') = Cardinality(Orphans \union {q})
        BY <4>3
      <4> QED BY <1>6, <4>4, <4>5, <4>6
    <3>2. CASE ~\E q \in asked : q.id = id[r] /\ q.what.op = "send"
      <4>1. ASSUME NEW z \in asked, z.what.op = "send" PROVE z.id # id'[z.who] <=> z.id # id[z.who]
        BY <1>1, <1>8, <1>9, <3>2, <4>1
      <4>2. Orphans' = Orphans
        BY <4>1 DEF Orphans
      <4>3. Cardinality(Orphans') = Cardinality(Orphans)
        BY <4>2
      <4> QED BY <1>6, <4>3
    <3> QED BY <3>1, <3>2
  <2>5. Cardinality(Orphans') \in Nat /\ Cardinality(Others') = Cardinality(Others)
    BY <2>3, LedgerTypesNext
  <2>6. Cardinality(Others') + Cardinality(Orphans') <= failures'
    BY <1>6, <1>7, <2>1, <2>4, <2>5
  <2> QED BY <1>4, <1>5, <1>8, <1>10, <2>1, <2>2, <2>6, StatusFinished
<1> QED BY <1>11, <1>12

LEMMA StatusRendered ==
    ASSUME BaseInv, AskInv, StatusInv, BaseInv', AskInv', NEW r \in Renders, StatusStep(r)
    PROVE  StatusInv'
<1>1. /\ ChatTypes /\ TokenInv /\ rp \in [Renders -> RenderPlaces]
      /\ ChatTypes' /\ IdInv'
  BY DEF BaseInv, SideTypes, GatewayInv, ChatTypes
<1>2. RenderStep(r) /\ UNCHANGED <<asked, shown>>
  BY DEF StatusStep, RenderStep
<1>3. CASE RenderSkips(r) /\ UNCHANGED doubtVars
  BY <1>2, <1>3, StatusRests DEF RenderSkips, chatVars, doubtVars
<1>4. CASE RefreshAcquires(r) /\ UNCHANGED doubtVars
  <2>1. PICK place \in {"acquire", "granted"} : rp' = [rp EXCEPT ![r] = place]
    BY <1>4 DEF RefreshAcquires, At
  <2>2. rp[r] = "idle"
    BY <1>4 DEF RefreshAcquires, Begins
  <2>3. \A u \in Renders : rp'[u] = rp[u] \/ {rp[u], rp'[u]} \intersect Awaiting = {}
    BY <1>1, <2>1, <2>2 DEF Awaiting
  <2> QED BY <1>2, <1>4, <2>3, StatusRests DEF RefreshAcquires, doubtVars
<1>5. CASE RenderShows(r) /\ UNCHANGED doubtVars
  <2>1. \A u \in Renders : rp[u] \notin Awaiting
    BY <1>1, <1>5 DEF RenderShows, TokenInv, Holding, Awaiting
  <2> QED BY <1>1, <1>2, <1>5, <2>1, StatusShows DEF RenderShows
<1>6. CASE RefreshShows(r) /\ UNCHANGED doubtVars
  <2>1. rp[r] = "granted" /\ rp[r] \in Holding
    BY <1>6 DEF RefreshShows, Holding
  <2>2. \A u \in Renders : rp[u] \notin Awaiting
    BY <1>1, <2>1 DEF TokenInv, Holding, Awaiting
  <2>3. CASE Release(r) /\ UNCHANGED <<draft, cached, html, strand, callVars>>
    <3>1. ASSUME NEW u \in Renders
          PROVE  \/ u # r /\ rp'[u] = rp[u]
                 \/ u = r /\ rp'[u] = "idle"
                 \/ u # r /\ rp[u] = "acquire" /\ rp'[u] = "granted"
      BY <1>1, <2>1, <2>3, ReleaseToken
    <3>2. \A u \in Renders : rp'[u] = rp[u] \/ {rp[u], rp'[u]} \intersect Awaiting = {}
      BY <2>1, <3>1 DEF Awaiting
    <3> QED BY <1>2, <1>6, <2>3, <3>2, StatusRests DEF doubtVars
  <2>4. CASE Show(r) /\ UNCHANGED chatVars
    BY <1>1, <1>2, <1>6, <2>2, <2>4, StatusShows DEF chatVars
  <2> QED BY <1>6, <2>3, <2>4 DEF RefreshShows
<1>7. CASE Edited(r)
  BY <1>1, <1>2, <1>7, StatusEditOver
<1>8. CASE Sent(r)
  BY <1>1, <1>2, <1>8, StatusSendOver
<1> QED BY <1>2, <1>3, <1>4, <1>5, <1>6, <1>7, <1>8 DEF RenderStep

LEMMA StatusInit ==
    ASSUME Init
    PROVE  AskInv /\ StatusInv
<1>1. /\ asked = {} /\ strand = <<>> /\ cached = 0 /\ shown = <<>> /\ failures = 0 /\ unsure = {}
      /\ what = [c \in Callers |-> NoRequest]
      /\ id = [c \in Callers |-> 0]
      /\ slot = [c \in Callers |-> NoAnswer]
      /\ rp = [r \in Renders |-> "idle"]
  BY DEF Init
<1>2. NoRequest.op = "none" /\ NoAnswer.is = "none"
  BY DEF NoRequest, Request, NoAnswer
<1>3. AskInv
  <2>1. IsFiniteSet(asked)
    BY <1>1, FS_EmptySet
  <2> QED BY <1>1, <1>2, <2>1 DEF AskInv
<1>4. \A r \in Renders : rp[r] # "send" /\ rp[r] # "edit"
  BY <1>1
<1>5. DraftInv /\ EditInv /\ OkInv /\ TruthInv
  BY <1>1, <1>4 DEF DraftInv, EditInv, OkInv, TruthInv
<1>6. Ledger
  <2>1. Others = {} /\ Orphans = {} /\ Replaces = 0
    BY <1>1 DEF Others, Orphans, Replaces
  <2>2. Arriving = 0
    BY <1>4 DEF Arriving, Processed
  <2>3. Cardinality(Others) = 0 /\ Cardinality(Orphans) = 0
    BY <2>1, FS_EmptySet
  <2> QED BY <1>1, <2>1, <2>2, <2>3 DEF Ledger
<1> QED BY <1>3, <1>5, <1>6 DEF StatusInv

LEMMA StatusNext ==
    ASSUME BaseInv, AskInv, StatusInv, [Next]_vars
    PROVE  AskInv' /\ StatusInv'
<1>1. BaseInv' /\ GatewayInv /\ SideTypes /\ ChatTypes
  BY BaseNext DEF BaseInv, SideTypes
<1>2. AskInv'
  BY <1>1, CallerKinds, AskKept DEF BaseInv
<1>3. ASSUME NEW r \in Renders, StatusStep(r) PROVE StatusInv'
  BY <1>1, <1>2, <1>3, StatusRendered
<1>4. CASE TdProcesses
  BY <1>2, <1>4, StatusProcessed
<1>5. CASE UserDeletes
  BY <1>1, <1>2, <1>5, StatusDeleted
<1>6. CASE (~\E r \in Renders : StatusStep(r)) /\ ~TdProcesses /\ ~UserDeletes
  BY <1>2, <1>6, StatusOther
<1> QED BY <1>2, <1>3, <1>4, <1>5, <1>6

LEMMA StatusIsTrue ==
    ASSUME BaseInv, AskInv, StatusInv
    PROVE  StatusMessage
<1>1. ChatTypes /\ TokenInv
  BY DEF BaseInv, SideTypes
<1>2. /\ Cardinality(Others) \in Nat /\ Cardinality(Orphans) \in Nat /\ failures \in Nat
      /\ Replaces \in {0, 1} /\ Arriving \in {0, 1}
  BY <1>1, LedgerTypes
<1>3. token => \A r \in Renders : rp[r] \notin Awaiting
  BY <1>1 DEF TokenInv, Holding, Awaiting
<1>4. CASE token
  <2>1. /\ cached # 0 /\ cached \notin unsure => shown[cached] \in {0, html}
        /\ Cardinality(Others) + Cardinality(Orphans) <= failures
    BY <1>1, <1>3, <1>4, StatusResting
  <2>2. Cardinality(Others) <= failures + 0
    BY <1>2, <2>1
  <2> QED BY <1>4, <2>1, <2>2 DEF StatusMessage, OneStatusMessage, CacheTruth, Others
<1>5. CASE ~token
  <2>1. Cardinality(Others) <= failures + 1
    BY <1>2 DEF StatusInv, Ledger
  <2> QED BY <1>5, <2>1 DEF StatusMessage, OneStatusMessage, CacheTruth, Others
<1> QED BY <1>4, <1>5

\* However the renders of a chat overlap, and whatever becomes of their requests,
\* the chat has one status message: any other one is the work of a request that
\* was reported as failed, and between renders the cached text is what is shown.
THEOREM StatusMessageTrue == Spec => []StatusMessage
<1>1. BaseInv /\ AskInv /\ StatusInv => StatusMessage
  BY StatusIsTrue
<1>2. Init => BaseInv /\ AskInv /\ StatusInv
  BY BaseInit, StatusInit
<1>3. BaseInv /\ AskInv /\ StatusInv /\ [Next]_vars => BaseInv' /\ AskInv' /\ StatusInv'
  BY BaseNext, StatusNext
<1> QED BY <1>1, <1>2, <1>3, PTL DEF Spec

LEMMA TypesHold ==
    ASSUME BaseInv, StatusInv
    PROVE  TypeOK
<1>1. CallTypes /\ LoopTypes /\ LoginTypes /\ ChatTypes /\ updates \in 0..Cardinality(Handlers)
  BY DEF BaseInv, GatewayInv, SideTypes
<1>2. GatewayTypes
  <2>1. \A q \in asked : q.id \in Nat
    BY <1>1 DEF CallTypes
  <2>2. \A c \in Callers : slot[c] = NoAnswer \/ slot[c] \in Answers
    BY <1>1 DEF CallTypes
  <2> QED BY <1>1, <2>1, <2>2 DEF CallTypes, LoopTypes, GatewayTypes, CallPlaces, Answers
<1>3. RenderTypes
  <2>1. cached \in 0..Len(shown)
    BY <1>1 DEF ChatTypes, StatusInv, DraftInv
  <2>2. \A m \in DOMAIN shown : shown[m] \in Texts \union {0}
    BY <1>1 DEF ChatTypes
  <2> QED BY <1>1, <2>1, <2>2 DEF ChatTypes, RenderTypes, RenderPlaces
<1> QED BY <1>1, <1>2, <1>3 DEF TypeOK, LoginTypes

\* The state keeps its types; in particular the cached message id is always that
\* of a message that was sent, whatever answers were late, lost or refused.
THEOREM BotTypes == Spec => []TypeOK
<1>1. BaseInv /\ AskInv /\ StatusInv => TypeOK
  BY TypesHold
<1>2. Init => BaseInv /\ AskInv /\ StatusInv
  BY BaseInit, StatusInit
<1>3. BaseInv /\ AskInv /\ StatusInv /\ [Next]_vars => BaseInv' /\ AskInv' /\ StatusInv'
  BY BaseNext, StatusNext
<1> QED BY <1>1, <1>2, <1>3, PTL DEF Spec
=============================================================================
