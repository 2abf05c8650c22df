--------------------------- MODULE Aria2RpcProofs ---------------------------
(***************************************************************************)
(* Proofs about Aria2Rpc, for any set of calls and any number of           *)
(* connections.                                                            *)
(***************************************************************************)
EXTENDS Aria2Rpc, TLAPS

-----------------------------------------------------------------------------
(***************************************************************************)
(* The inductive invariant.                                                *)
(***************************************************************************)

\* The call that pushes options on a connection starts with that connection.
OptionCalls == \A n \in 1..MaxConnects : n > epoch => cpc[n] = "idle"

\* Entries belong to calls that have registered.
Unregistered == \A c \in Rpcs : cpc[c] \in {"idle", "posted"} => c \notin pending

\* A registered call whose slot is empty has seen one connection only.
SameConnection ==
    \A c \in Rpcs :
        /\ cpc[c] = "send" /\ ~failure[c] => conn # "down"
        /\ cpc[c] \in {"writing", "waiting"} /\ response[c] = NoAnswer /\ ~failure[c]
              => conn # "down" /\ sentOn[c] = epoch

\* Ids do not repeat, and whoever has a slot or a request under way has one.
IdInv ==
    /\ \A c, d \in Rpcs : id[c] = id[d] /\ id[c] # 0 => c = d
    /\ \A c \in Rpcs : cpc[c] # "idle" => id[c] # 0
    /\ \A c \in pending \union asked \union replies : id[c] # 0

\* A slot holds the call's own response; a call is woken when its slot is full.
SlotInv ==
    \A c \in Rpcs :
        /\ response[c] \in {c, NoAnswer}
        /\ cpc[c] = "woken" => response[c] # NoAnswer \/ failure[c]
        /\ result[c] = "response" => response[c] # NoAnswer
        /\ result[c] # "abandoned"

Aria2Inv ==
    /\ TypeOK
    /\ OptionCalls
    /\ IdInv
    /\ Unregistered
    /\ PendingTable
    /\ SameConnection
    /\ SlotInv

-----------------------------------------------------------------------------
\* Waking calls keeps the type of their places.
LEMMA WokenType ==
    ASSUME NEW C, NEW pcs \in [Rpcs -> Places]
    PROVE  Woken(C, pcs) \in [Rpcs -> Places]
BY DEF Woken, Places

\* With ids that do not repeat, erasing and looking up by id is by call.
LEMMA ById ==
    ASSUME TypeOK, IdInv, NEW c \in Rpcs, id[c] # 0
    PROVE  /\ Erase(c) = pending \ {c}
           /\ Find(id[c]) = pending \intersect {c}
           /\ Emplace(c) = pending \union {c}
BY DEF TypeOK, IdInv, Erase, Find, Emplace

\* The invariant holds before anything has happened.
LEMMA InitInv == Init => Aria2Inv
<1> SUFFICES ASSUME Init PROVE Aria2Inv
  OBVIOUS
<1> USE DEF Init
<1>1. TypeOK
  <2>1. epoch \in 0..MaxConnects /\ sentOn \in [Rpcs -> 0..MaxConnects]
    BY Aria2Assumption
  <2>2. ids \in Nat /\ id \in [Rpcs -> 0..ids]
    OBVIOUS
  <2>3. QED
    BY <2>1, <2>2 DEF TypeOK, Places, Results
<1>2. OptionCalls /\ Unregistered /\ PendingTable /\ SameConnection
  BY DEF OptionCalls, Unregistered, PendingTable, SameConnection, Rpcs
<1>3. SlotInv /\ IdInv
  BY DEF SlotInv, IdInv
<1>4. QED
  BY <1>1, <1>2, <1>3 DEF Aria2Inv

\* Every step of a call preserves the invariant.
LEMMA CallInv ==
    ASSUME Aria2Inv, NEW c \in Rpcs, CallStep(c)
    PROVE  Aria2Inv'
<1> USE DEF Aria2Inv, TypeOK, Places, Results
<1>e. /\ id[c] # 0
      /\ Erase(c) = pending \ {c}
      /\ Emplace(c) = pending \union {c}
  <2>1. cpc[c] # "idle"
    BY DEF CallStep, Register, StartWrite, NoStream, WriteDone, WriteFails,
         WriteStalls, Return, Timeout
  <2>2. id[c] # 0
    BY <2>1 DEF IdInv
  <2>3. QED
    BY <2>2, ById
<1>1. CASE Register(c)
  <2>1. TypeOK'
    BY <1>1, <1>e, Aria2Assumption DEF Register, Leave, channel, names, slots, wire
  <2>2. OptionCalls'
    BY <1>1, <1>e, Aria2Assumption DEF Register, Leave, channel, names, slots, wire,
         OptionCalls, Rpcs
  <2>3. Unregistered'
    BY <1>1, <1>e, Aria2Assumption DEF Register, Leave, channel, names, slots, wire,
         Unregistered, PendingTable
  <2>4. PendingTable'
    BY <1>1, <1>e, Aria2Assumption DEF Register, Leave, channel, names, slots, wire,
         PendingTable, Unregistered
  <2>5. SameConnection'
    BY <1>1, <1>e, Aria2Assumption DEF Register, Leave, channel, names, slots, wire,
         SameConnection, PendingTable, Unregistered
  <2>6. SlotInv'
    BY <1>1, <1>e, Aria2Assumption DEF Register, Leave, channel, names, slots, wire, SlotInv
  <2>7. IdInv'
    <3>1. UNCHANGED <<ids, id>> /\ pending' \subseteq pending \union {c}
      BY <1>1, <1>e DEF Register, Leave, names, slots
    <3>2. asked' \subseteq asked \union {c} /\ replies' \subseteq replies
      BY <1>1 DEF Register, Leave, wire
    <3>3. \A d \in Rpcs : cpc'[d] # "idle" => cpc[d] # "idle" \/ d = c
      BY <1>1 DEF Register, Leave
    <3>4. QED
      BY <3>1, <3>2, <3>3, <1>e DEF IdInv
  <2>8. QED BY <2>1, <2>2, <2>3, <2>4, <2>5, <2>6, <2>7
<1>2. CASE StartWrite(c)
  <2>1. TypeOK'
    BY <1>2, <1>e, Aria2Assumption DEF StartWrite, channel, names, slots, wire
  <2>2. OptionCalls'
    BY <1>2, <1>e, Aria2Assumption DEF StartWrite, channel, names, slots, wire, OptionCalls,
         Rpcs
  <2>3. Unregistered'
    BY <1>2, <1>e, Aria2Assumption DEF StartWrite, channel, names, slots, wire, Unregistered,
         PendingTable
  <2>4. PendingTable'
    BY <1>2, <1>e, Aria2Assumption DEF StartWrite, channel, names, slots, wire, PendingTable,
         Unregistered
  <2>5. SameConnection'
    BY <1>2, <1>e, Aria2Assumption DEF StartWrite, channel, names, slots, wire,
         SameConnection, PendingTable, Unregistered
  <2>6. SlotInv'
    BY <1>2, <1>e, Aria2Assumption DEF StartWrite, channel, names, slots, wire, SlotInv
  <2>7. IdInv'
    <3>1. UNCHANGED <<ids, id>> /\ pending' \subseteq pending \union {c}
      BY <1>2, <1>e DEF StartWrite, names, slots
    <3>2. asked' \subseteq asked \union {c} /\ replies' \subseteq replies
      BY <1>2 DEF StartWrite, wire
    <3>3. \A d \in Rpcs : cpc'[d] # "idle" => cpc[d] # "idle" \/ d = c
      BY <1>2 DEF StartWrite
    <3>4. QED
      BY <3>1, <3>2, <3>3, <1>e DEF IdInv
  <2>8. QED BY <2>1, <2>2, <2>3, <2>4, <2>5, <2>6, <2>7
<1>3. CASE NoStream(c)
  <2>1. TypeOK'
    <3>1. UNCHANGED <<conn, epoch, shutdown, ids, id, response, asked, replies>>
      BY <1>3, <1>e DEF NoStream, channel, names, wire
    <3>2. PICK pcs \in [Rpcs -> Places], r \in Results : Leave(c, r, pcs)
      BY <1>3, <1>e, WokenType DEF NoStream
    <3>3. /\ cpc' \in [Rpcs -> Places]
          /\ result' \in [Rpcs -> Results]
          /\ sentOn' \in [Rpcs -> 0..MaxConnects]
      BY <3>2, Aria2Assumption DEF Leave
    <3>4. pending' \in SUBSET Rpcs /\ failure' \in [Rpcs -> BOOLEAN]
      BY <1>3, <1>e DEF NoStream, FailAllPending
    <3>5. conn' \in {"down", "up", "closing"}
      BY <1>3, <1>e DEF NoStream, CloseStream, channel
    <3>6. QED BY <3>1, <3>3, <3>4, <3>5
  <2>2. OptionCalls'
    BY <1>3, <1>e, Aria2Assumption DEF NoStream, Leave, Woken, FailAllPending,
         channel, names, slots, wire, OptionCalls, Rpcs
  <2>3. Unregistered'
    BY <1>3, <1>e, Aria2Assumption DEF NoStream, Leave, Woken, FailAllPending,
         channel, names, slots, wire, Unregistered, PendingTable
  <2>4. PendingTable'
    BY <1>3, <1>e, Aria2Assumption DEF NoStream, Leave, Woken, FailAllPending,
         channel, names, slots, wire, PendingTable, Unregistered
  <2>5. SameConnection'
    <3>1. CASE UNCHANGED failure
      BY <1>3, <1>e, <3>1, Aria2Assumption DEF NoStream, Leave, Woken,
           FailAllPending, channel, names, slots, wire, SameConnection, PendingTable,
           Unregistered
    <3>2. CASE FailAllPending
      BY <1>3, <1>e, <3>2, Aria2Assumption DEF NoStream, Leave, Woken,
           FailAllPending, channel, names, slots, wire, SameConnection, PendingTable,
           Unregistered
    <3>3. QED BY <1>3, <1>e, <3>1, <3>2 DEF NoStream
  <2>6. SlotInv'
    BY <1>3, <1>e, Aria2Assumption DEF NoStream, Leave, Woken, FailAllPending,
         channel, names, slots, wire, SlotInv
  <2>7. IdInv'
    <3>1. UNCHANGED <<ids, id>> /\ pending' \subseteq pending \union {c}
      BY <1>3, <1>e DEF NoStream, Leave, Woken, names, slots
    <3>2. asked' \subseteq asked \union {c} /\ replies' \subseteq replies
      BY <1>3 DEF NoStream, Leave, Woken, wire
    <3>3. \A d \in Rpcs : cpc'[d] # "idle" => cpc[d] # "idle" \/ d = c
      BY <1>3 DEF NoStream, Leave, Woken
    <3>4. QED
      BY <3>1, <3>2, <3>3, <1>e DEF IdInv
  <2>8. QED BY <2>1, <2>2, <2>3, <2>4, <2>5, <2>6, <2>7
<1>4. CASE WriteDone(c)
  <2>1. TypeOK'
    BY <1>4, <1>e, Aria2Assumption DEF WriteDone, channel, names, slots, wire
  <2>2. OptionCalls'
    BY <1>4, <1>e, Aria2Assumption DEF WriteDone, channel, names, slots, wire, OptionCalls,
         Rpcs
  <2>3. Unregistered'
    BY <1>4, <1>e, Aria2Assumption DEF WriteDone, channel, names, slots, wire, Unregistered,
         PendingTable
  <2>4. PendingTable'
    BY <1>4, <1>e, Aria2Assumption DEF WriteDone, channel, names, slots, wire, PendingTable,
         Unregistered
  <2>5. SameConnection'
    BY <1>4, <1>e, Aria2Assumption DEF WriteDone, channel, names, slots, wire,
         SameConnection, PendingTable, Unregistered
  <2>6. SlotInv'
    BY <1>4, <1>e, Aria2Assumption DEF WriteDone, channel, names, slots, wire, SlotInv
  <2>7. IdInv'
    <3>1. UNCHANGED <<ids, id>> /\ pending' \subseteq pending \union {c}
      BY <1>4, <1>e DEF WriteDone, names, slots
    <3>2. asked' \subseteq asked \union {c} /\ replies' \subseteq replies
      BY <1>4 DEF WriteDone, wire
    <3>3. \A d \in Rpcs : cpc'[d] # "idle" => cpc[d] # "idle" \/ d = c
      BY <1>4 DEF WriteDone
    <3>4. QED
      BY <3>1, <3>2, <3>3, <1>e DEF IdInv
  <2>8. QED BY <2>1, <2>2, <2>3, <2>4, <2>5, <2>6, <2>7
<1>5. CASE WriteFails(c)
  <2>1. TypeOK'
    BY <1>5, <1>e, Aria2Assumption DEF WriteFails, Leave, Woken, FailAllPending,
         CloseStream, channel, names, slots, wire
  <2>2. OptionCalls'
    BY <1>5, <1>e, Aria2Assumption DEF WriteFails, Leave, Woken, FailAllPending,
         CloseStream, channel, names, slots, wire, OptionCalls, Rpcs
  <2>3. Unregistered'
    BY <1>5, <1>e, Aria2Assumption DEF WriteFails, Leave, Woken, FailAllPending,
         CloseStream, channel, names, slots, wire, Unregistered, PendingTable
  <2>4. PendingTable'
    BY <1>5, <1>e, Aria2Assumption DEF WriteFails, Leave, Woken, FailAllPending,
         CloseStream, channel, names, slots, wire, PendingTable, Unregistered
  <2>5. SameConnection'
    BY <1>5, <1>e, Aria2Assumption DEF WriteFails, Leave, Woken, FailAllPending,
         CloseStream, channel, names, slots, wire, SameConnection, PendingTable,
         Unregistered
  <2>6. SlotInv'
    BY <1>5, <1>e, Aria2Assumption DEF WriteFails, Leave, Woken, FailAllPending,
         CloseStream, channel, names, slots, wire, SlotInv
  <2>7. IdInv'
    <3>1. UNCHANGED <<ids, id>> /\ pending' \subseteq pending \union {c}
      BY <1>5, <1>e DEF WriteFails, Leave, Woken, names, slots
    <3>2. asked' \subseteq asked \union {c} /\ replies' \subseteq replies
      BY <1>5 DEF WriteFails, Leave, Woken, wire
    <3>3. \A d \in Rpcs : cpc'[d] # "idle" => cpc[d] # "idle" \/ d = c
      BY <1>5 DEF WriteFails, Leave, Woken
    <3>4. QED
      BY <3>1, <3>2, <3>3, <1>e DEF IdInv
  <2>8. QED BY <2>1, <2>2, <2>3, <2>4, <2>5, <2>6, <2>7
<1>6. CASE WriteStalls(c)
  <2>1. TypeOK'
    BY <1>6, <1>e, Aria2Assumption DEF WriteStalls, channel, names, slots, wire
  <2>2. OptionCalls'
    BY <1>6, <1>e, Aria2Assumption DEF WriteStalls, channel, names, slots, wire, OptionCalls,
         Rpcs
  <2>3. Unregistered'
    BY <1>6, <1>e, Aria2Assumption DEF WriteStalls, channel, names, slots, wire,
         Unregistered, PendingTable
  <2>4. PendingTable'
    BY <1>6, <1>e, Aria2Assumption DEF WriteStalls, channel, names, slots, wire,
         PendingTable, Unregistered
  <2>5. SameConnection'
    BY <1>6, <1>e, Aria2Assumption DEF WriteStalls, channel, names, slots, wire,
         SameConnection, PendingTable, Unregistered
  <2>6. SlotInv'
    BY <1>6, <1>e, Aria2Assumption DEF WriteStalls, channel, names, slots, wire, SlotInv
  <2>7. IdInv'
    <3>1. UNCHANGED <<ids, id>> /\ pending' \subseteq pending \union {c}
      BY <1>6, <1>e DEF WriteStalls, names, slots
    <3>2. asked' \subseteq asked \union {c} /\ replies' \subseteq replies
      BY <1>6 DEF WriteStalls, wire
    <3>3. \A d \in Rpcs : cpc'[d] # "idle" => cpc[d] # "idle" \/ d = c
      BY <1>6 DEF WriteStalls
    <3>4. QED
      BY <3>1, <3>2, <3>3, <1>e DEF IdInv
  <2>8. QED BY <2>1, <2>2, <2>3, <2>4, <2>5, <2>6, <2>7
<1>7. CASE Return(c)
  <2>1. TypeOK'
    BY <1>7, <1>e, Aria2Assumption DEF Return, Leave, channel, names, slots, wire
  <2>2. OptionCalls'
    BY <1>7, <1>e, Aria2Assumption DEF Return, Leave, channel, names, slots, wire,
         OptionCalls, Rpcs
  <2>3. Unregistered'
    BY <1>7, <1>e, Aria2Assumption DEF Return, Leave, channel, names, slots, wire,
         Unregistered, PendingTable
  <2>4. PendingTable'
    BY <1>7, <1>e, Aria2Assumption DEF Return, Leave, channel, names, slots, wire,
         PendingTable, Unregistered
  <2>5. SameConnection'
    BY <1>7, <1>e, Aria2Assumption DEF Return, Leave, channel, names, slots, wire,
         SameConnection, PendingTable, Unregistered
  <2>6. SlotInv'
    BY <1>7, <1>e, Aria2Assumption DEF Return, Leave, channel, names, slots, wire, SlotInv
  <2>7. IdInv'
    <3>1. UNCHANGED <<ids, id>> /\ pending' \subseteq pending \union {c}
      BY <1>7, <1>e DEF Return, Leave, names, slots
    <3>2. asked' \subseteq asked \union {c} /\ replies' \subseteq replies
      BY <1>7 DEF Return, Leave, wire
    <3>3. \A d \in Rpcs : cpc'[d] # "idle" => cpc[d] # "idle" \/ d = c
      BY <1>7 DEF Return, Leave
    <3>4. QED
      BY <3>1, <3>2, <3>3, <1>e DEF IdInv
  <2>8. QED BY <2>1, <2>2, <2>3, <2>4, <2>5, <2>6, <2>7
<1>8. CASE Timeout(c)
  <2>1. TypeOK'
    <3>1. UNCHANGED <<epoch, shutdown, ids, id, response, asked, replies>>
      BY <1>8, <1>e DEF Timeout, channel, names, wire
    <3>2. PICK pcs \in [Rpcs -> Places], r \in Results : Leave(c, r, pcs)
      BY <1>8, <1>e, WokenType DEF Timeout
    <3>3. /\ cpc' \in [Rpcs -> Places]
          /\ result' \in [Rpcs -> Results]
          /\ sentOn' \in [Rpcs -> 0..MaxConnects]
      BY <3>2, Aria2Assumption DEF Leave
    <3>4. pending' \in SUBSET Rpcs /\ failure' \in [Rpcs -> BOOLEAN]
      BY <1>8, <1>e DEF Timeout, FailAllPending
    <3>5. conn' \in {"down", "up", "closing"}
      BY <1>8, <1>e DEF Timeout, CloseStream, channel
    <3>6. QED BY <3>1, <3>3, <3>4, <3>5
  <2>2. OptionCalls'
    BY <1>8, <1>e, Aria2Assumption DEF Timeout, Leave, Woken, FailAllPending,
         CloseStream, channel, names, slots, wire, OptionCalls, Rpcs
  <2>3. Unregistered'
    <3>1. CASE cpc[c] = "posted"
      BY <1>8, <1>e, <3>1, Aria2Assumption DEF Timeout, Leave, Woken,
           FailAllPending, CloseStream, channel, names, slots, wire, Unregistered,
           PendingTable
    <3>2. CASE cpc[c] = "waiting"
      BY <1>8, <1>e, <3>2, Aria2Assumption DEF Timeout, Leave, Woken,
           FailAllPending, CloseStream, channel, names, slots, wire, Unregistered,
           PendingTable
    <3>3. CASE cpc[c] \in {"send", "writing"}
      <4>1. \/ /\ FailAllPending /\ CloseStream
               /\ Leave(c, "timeout", Woken(pending, cpc))
            \/ /\ cpc[c] = "send" /\ UNCHANGED <<conn, failure>>
               /\ Leave(c, "timeout", cpc)
        BY <1>8, <3>3 DEF Timeout
      <4>2. pending' = pending \ {c} /\ UNCHANGED <<epoch, response>>
        BY <1>8, <1>e, <3>3 DEF Timeout
      <4>3. CASE FailAllPending /\ CloseStream /\ Leave(c, "timeout", Woken(pending, cpc))
        BY <4>2, <4>3, <3>3 DEF Leave, Woken,
           FailAllPending, CloseStream, channel, names, slots, wire, Unregistered,
           PendingTable
      <4>4. CASE UNCHANGED <<conn, failure>> /\ Leave(c, "timeout", cpc)
        BY <4>2, <4>4, <3>3 DEF Leave, Woken,
           FailAllPending, CloseStream, channel, names, slots, wire, Unregistered,
           PendingTable
      <4>5. QED
        BY <4>1, <4>3, <4>4
    <3>4. CASE cpc[c] = "woken"
      BY <1>8, <1>e, <3>4, Aria2Assumption DEF Timeout, Leave, Woken,
           FailAllPending, CloseStream, channel, names, slots, wire, Unregistered,
           PendingTable
    <3>5. QED BY <1>8, <1>e, <3>1, <3>2, <3>3, <3>4 DEF Timeout
  <2>4. PendingTable'
    <3>1. CASE cpc[c] = "posted"
      BY <1>8, <1>e, <3>1, Aria2Assumption DEF Timeout, Leave, Woken,
           FailAllPending, CloseStream, channel, names, slots, wire, PendingTable,
           Unregistered
    <3>2. CASE cpc[c] = "waiting"
      BY <1>8, <1>e, <3>2, Aria2Assumption DEF Timeout, Leave, Woken,
           FailAllPending, CloseStream, channel, names, slots, wire, PendingTable,
           Unregistered
    <3>3. CASE cpc[c] \in {"send", "writing"}
      <4>1. \/ /\ FailAllPending /\ CloseStream
               /\ Leave(c, "timeout", Woken(pending, cpc))
            \/ /\ cpc[c] = "send" /\ UNCHANGED <<conn, failure>>
               /\ Leave(c, "timeout", cpc)
        BY <1>8, <3>3 DEF Timeout
      <4>2. pending' = pending \ {c} /\ UNCHANGED <<epoch, response>>
        BY <1>8, <1>e, <3>3 DEF Timeout
      <4>3. CASE FailAllPending /\ CloseStream /\ Leave(c, "timeout", Woken(pending, cpc))
        BY <4>2, <4>3, <3>3 DEF Leave, Woken,
           FailAllPending, CloseStream, channel, names, slots, wire, PendingTable,
           Unregistered
      <4>4. CASE UNCHANGED <<conn, failure>> /\ Leave(c, "timeout", cpc)
        BY <4>2, <4>4, <3>3 DEF Leave, Woken,
           FailAllPending, CloseStream, channel, names, slots, wire, PendingTable,
           Unregistered
      <4>5. QED
        BY <4>1, <4>3, <4>4
    <3>4. CASE cpc[c] = "woken"
      BY <1>8, <1>e, <3>4, Aria2Assumption DEF Timeout, Leave, Woken,
           FailAllPending, CloseStream, channel, names, slots, wire, PendingTable,
           Unregistered
    <3>5. QED BY <1>8, <1>e, <3>1, <3>2, <3>3, <3>4 DEF Timeout
  <2>5. SameConnection'
    <3>1. CASE cpc[c] = "posted"
      BY <1>8, <1>e, <3>1, Aria2Assumption DEF Timeout, Leave, Woken,
           FailAllPending, CloseStream, channel, names, slots, wire, SameConnection,
           PendingTable, Unregistered
    <3>2. CASE cpc[c] = "waiting"
      BY <1>8, <1>e, <3>2, Aria2Assumption DEF Timeout, Leave, Woken,
           FailAllPending, CloseStream, channel, names, slots, wire, SameConnection,
           PendingTable, Unregistered
    <3>3. CASE cpc[c] \in {"send", "writing"}
      <4>1. \/ /\ FailAllPending /\ CloseStream
               /\ Leave(c, "timeout", Woken(pending, cpc))
            \/ /\ cpc[c] = "send" /\ UNCHANGED <<conn, failure>>
               /\ Leave(c, "timeout", cpc)
        BY <1>8, <3>3 DEF Timeout
      <4>2. pending' = pending \ {c} /\ UNCHANGED <<epoch, response>>
        BY <1>8, <1>e, <3>3 DEF Timeout
      <4>3. CASE FailAllPending /\ CloseStream /\ Leave(c, "timeout", Woken(pending, cpc))
        BY <4>2, <4>3, <3>3 DEF Leave, Woken,
           FailAllPending, CloseStream, channel, names, slots, wire, SameConnection,
           PendingTable, Unregistered
      <4>4. CASE UNCHANGED <<conn, failure>> /\ Leave(c, "timeout", cpc)
        BY <4>2, <4>4, <3>3 DEF Leave, Woken,
           FailAllPending, CloseStream, channel, names, slots, wire, SameConnection,
           PendingTable, Unregistered
      <4>5. QED
        BY <4>1, <4>3, <4>4
    <3>4. CASE cpc[c] = "woken"
      BY <1>8, <1>e, <3>4, Aria2Assumption DEF Timeout, Leave, Woken,
           FailAllPending, CloseStream, channel, names, slots, wire, SameConnection,
           PendingTable, Unregistered
    <3>5. QED BY <1>8, <1>e, <3>1, <3>2, <3>3, <3>4 DEF Timeout
  <2>6. SlotInv'
    <3>1. CASE cpc[c] = "posted"
      BY <1>8, <1>e, <3>1, Aria2Assumption DEF Timeout, Leave, wire, SlotInv
    <3>2. CASE cpc[c] = "waiting"
      BY <1>8, <1>e, <3>2, Aria2Assumption DEF Timeout, Leave, wire, SlotInv
    <3>3. CASE cpc[c] \in {"send", "writing"}
      <4>1. \/ /\ FailAllPending /\ CloseStream
               /\ Leave(c, "timeout", Woken(pending, cpc))
            \/ /\ cpc[c] = "send" /\ UNCHANGED <<conn, failure>>
               /\ Leave(c, "timeout", cpc)
        BY <1>8, <3>3 DEF Timeout
      <4>2. pending' = pending \ {c} /\ UNCHANGED <<epoch, response>>
        BY <1>8, <1>e, <3>3 DEF Timeout
      <4>3. CASE FailAllPending /\ CloseStream /\ Leave(c, "timeout", Woken(pending, cpc))
        BY <4>2, <4>3, <3>3 DEF Leave, Woken, FailAllPending, wire, SlotInv
      <4>4. CASE UNCHANGED <<conn, failure>> /\ Leave(c, "timeout", cpc)
        BY <4>2, <4>4, <3>3 DEF Leave, Woken, FailAllPending, wire, SlotInv
      <4>5. QED
        BY <4>1, <4>3, <4>4
    <3>4. CASE cpc[c] = "woken"
      BY <1>8, <1>e, <3>4, Aria2Assumption DEF Timeout, Leave, wire, SlotInv
    <3>5. QED BY <1>8, <1>e, <3>1, <3>2, <3>3, <3>4 DEF Timeout
  <2>7. IdInv'
    <3>1. UNCHANGED <<ids, id>> /\ pending' \subseteq pending \union {c}
      BY <1>8, <1>e DEF Timeout, Leave, Woken, names, slots
    <3>2. asked' \subseteq asked \union {c} /\ replies' \subseteq replies
      BY <1>8 DEF Timeout, Leave, Woken, wire
    <3>3. \A d \in Rpcs : cpc'[d] # "idle" => cpc[d] # "idle" \/ d = c
      BY <1>8 DEF Timeout, Leave, Woken
    <3>4. QED
      BY <3>1, <3>2, <3>3, <1>e DEF IdInv
  <2>8. QED BY <2>1, <2>2, <2>3, <2>4, <2>5, <2>6, <2>7
<1>9. QED BY <1>1, <1>e, <1>2, <1>3, <1>4, <1>5, <1>6, <1>7, <1>8 DEF CallStep

\* So does every step of the reader, the daemon and whoever starts a call.
LEMMA ChannelInv ==
    ASSUME Aria2Inv,
           \/ \E c \in Calls : Begin(c)
           \/ \E c \in Rpcs : Answer(c)
           \/ Connect \/ Disconnect \/ HandleMessage \/ RequestShutdown
    PROVE  Aria2Inv'
<1> USE DEF Aria2Inv, TypeOK, Places, Results
<1>n. ASSUME NEW c \in Rpcs, MakeId(c),
             UNCHANGED <<pending, asked, replies>>,
             \A d \in Rpcs \ {c} : cpc'[d] = cpc[d]
      PROVE  /\ ids' \in Nat /\ id' \in [Rpcs -> 0..ids']
             /\ IdInv'
  <2>1. /\ ids' = ids + 1
        /\ id' = [id EXCEPT ![c] = ids + 1]
    BY <1>n DEF MakeId, NewId
  <2>2. \A d \in Rpcs : id[d] \in Nat /\ id[d] <= ids
    OBVIOUS
  <2>3. ids' \in Nat /\ id' \in [Rpcs -> 0..ids']
    BY <2>1, <2>2
  <2>4. \A d \in Rpcs : id'[d] = IF d = c THEN ids + 1 ELSE id[d]
    BY <2>1
  <2>5. \A d, e \in Rpcs : id'[d] = id'[e] /\ id'[d] # 0 => d = e
    BY <2>2, <2>4 DEF IdInv
  <2>6. \A d \in Rpcs : cpc'[d] # "idle" => id'[d] # 0
    BY <1>n, <2>4 DEF IdInv
  <2>7. \A d \in pending' \union asked' \union replies' : id'[d] # 0
    BY <1>n, <2>4 DEF IdInv
  <2>8. QED
    BY <2>3, <2>5, <2>6, <2>7 DEF IdInv
<1>1. ASSUME NEW c \in Calls, Begin(c) PROVE Aria2Inv'
  <2>1. TypeOK'
    <3>1. ids' \in Nat /\ id' \in [Rpcs -> 0..ids']
      BY <1>1, <1>n DEF Begin, Rpcs, slots, wire
    <3>2. QED
      BY <1>1, <3>1, Aria2Assumption DEF Begin, Rpcs, channel, slots, wire
  <2>2. OptionCalls'
    BY <1>1, Aria2Assumption DEF Begin, Rpcs, channel, names, slots, wire, OptionCalls,
         Rpcs
  <2>3. Unregistered'
    BY <1>1, Aria2Assumption DEF Begin, Rpcs, channel, names, slots, wire,
         Unregistered, PendingTable
  <2>4. PendingTable'
    BY <1>1, Aria2Assumption DEF Begin, Rpcs, channel, names, slots, wire,
         PendingTable, Unregistered
  <2>5. SameConnection'
    BY <1>1, Aria2Assumption DEF Begin, Rpcs, channel, names, slots, wire,
         SameConnection, PendingTable, Unregistered
  <2>6. SlotInv'
    BY <1>1, Aria2Assumption DEF Begin, Rpcs, channel, names, slots, wire, SlotInv
  <2>7. IdInv'
    BY <1>1, <1>n DEF Begin, Rpcs, slots, wire
  <2>8. QED BY <2>1, <2>2, <2>3, <2>4, <2>5, <2>6, <2>7
<1>2. ASSUME NEW c \in Rpcs, Answer(c) PROVE Aria2Inv'
  <2>1. TypeOK'
    BY <1>2, Aria2Assumption DEF Answer, channel, names, slots, wire, Kinds
  <2>2. OptionCalls'
    BY <1>2, Aria2Assumption DEF Answer, channel, names, slots, wire, OptionCalls, Rpcs
  <2>3. Unregistered'
    BY <1>2, Aria2Assumption DEF Answer, channel, names, slots, wire, Unregistered,
         PendingTable
  <2>4. PendingTable'
    BY <1>2, Aria2Assumption DEF Answer, channel, names, slots, wire, PendingTable,
         Unregistered
  <2>5. SameConnection'
    BY <1>2, Aria2Assumption DEF Answer, channel, names, slots, wire, SameConnection,
         PendingTable, Unregistered
  <2>6. SlotInv'
    BY <1>2, Aria2Assumption DEF Answer, channel, names, slots, wire, SlotInv
  <2>7. IdInv'
    BY <1>2 DEF Answer, names, slots, IdInv
  <2>8. QED BY <2>1, <2>2, <2>3, <2>4, <2>5, <2>6, <2>7
<1>3. CASE Connect
  <2>1. TypeOK'
    <3>1. epoch + 1 \in Rpcs
      BY <1>3, Aria2Assumption DEF Connect, Rpcs
    <3>2. ids' \in Nat /\ id' \in [Rpcs -> 0..ids']
      BY <1>3, <1>n, <3>1 DEF Connect, slots, wire
    <3>3. QED
      BY <1>3, <3>2, Aria2Assumption DEF Connect, channel, slots, wire, Rpcs
  <2>2. OptionCalls'
    BY <1>3, Aria2Assumption DEF Connect, channel, names, slots, wire, OptionCalls,
         Rpcs
  <2>3. Unregistered'
    BY <1>3, Aria2Assumption DEF Connect, channel, names, slots, wire, Unregistered,
         PendingTable, OptionCalls
  <2>4. PendingTable'
    BY <1>3, Aria2Assumption DEF Connect, channel, names, slots, wire, PendingTable,
         Unregistered
  <2>5. SameConnection'
    BY <1>3, Aria2Assumption DEF Connect, channel, names, slots, wire, SameConnection,
         PendingTable, Unregistered
  <2>6. SlotInv'
    BY <1>3, Aria2Assumption DEF Connect, channel, names, slots, wire, SlotInv
  <2>7. IdInv'
    <3>1. epoch + 1 \in Rpcs
      BY <1>3, Aria2Assumption DEF Connect, Rpcs
    <3>2. QED
      BY <1>3, <1>n, <3>1 DEF Connect, slots, wire
  <2>8. QED BY <2>1, <2>2, <2>3, <2>4, <2>5, <2>6, <2>7
<1>4. CASE Disconnect
  <2>1. TypeOK'
    BY <1>4, Aria2Assumption DEF Disconnect, Woken, FailAllPending, channel,
         names, slots, wire
  <2>2. OptionCalls'
    BY <1>4, Aria2Assumption DEF Disconnect, Woken, FailAllPending, channel,
         names, slots, wire, OptionCalls, Rpcs
  <2>3. Unregistered'
    BY <1>4, Aria2Assumption DEF Disconnect, Woken, FailAllPending, channel,
         names, slots, wire, Unregistered, PendingTable
  <2>4. PendingTable'
    BY <1>4, Aria2Assumption DEF Disconnect, Woken, FailAllPending, channel,
         names, slots, wire, PendingTable, Unregistered
  <2>5. SameConnection'
    BY <1>4, Aria2Assumption DEF Disconnect, Woken, FailAllPending, channel,
         names, slots, wire, SameConnection, PendingTable, Unregistered
  <2>6. SlotInv'
    BY <1>4, Aria2Assumption DEF Disconnect, Woken, FailAllPending, channel,
         names, slots, wire, SlotInv
  <2>7. IdInv'
    BY <1>4 DEF Disconnect, Woken, names, IdInv
  <2>8. QED BY <2>1, <2>2, <2>3, <2>4, <2>5, <2>6, <2>7
<1>5. CASE HandleMessage
  <2>1. TypeOK'
    <3>1. PICK c \in replies, kind \in Kinds : Dispatch(c, kind)
      BY <1>5 DEF HandleMessage
    <3>2. c \in Rpcs
      BY <3>1
    <3>3. UNCHANGED <<conn, epoch, shutdown, ids, id, pending, asked, sentOn, result>>
      BY <3>1 DEF Dispatch, channel, names
    <3>4. replies' \in SUBSET Rpcs
      BY <3>1 DEF Dispatch
    <3>5. cpc' \in [Rpcs -> Places]
      BY <3>1, WokenType DEF Dispatch
    <3>6. response' \in [Rpcs -> Rpcs \union {NoAnswer}] /\ failure' \in [Rpcs -> BOOLEAN]
      BY <3>1, <3>2 DEF Dispatch
    <3>7. QED BY <3>3, <3>4, <3>5, <3>6
  <2>2. OptionCalls'
    BY <1>5, Aria2Assumption DEF HandleMessage, Dispatch, Woken, channel, names,
         slots, wire, OptionCalls, Rpcs
  <2>3. Unregistered'
    BY <1>5, Aria2Assumption DEF HandleMessage, Dispatch, Woken, channel, names,
         slots, wire, Unregistered, PendingTable
  <2>4. PendingTable'
    BY <1>5, Aria2Assumption DEF HandleMessage, Dispatch, Woken, channel, names,
         slots, wire, PendingTable, Unregistered
  <2>5. SameConnection'
    BY <1>5, Aria2Assumption DEF HandleMessage, Dispatch, Woken, channel, names,
         slots, wire, SameConnection, PendingTable, Unregistered
  <2>6. SlotInv'
    <3>1. PICK c \in replies, kind \in Kinds : Dispatch(c, kind)
      BY <1>5 DEF HandleMessage
    <3>2. PICK found \in SUBSET {c} :
             /\ response' = [d \in Rpcs |->
                               IF d \in found /\ kind = "result" THEN c ELSE response[d]]
             /\ failure' = [d \in Rpcs |->
                              failure[d] \/ (d \in found /\ kind = "error")]
             /\ cpc' = Woken(found, cpc)
             /\ kind \notin {"result", "error"} => found = {}
      <4>1. c \in Rpcs /\ id[c] # 0
        BY <3>1 DEF IdInv
      <4>2. Find(id[c]) \in SUBSET {c}
        BY <4>1, ById
      <4>3. QED
        BY <3>1, <4>2 DEF Dispatch, Kinds
    <3>3. c \in Rpcs /\ UNCHANGED result
      BY <3>1 DEF Dispatch
    <3>4. \A d \in Rpcs :
             /\ response'[d] = IF d \in found /\ kind = "result" THEN c ELSE response[d]
             /\ failure'[d] = (failure[d] \/ (d \in found /\ kind = "error"))
             /\ cpc'[d] = IF d \in found /\ cpc[d] = "waiting" THEN "woken" ELSE cpc[d]
      BY <3>2 DEF Woken
    <3>5. QED
      BY <3>2, <3>3, <3>4, Aria2Assumption DEF SlotInv
  <2>7. IdInv'
    BY <1>5 DEF HandleMessage, Dispatch, Woken, names, IdInv
  <2>8. QED BY <2>1, <2>2, <2>3, <2>4, <2>5, <2>6, <2>7
<1>6. CASE RequestShutdown
  <2>1. TypeOK'
    BY <1>6, Aria2Assumption DEF RequestShutdown, CloseStream, channel, names,
         slots, wire
  <2>2. OptionCalls'
    BY <1>6, Aria2Assumption DEF RequestShutdown, CloseStream, channel, names,
         slots, wire, OptionCalls, Rpcs
  <2>3. Unregistered'
    BY <1>6, Aria2Assumption DEF RequestShutdown, CloseStream, channel, names,
         slots, wire, Unregistered, PendingTable
  <2>4. PendingTable'
    BY <1>6, Aria2Assumption DEF RequestShutdown, CloseStream, channel, names,
         slots, wire, PendingTable, Unregistered
  <2>5. SameConnection'
    BY <1>6, Aria2Assumption DEF RequestShutdown, CloseStream, channel, names,
         slots, wire, SameConnection, PendingTable, Unregistered
  <2>6. SlotInv'
    BY <1>6, Aria2Assumption DEF RequestShutdown, CloseStream, channel, names,
         slots, wire, SlotInv
  <2>7. IdInv'
    BY <1>6 DEF RequestShutdown, names, slots, wire, IdInv
  <2>8. QED BY <2>1, <2>2, <2>3, <2>4, <2>5, <2>6, <2>7
<1>7. QED BY <1>1, <1>2, <1>3, <1>4, <1>5, <1>6

LEMMA StepInv == Aria2Inv /\ [Next]_vars => Aria2Inv'
<1> SUFFICES ASSUME Aria2Inv, [Next]_vars PROVE Aria2Inv'
  OBVIOUS
<1>1. CASE Next
  BY <1>1, CallInv, ChannelInv DEF Next
<1>2. CASE UNCHANGED vars
  BY <1>2 DEF vars, channel, names, slots, wire, Aria2Inv, TypeOK, OptionCalls, IdInv, Unregistered,
       PendingTable, SameConnection, SlotInv
<1>3. QED
  BY <1>1, <1>2

\* The invariant holds in every reachable state.
LEMMA Invariance == Spec => []Aria2Inv
BY InitInv, StepInv, PTL DEF Spec

-----------------------------------------------------------------------------
\* The variables of the channel keep their types, for any set of calls and any
\* number of reconnects of aria2_downloader.cpp.
THEOREM ChannelTypeCorrect == Spec => []TypeOK
<1>1. Aria2Inv => TypeOK
  BY DEF Aria2Inv
<1>2. QED
  BY <1>1, Invariance, PTL

\* handle_message gives every call its own answer, however many calls are
\* pending.
THEOREM OwnAnswerHolds == Spec => []OwnAnswer
<1>1. Aria2Inv => OwnAnswer
  BY DEF Aria2Inv, SlotInv, OwnAnswer
<1>2. QED
  BY <1>1, Invariance, PTL

\* No call of call_with_correlation waits for an answer that cannot come,
\* however often the connection is lost.
THEOREM NotStrandedHolds == Spec => []NotStranded
<1>1. Aria2Inv => NotStranded
  BY DEF Aria2Inv, SameConnection, NotStranded
<1>2. QED
  BY <1>1, Invariance, PTL

\* pending_ has an entry for every call in progress, and keeps one for a call
\* that is over only if that ran into its deadline.
THEOREM PendingTableHolds == Spec => []PendingTable
<1>1. Aria2Inv => PendingTable
  BY DEF Aria2Inv
<1>2. QED
  BY <1>1, Invariance, PTL

\* The last error path of call_with_correlation is dead code.
THEOREM NeverAbandonedHolds == Spec => []NeverAbandoned
<1>1. Aria2Inv => NeverAbandoned
  BY DEF Aria2Inv, SlotInv, NeverAbandoned
<1>2. QED
  BY <1>1, Invariance, PTL
=============================================================================
