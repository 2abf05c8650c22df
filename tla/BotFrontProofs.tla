---------------------------- MODULE BotFrontProofs ----------------------------
(***************************************************************************)
(* What the front of the bot keeps, for any pool of connections, any       *)
(* number of migrations, handlers and updates: connections are conserved,  *)
(* the schema is what its version says, settings keep what was saved, and  *)
(* updates are answered.                                                   *)
(*                                                                         *)
(* The pool and the migrations know nothing of the rest, so each has an    *)
(* inductive invariant of its own and the rest of the bot is to them one   *)
(* step that leaves them alone.                                            *)
(***************************************************************************)
EXTENDS BotFront, FiniteSetTheorems, SequenceTheorems, TLAPS

-----------------------------------------------------------------------------
(***************************************************************************)
(* The connection pool.                                                    *)
(***************************************************************************)
Holders == {c \in Clients : held[c] # 0}

\* Who waits holds nothing and waits once, and no slot is in two places.
PoolInv ==
    /\ PoolTypes
    /\ PoolConserved
    /\ \A i \in DOMAIN queue : held[queue[i]] = 0
    /\ \A i, j \in DOMAIN queue : queue[i] = queue[j] => i = j
    /\ \A i, j \in DOMAIN free : free[i] = free[j] => i = j
    /\ \A i \in DOMAIN free, c \in Clients : held[c] # free[i]

\* What a step of the bot may do to the pool.
PoolStep ==
    \/ PoolOpens
    \/ \E c \in Clients : Acquire(c) \/ Release(c)
    \/ UNCHANGED poolVars

LEMMA HoldersFinite == IsFiniteSet(Holders) /\ Cardinality(Holders) \in Nat
BY PoolAssumption, FS_Subset, FS_CardinalityType DEF Holders

\* The constructor of the pool lends nothing.
LEMMA PoolOpensOK == PoolOpens => PoolInv'
<1> SUFFICES ASSUME PoolOpens PROVE PoolInv'
  OBVIOUS
<1>1. free' \in Seq(Slots) /\ Len(free') = PoolSize /\ \A i \in Slots : free'[i] = i
  BY PoolAssumption DEF PoolOpens, Slots
<1>2. Holders' = {}
  BY DEF PoolOpens, Holders
<1>3. Cardinality(Holders') = 0
  BY <1>2, FS_EmptySet
<1>4. DOMAIN free' = Slots /\ queue' = <<>>
  BY DEF PoolOpens
<1>5. PoolTypes'
  BY <1>1, <1>4 DEF PoolOpens, PoolTypes
<1>6. \A i \in DOMAIN free', c \in Clients : held'[c] # free'[i]
  BY <1>1, <1>4 DEF PoolOpens, Slots
<1>7. PoolConserved'
  BY <1>1, <1>3, <1>4, PoolAssumption DEF PoolConserved, PoolOpens, Holders
<1> QED BY <1>1, <1>4, <1>5, <1>6, <1>7 DEF PoolInv

\* acquire(): a slot leaves the channel for one handle, or one more waits.
LEMMA AcquireOK == ASSUME PoolInv, NEW c \in Clients, Acquire(c) PROVE PoolInv'
<1> USE DEF PoolInv, PoolTypes, Slots
<1>1. CASE free # <<>>
  <2>1. /\ held' = [held EXCEPT ![c] = Head(free)]
        /\ free' = Tail(free)
        /\ queue' = queue
        /\ held[c] = 0 /\ ~Queued(c)
    BY <1>1 DEF Acquire
  <2>2. /\ Head(free) = free[1] /\ 1 \in DOMAIN free
        /\ Tail(free) \in Seq(1..PoolSize) /\ Len(free') = Len(free) - 1
        /\ \A i \in DOMAIN free' :
              i \in Nat /\ i + 1 \in DOMAIN free /\ free'[i] = free[i + 1] /\ i + 1 # 1
    BY <1>1, <2>1
  <2>3. Head(free) \in 1..PoolSize /\ Head(free) # 0
    BY <2>2, PoolAssumption, ElementOfSeq
  <2>4. PoolTypes'
    BY <2>1, <2>2, <2>3
  <2>5. Holders' = Holders \union {c} /\ c \notin Holders
    BY <2>1, <2>3 DEF Holders
  <2>6. Cardinality(Holders') = Cardinality(Holders) + 1
    BY <2>5, HoldersFinite, FS_AddElement
  <2>7. Len(free') + Cardinality(Holders') = PoolSize
    BY <2>2, <2>6, HoldersFinite DEF PoolConserved, Holders
  <2>8. \A d, e \in Clients : held'[d] # 0 /\ held'[d] = held'[e] => d = e
    BY <2>1, <2>2 DEF PoolConserved
  <2>9. queue = <<>>
    BY <1>1 DEF PoolConserved
  <2>10. ASSUME NEW i \in DOMAIN free', NEW j \in DOMAIN free', free'[i] = free'[j]
         PROVE  i = j
    <3>1. i + 1 = j + 1
      BY <2>2, <2>10
    <3> QED BY <2>2, <3>1
  <2>11. \A i \in DOMAIN free', d \in Clients : held'[d] # free'[i]
    BY <2>1, <2>2
  <2>12. PoolConserved'
    BY <2>1, <2>7, <2>8, <2>9 DEF PoolConserved, Holders
  <2> QED BY <2>1, <2>4, <2>9, <2>10, <2>11, <2>12
<1>2. CASE free = <<>>
  <2>1. /\ queue' = Append(queue, c)
        /\ free' = free /\ held' = held
        /\ held[c] = 0 /\ ~Queued(c)
    BY <1>2 DEF Acquire
  <2>2. /\ queue' \in Seq(Clients) /\ Len(queue') = Len(queue) + 1
        /\ \A i \in DOMAIN queue : queue'[i] = queue[i] /\ queue[i] # c
        /\ queue'[Len(queue) + 1] = c
        /\ \A i \in DOMAIN queue' : i \in DOMAIN queue \/ i = Len(queue) + 1
    BY <2>1 DEF Queued
  <2>3. \A i \in DOMAIN queue' : held[queue'[i]] = 0
    BY <2>1, <2>2
  <2>4. \A i, j \in DOMAIN queue' : queue'[i] = queue'[j] => i = j
    BY <2>2
  <2>5. PoolConserved'
    BY <1>2, <2>1 DEF PoolConserved
  <2> QED BY <2>1, <2>2, <2>3, <2>4, <2>5
<1> QED BY <1>1, <1>2

LEMMA SlotsInChannel == ASSUME PoolTypes PROVE \A i \in DOMAIN free : free[i] \in 1..PoolSize
<1>1. free \in Seq(1..PoolSize)
  BY DEF PoolTypes, Slots
<1> QED BY <1>1, PoolAssumption

\* A handle goes: its slot is the first waiter's, or back in the channel.
LEMMA ReleaseOK == ASSUME PoolInv, NEW c \in Clients, Release(c) PROVE PoolInv'
<1> USE DEF PoolInv, PoolTypes, Slots
<1>0. c \in Holders /\ held[c] \in 1..PoolSize
  BY DEF Release, Holders
<1>1. CASE queue # <<>>
  <2> DEFINE h == Head(queue)
  <2>1. /\ held' = [held EXCEPT ![c] = 0, ![h] = held[c]]
        /\ queue' = Tail(queue)
        /\ free' = free
    BY <1>1 DEF Release
  <2>2. /\ h = queue[1] /\ 1 \in DOMAIN queue /\ h \in Clients
        /\ queue' \in Seq(Clients)
        /\ \A i \in DOMAIN queue' : i + 1 \in DOMAIN queue /\ queue'[i] = queue[i + 1] /\ i + 1 # 1
    BY <1>1, <2>1
  <2>3. h # c /\ held[h] = 0
    BY <1>0, <2>2 DEF Holders
  <2> HIDE DEF h
  <2>4. \A d \in Clients : held'[d] = IF d = h THEN held[c] ELSE IF d = c THEN 0 ELSE held[d]
    BY <2>1, <2>2, <2>3
  <2>5. PoolTypes'
    BY <1>0, <2>1, <2>2
  <2>6. Holders' = (Holders \ {c}) \union {h} /\ h \notin Holders \ {c}
    BY <1>0, <2>2, <2>3, <2>4 DEF Holders
  <2>7. Cardinality(Holders') = Cardinality(Holders)
    <3>1. /\ IsFiniteSet(Holders \ {c})
          /\ Cardinality(Holders \ {c}) = Cardinality(Holders) - 1
      BY <1>0, HoldersFinite, FS_RemoveElement
    <3>2. Cardinality((Holders \ {c}) \union {h}) = Cardinality(Holders \ {c}) + 1
      BY <2>6, <3>1, FS_AddElement
    <3> QED BY <2>6, <3>1, <3>2, HoldersFinite
  <2>8. \A d, e \in Clients : held'[d] # 0 /\ held'[d] = held'[e] => d = e
    BY <1>0, <2>3, <2>4 DEF PoolConserved
  <2>9. free = <<>>
    BY <1>1 DEF PoolConserved
  <2>10. \A i \in DOMAIN queue' : held'[queue'[i]] = 0
    BY <2>2, <2>4
  <2>11. \A i, j \in DOMAIN queue' : queue'[i] = queue'[j] => i = j
    BY <2>2
  <2>12. PoolConserved'
    BY <2>1, <2>7, <2>8, <2>9 DEF PoolConserved, Holders
  <2> QED BY <2>1, <2>5, <2>9, <2>10, <2>11, <2>12
<1>2. CASE queue = <<>>
  <2>1. /\ held' = [held EXCEPT ![c] = 0]
        /\ free' = Append(free, held[c])
        /\ queue' = queue
    BY <1>2 DEF Release
  <2>2. /\ free' \in Seq(1..PoolSize) /\ Len(free') = Len(free) + 1
        /\ \A i \in DOMAIN free : free'[i] = free[i] /\ free[i] # held[c]
        /\ free'[Len(free) + 1] = held[c]
        /\ \A i \in DOMAIN free' : i \in DOMAIN free \/ i = Len(free) + 1
    BY <1>0, <2>1
  <2>3. PoolTypes'
    BY <2>1, <2>2
  <2>4. Holders' = Holders \ {c}
    BY <2>1 DEF Holders
  <2>5. Cardinality(Holders') = Cardinality(Holders) - 1
    BY <1>0, <2>4, HoldersFinite, FS_RemoveElement
  <2>6. Len(free') + Cardinality(Holders') = PoolSize
    BY <2>2, <2>5, HoldersFinite DEF PoolConserved, Holders
  <2>7. \A d, e \in Clients : held'[d] # 0 /\ held'[d] = held'[e] => d = e
    BY <2>1 DEF PoolConserved
  <2>8. \A i, j \in DOMAIN free' : free'[i] = free'[j] => i = j
    BY <2>2
  <2>9. ASSUME NEW i \in DOMAIN free', NEW d \in Clients PROVE held'[d] # free'[i]
    <3>1. CASE d = c
      <4>1. free'[i] \in 1..PoolSize
        <5>1. i \in DOMAIN free => free[i] \in 1..PoolSize
          BY SlotsInChannel
        <5> QED BY <1>0, <2>2, <5>1
      <4> QED BY <2>1, <3>1, <4>1
    <3>2. CASE d # c
      <4>1. held'[d] = held[d] /\ held[d] # held[c]
        BY <1>0, <2>1, <3>2 DEF PoolConserved, Holders
      <4> QED BY <2>2, <4>1
    <3> QED BY <3>1, <3>2
  <2>10. PoolConserved'
    BY <1>2, <2>1, <2>6, <2>7 DEF PoolConserved, Holders
  <2> QED BY <1>2, <2>1, <2>3, <2>8, <2>9, <2>10
<1> QED BY <1>1, <1>2

\* Each step of the bot is a step of the pool.
LEMMA NextOnPool == Next => PoolStep
<1> SUFFICES ASSUME Next PROVE PoolStep
  OBVIOUS
<1> USE DEF PoolStep, poolVars
<1>1. CASE Start \/ Killed
  BY <1>1 DEF Start, Killed, Exit, Fresh
<1>2. CASE MigrateBorrows \/ MigrateEnds
  BY <1>2, FrontAssumption DEF MigrateBorrows, MigrateEnds, Exit, Fresh
<1>3. CASE BotMigrates \/ SeedEnds \/ AuthorityEnds
  BY <1>3 DEF BotMigrates, SeedEnds, AuthorityEnds, Exit, Fresh
<1>4. ASSUME NEW c \in Clients, RepositoryStep(c) PROVE PoolStep
  BY <1>4 DEF RepositoryStep, Borrow, Load, Save
<1>5. ASSUME NEW h \in Handlers, Update(h) PROVE PoolStep
  BY <1>5 DEF Update, Chatter, Refuse, Accept, Tap
<1>6. ASSUME NEW h \in Handlers, Handle(h) PROVE PoolStep
  BY <1>6 DEF Handle, HandlerStep, Notice, RunUseCase, CommandHas, Found, Backends, Send,
              EditPing, QueryHas, Show, Ack, Quiet
<1>7. CASE CliStarts \/ CliStep \/ CliEnds
  BY <1>7 DEF CliStarts, CliStep, CliEnds
<1> QED BY <1>1, <1>2, <1>3, <1>4, <1>5, <1>6, <1>7 DEF Next

LEMMA PoolInvStep == PoolInv /\ [Next]_vars => PoolInv'
<1> SUFFICES ASSUME PoolInv, [Next]_vars PROVE PoolInv'
  OBVIOUS
<1>1. PoolStep
  BY NextOnPool DEF vars, PoolStep
<1>2. CASE UNCHANGED poolVars
  BY <1>2 DEF poolVars, PoolInv, PoolTypes, PoolConserved
<1> QED BY <1>1, <1>2, PoolOpensOK, AcquireOK, ReleaseOK DEF PoolStep

LEMMA PoolInvHolds == Spec => []PoolInv
<1>1. Init => PoolInv
  <2> SUFFICES ASSUME Init PROVE PoolInv
    OBVIOUS
  <2>1. free \in Seq(Slots) /\ Len(free) = PoolSize /\ DOMAIN free = Slots
    BY PoolAssumption DEF Init, Slots
  <2>2. Holders = {} /\ queue = <<>>
    BY DEF Init, Holders
  <2>3. Cardinality(Holders) = 0
    BY <2>2, FS_EmptySet
  <2>4. PoolConserved
    BY <2>1, <2>2, <2>3, PoolAssumption DEF PoolConserved, Init, Holders
  <2> QED BY <2>1, <2>2, <2>4, PoolAssumption DEF PoolInv, PoolTypes, Init, Slots
<1> QED BY <1>1, PoolInvStep, PTL DEF Spec

\* SqliteConnectionPool never lends a connection twice nor loses one, and nobody
\* waits while there is one, for any number of connections and coroutines and
\* wherever the process is killed.
THEOREM ConnectionsConserved == Spec => []PoolConserved
<1>1. PoolInv => PoolConserved
  BY DEF PoolInv
<1> QED BY <1>1, PoolInvHolds, PTL

-----------------------------------------------------------------------------
(***************************************************************************)
(* The migrations.                                                         *)
(***************************************************************************)
InTransaction == {"begun", "ran", "recorded"}

\* A process in a transaction is the only writer, what it has done so far is its
\* migration, and the migrations before that one are recorded; one that is about
\* to commit commits a version that is not recorded.
TransactionOf(m) ==
    /\ mp[m] \in InTransaction => writer = m /\ next[m] <= Latest
    /\ mp[m] \in InTransaction \union {"loop"} => 1..(next[m] - 1) \subseteq rows
    /\ mp[m] = "begun" => dirty = Clean
    /\ mp[m] = "ran" => dirty = [ran |-> {next[m]}, recorded |-> {}]
    /\ mp[m] = "recorded" => /\ dirty = [ran |-> {next[m]}, recorded |-> {next[m]}]
                             /\ next[m] \notin rows
    /\ mp[m] = "ok" => 1..Latest \subseteq rows

TransactionInv == \A m \in Migrators : TransactionOf(m)

\* The versions recorded are an initial segment.
VersionInv ==
    /\ \E n \in 0..Latest : rows = 1..n
    /\ \A v \in 1..Latest : schema[v] = IF v \in rows THEN 1 ELSE 0

MigrateInv == MigrateTypes /\ VersionInv /\ TransactionInv

\* A process begins to migrate.
MigratorStarts(m) ==
    /\ mp' = [mp EXCEPT ![m] = "start"]
    /\ UNCHANGED <<rows, schema, writer, dirty, next>>

\* What a step of the bot, or of cmlb --migrate-only, may do to the database.
MigrationStep ==
    \/ \E m \in Migrators : MigrateStep(m) \/ MigratorDies(m) \/ MigratorStarts(m)
    \/ UNCHANGED migrateVars

\* What one process does disturbs no other: a step in a transaction, because there
\* is no other in one then, and a step outside of one, because it leaves the
\* transaction alone.
LEMMA OneMoves ==
    ASSUME TransactionInv, NEW m \in Migrators, rows \subseteq rows',
           \A k \in Migrators \ {m} : mp'[k] = mp[k] /\ next'[k] = next[k],
           writer = m \/ UNCHANGED <<writer, dirty, rows>>,
           TransactionOf(m)'
    PROVE  TransactionInv'
<1> SUFFICES ASSUME NEW k \in Migrators, k # m PROVE TransactionOf(k)'
  BY DEF TransactionInv
<1>1. TransactionOf(k) /\ mp'[k] = mp[k] /\ next'[k] = next[k]
  BY DEF TransactionInv
<1>2. CASE mp[k] \in InTransaction
  <2>1. UNCHANGED <<writer, dirty, rows>>
    BY <1>1, <1>2 DEF TransactionOf
  <2> QED BY <1>1, <2>1 DEF TransactionOf
<1>3. CASE mp[k] \notin InTransaction
  BY <1>1, <1>3 DEF TransactionOf, InTransaction
<1> QED BY <1>2, <1>3

\* The version that migrate() reads is the number of versions recorded.
LEMMA HighestVersion ==
    ASSUME NEW n \in Nat, NEW S, S = 1..n, n # 0
    PROVE  (CHOOSE v \in S : \A w \in S : w <= v) = n
<1>1. n \in S /\ \A w \in S : w <= n
  OBVIOUS
<1>2. \A v \in S : (\A w \in S : w <= v) => v = n
  <2> TAKE v \in S
  <2> HAVE \A w \in S : w <= v
  <2>1. n <= v /\ v <= n
    BY <1>1
  <2> QED BY <2>1
<1> DEFINE P(v) == \A w \in S : w <= v
<1>3. P(CHOOSE v \in S : P(v)) /\ (CHOOSE v \in S : P(v)) \in S
  <2>1. \E v \in S : P(v)
    BY <1>1
  <2> HIDE DEF P
  <2> QED BY <2>1
<1> QED BY <1>2, <1>3

LEMMA ReadVersionOK == ASSUME MigrateInv, NEW m \in Migrators, ReadVersion(m) PROVE MigrateInv'
<1> USE MigratorAssumption DEF MigrateInv
<1>1. PICK n \in 0..Latest : rows = 1..n
  BY DEF VersionInv
<1>2. VersionInv'
  BY DEF VersionInv, ReadVersion
<1>3. (IF rows = {} THEN 0 ELSE CHOOSE v \in rows : \A w \in rows : w <= v) = n
  <2>1. CASE n = 0
    BY <1>1, <2>1
  <2>2. CASE n # 0
    <3>1. 1 \in rows
      BY <1>1, <2>2
    <3>2. (CHOOSE v \in rows : \A w \in rows : w <= v) = n
      BY <1>1, <2>2, HighestVersion
    <3> QED BY <3>1, <3>2
  <2> QED BY <2>1, <2>2
<1>4. \/ mp' = [mp EXCEPT ![m] = "failed"] /\ next' = next
      \/ mp' = [mp EXCEPT ![m] = "loop"] /\ next' = [next EXCEPT ![m] = n + 1]
  BY <1>3 DEF ReadVersion, To
<1>5. MigrateTypes'
  <2>1. n + 1 \in 1..(Latest + 1)
    OBVIOUS
  <2>2. mp' \in [Migrators -> {"down", "start", "loop", "begun", "ran", "recorded", "ok", "failed"}]
    BY <1>4 DEF MigrateTypes
  <2>3. next' \in [Migrators -> 1..(Latest + 1)]
    BY <1>4, <2>1 DEF MigrateTypes
  <2> QED BY <2>2, <2>3 DEF MigrateTypes, ReadVersion
<1>6. mp'[m] = "failed" \/ (mp'[m] = "loop" /\ next'[m] - 1 = n)
  BY <1>4 DEF MigrateTypes
<1>7. TransactionOf(m)'
  BY <1>1, <1>6 DEF TransactionOf, InTransaction, ReadVersion
<1>8. TransactionInv'
  BY <1>4, <1>7, OneMoves DEF MigrateTypes, ReadVersion
<1> QED BY <1>2, <1>5, <1>8

\* The other steps of migrate() up to the commit change neither schema nor versions.
LEMMA TransactionOK ==
    ASSUME MigrateInv, NEW m \in Migrators,
           Migrated(m) \/ Begin(m) \/ RunSql(m) \/ Record(m)
    PROVE  MigrateInv'
<1> USE MigratorAssumption DEF MigrateInv, To, Clean, Rollback
<1>1. rows' = rows /\ schema' = schema /\ next' = next
  BY DEF Migrated, Begin, RunSql, Record
<1>2. VersionInv'
  BY <1>1 DEF VersionInv
<1>3. TransactionOf(m)
  BY DEF TransactionInv
<1>4. mp[m] \in InTransaction => next[m] \in 1..Latest
  BY <1>3 DEF MigrateTypes, TransactionOf
<1>5. MigrateTypes'
  <2>1. dirty' \in [ran : SUBSET (1..Latest), recorded : SUBSET (1..Latest)]
    <3>1. CASE dirty' = dirty \/ dirty' = Clean
      BY <3>1 DEF MigrateTypes
    <3>2. CASE RunSql(m) /\ dirty' # Clean
      <4>1. dirty' = [dirty EXCEPT !.ran = dirty.ran \union {next[m]}] /\ next[m] \in 1..Latest
        BY <1>4, <3>2 DEF RunSql, InTransaction
      <4> QED BY <4>1 DEF MigrateTypes
    <3>3. CASE Record(m) /\ dirty' # Clean
      <4>1. /\ dirty' = [dirty EXCEPT !.recorded = dirty.recorded \union {next[m]}]
            /\ next[m] \in 1..Latest
        BY <1>4, <3>3 DEF Record, InTransaction
      <4> QED BY <4>1 DEF MigrateTypes
    <3> QED BY <3>1, <3>2, <3>3 DEF Migrated, Begin
  <2>2. mp' \in [Migrators -> {"down", "start", "loop", "begun", "ran", "recorded", "ok", "failed"}]
    BY DEF MigrateTypes, Migrated, Begin, RunSql, Record
  <2>3. writer' \in Migrators \union {Nobody}
    BY DEF MigrateTypes, Migrated, Begin, RunSql, Record
  <2> QED BY <1>1, <2>1, <2>2, <2>3 DEF MigrateTypes
<1>6. \A k \in Migrators \ {m} : mp'[k] = mp[k]
  BY DEF MigrateTypes, Migrated, Begin, RunSql, Record
<1>7. writer = m \/ UNCHANGED <<writer, dirty>> \/ (Begin(m) /\ writer = Nobody)
  BY <1>3 DEF TransactionOf, InTransaction, Migrated, Begin, RunSql, Record
<1>8. CASE Migrated(m)
  <2>1. mp'[m] = "ok" /\ next[m] - 1 >= Latest /\ mp[m] = "loop"
    BY <1>8 DEF Migrated, MigrateTypes
  <2>2. TransactionOf(m)'
    BY <1>1, <1>3, <2>1 DEF TransactionOf, InTransaction, MigrateTypes
  <2> QED BY <1>1, <1>2, <1>5, <1>6, <1>8, <2>2, OneMoves DEF Migrated
<1>9. CASE Begin(m)
  <2>1. TransactionOf(m)'
    BY <1>1, <1>3, <1>9 DEF TransactionOf, InTransaction, MigrateTypes, Begin
  <2>2. CASE UNCHANGED <<writer, dirty>>
    BY <1>1, <1>2, <1>5, <1>6, <2>1, <2>2, OneMoves
  <2>3. CASE writer = Nobody
    <3>1. \A k \in Migrators : mp[k] \notin InTransaction
      BY <2>3 DEF TransactionInv, TransactionOf
    <3>2. \A k \in Migrators \ {m} : TransactionOf(k)'
      BY <1>1, <1>6, <3>1 DEF TransactionInv, TransactionOf, InTransaction
    <3> QED BY <1>2, <1>5, <2>1, <3>2 DEF TransactionInv
  <2> QED BY <1>9, <2>2, <2>3 DEF Begin
<1>10. CASE RunSql(m)
  <2>1. TransactionOf(m)'
    BY <1>1, <1>3, <1>10 DEF TransactionOf, InTransaction, MigrateTypes, RunSql
  <2>2. writer = m
    BY <1>3, <1>10 DEF TransactionOf, InTransaction, RunSql
  <2> QED BY <1>1, <1>2, <1>5, <1>6, <2>1, <2>2, OneMoves
<1>11. CASE Record(m)
  <2>1. TransactionOf(m)'
    BY <1>1, <1>3, <1>11 DEF TransactionOf, InTransaction, MigrateTypes, Record
  <2>2. writer = m
    BY <1>3, <1>11 DEF TransactionOf, InTransaction, Record
  <2> QED BY <1>1, <1>2, <1>5, <1>6, <2>1, <2>2, OneMoves
<1> QED BY <1>8, <1>9, <1>10, <1>11

\* A commit records the next version with what its migration did.
LEMMA CommitOK == ASSUME MigrateInv, NEW m \in Migrators, Commit(m) PROVE MigrateInv'
<1> USE MigratorAssumption DEF MigrateInv, To, Clean
<1> DEFINE v == next[m]
<1>1. /\ dirty = [ran |-> {v}, recorded |-> {v}]
      /\ v \notin rows /\ v \in 1..Latest /\ 1..(v - 1) \subseteq rows
      /\ writer = m
  BY DEF Commit, TransactionInv, TransactionOf, InTransaction, MigrateTypes
<1>2. CASE Rollback(m) /\ UNCHANGED <<rows, schema, next>>
  <2>1. VersionInv' /\ MigrateTypes'
    BY <1>2 DEF Rollback, VersionInv, MigrateTypes
  <2>2. TransactionOf(m)' /\ \A k \in Migrators \ {m} : mp'[k] = mp[k]
    BY <1>2 DEF Rollback, TransactionOf, InTransaction, MigrateTypes
  <2> QED BY <1>1, <1>2, <2>1, <2>2, OneMoves
<1>3. CASE ~(Rollback(m) /\ UNCHANGED <<rows, schema, next>>)
  <2>1. /\ rows' = rows \union {v}
        /\ schema' = [w \in 1..Latest |-> schema[w] + IF w = v THEN 1 ELSE 0]
        /\ writer' = Nobody /\ dirty' = Clean
        /\ next' = [next EXCEPT ![m] = v + 1]
        /\ mp' = [mp EXCEPT ![m] = "loop"]
    BY <1>1, <1>3 DEF Commit
  <2>2. PICK n \in 0..Latest : rows = 1..n
    BY DEF VersionInv
  <2>3. v = n + 1
    <3>1. v > n /\ v \in Nat
      BY <1>1, <2>2
    <3>2. v # n + 1 => n + 1 \in 1..(v - 1)
      BY <3>1
    <3> QED BY <1>1, <2>2, <3>1, <3>2
  <2>4. rows' = 1..v
    BY <2>1, <2>2, <2>3
  <2>5. \A w \in 1..Latest : schema'[w] = IF w \in rows' THEN 1 ELSE 0
    BY <1>1, <2>1 DEF VersionInv
  <2>6. VersionInv'
    BY <1>1, <2>4, <2>5 DEF VersionInv
  <2>7. MigrateTypes'
    <3>1. schema' \in [1..Latest -> Nat]
      BY <2>1, <2>5
    <3>2. v + 1 \in 1..(Latest + 1) /\ rows' \subseteq 1..Latest
      BY <1>1, <2>4
    <3> HIDE DEF v
    <3> QED BY <2>1, <3>1, <3>2 DEF MigrateTypes
  <2>8. /\ mp'[m] = "loop" /\ next'[m] = v + 1
        /\ \A k \in Migrators \ {m} : mp'[k] = mp[k] /\ next'[k] = next[k]
    BY <2>1 DEF MigrateTypes
  <2>9. TransactionOf(m)'
    BY <1>1, <2>4, <2>8 DEF TransactionOf, InTransaction
  <2>10. TransactionInv'
    BY <1>1, <2>1, <2>8, <2>9, OneMoves
  <2> QED BY <2>6, <2>7, <2>10
<1> QED BY <1>2, <1>3

\* A process that is killed, or begins, is in no transaction.
LEMMA DiesOrStartsOK ==
    ASSUME MigrateInv, NEW m \in Migrators, MigratorDies(m) \/ MigratorStarts(m)
    PROVE  MigrateInv'
<1> USE MigratorAssumption DEF MigrateInv, MigrateTypes, To, InTransaction, Clean
<1>1. rows' = rows /\ schema' = schema
  BY DEF MigratorDies, MigratorStarts
<1>2. VersionInv'
  BY <1>1 DEF VersionInv
<1>3. CASE MigratorDies(m)
  <2>1. MigrateTypes'
    BY <1>3 DEF MigratorDies
  <2>2. \A k \in Migrators \ {m} : mp'[k] = mp[k] /\ next'[k] = next[k]
    BY <1>3 DEF MigratorDies
  <2>3. TransactionOf(m)'
    BY <1>3 DEF MigratorDies, TransactionOf
  <2>4. writer = m \/ UNCHANGED <<writer, dirty>>
    BY <1>3 DEF MigratorDies
  <2> QED BY <1>1, <1>2, <2>1, <2>2, <2>3, <2>4, OneMoves
<1>4. CASE MigratorStarts(m)
  <2>1. MigrateTypes' /\ TransactionOf(m)'
    BY <1>4 DEF MigratorStarts, TransactionOf
  <2> QED BY <1>1, <1>2, <1>4, <2>1, OneMoves DEF MigratorStarts
<1> QED BY <1>3, <1>4

\* Each step of the bot is a step of the migrations.
LEMMA NextOnMigrations == Next => MigrationStep
<1> SUFFICES ASSUME Next PROVE MigrationStep
  OBVIOUS
<1> USE FrontAssumption DEF MigrationStep, migrateVars
<1>1. CASE Start \/ Killed
  BY <1>1 DEF Start, Killed, Exit, MigratorStarts
<1>2. CASE MigrateBorrows \/ BotMigrates \/ MigrateEnds
  BY <1>2 DEF MigrateBorrows, BotMigrates, MigrateEnds, Exit
<1>3. CASE SeedEnds \/ AuthorityEnds
  BY <1>3 DEF SeedEnds, AuthorityEnds, Exit
<1>4. CASE (\E c \in Clients : RepositoryStep(c)) \/ (\E h \in Handlers : Update(h) \/ Handle(h))
  BY <1>4 DEF RepositoryStep, Update, Handle
<1>5. CASE CliStarts \/ CliStep \/ CliEnds
  BY <1>5 DEF CliStarts, CliStep, CliEnds, MigratorStarts
<1> QED BY <1>1, <1>2, <1>3, <1>4, <1>5 DEF Next

LEMMA MigrateInvStep == MigrateInv /\ [Next]_vars => MigrateInv'
<1> SUFFICES ASSUME MigrateInv, [Next]_vars PROVE MigrateInv'
  OBVIOUS
<1>1. MigrationStep
  BY NextOnMigrations DEF vars, MigrationStep
<1>2. CASE UNCHANGED migrateVars
  BY <1>2 DEF migrateVars, MigrateInv, MigrateTypes, VersionInv, TransactionInv, TransactionOf,
              InTransaction
<1>3. ASSUME NEW m \in Migrators, MigrateStep(m) PROVE MigrateInv'
  BY <1>3, ReadVersionOK, TransactionOK, CommitOK DEF MigrateStep
<1> QED BY <1>1, <1>2, <1>3, DiesOrStartsOK DEF MigrationStep

LEMMA MigrateInvHolds == Spec => []MigrateInv
<1>1. Init => MigrateInv
  <2> SUFFICES ASSUME Init PROVE MigrateInv
    OBVIOUS
  <2>1. VersionInv
    <3>1. rows = 1..0 /\ 0 \in 0..Latest
      BY MigratorAssumption DEF Init, MigrateInit
    <3> QED BY <3>1 DEF Init, MigrateInit, VersionInv
  <2>2. TransactionInv
    BY DEF Init, MigrateInit, TransactionInv, TransactionOf, InTransaction
  <2>3. MigrateTypes
    BY MigratorAssumption DEF Init, MigrateInit, MigrateTypes, Clean
  <2> QED BY <2>1, <2>2, <2>3 DEF MigrateInv
<1> QED BY <1>1, MigrateInvStep, PTL DEF Spec

\* SchemaMigrator: whoever migrates at the same time and wherever processes are
\* killed, the schema has each recorded migration once, in order, for any number
\* of migrations; and a migrate() that succeeded leaves the latest version.
THEOREM SchemaIsItsVersion == Spec => []SchemaMatchesVersion
<1>1. MigrateInv => SchemaMatchesVersion
  <2> SUFFICES ASSUME MigrateInv PROVE SchemaMatchesVersion
    OBVIOUS
  <2>1. PICK n \in 0..Latest : rows = 1..n
    BY DEF MigrateInv, VersionInv
  <2>2. \A v \in rows : \A w \in 1..v : w \in rows
    BY <2>1, MigratorAssumption
  <2>3. \A m \in Migrators : mp[m] = "ok" => Latest = 0 \/ Latest \in rows
    BY MigratorAssumption DEF MigrateInv, TransactionInv, TransactionOf
  <2> QED BY <2>2, <2>3 DEF SchemaMatchesVersion, MigrateInv, VersionInv
<1> QED BY <1>1, MigrateInvHolds, PTL

-----------------------------------------------------------------------------
(***************************************************************************)
(* Settings.                                                               *)
(***************************************************************************)
BotRecord == OrDefault(bot, DefaultBot)

CallRecords ==
    [what : Whats, at : {"idle", "load", "save", "ok", "error"},
     rec : UserRecords \union BotRecords \union {None}]

\* What a call on the settings has in its hands: a save that nobody overtook
\* saves the stored record changed by its own mutator.
CallHolds(c) ==
    /\ call[c].what = "nothing" => call[c].at = "idle"
    /\ call[c].what \in {"authority", "query"} => call[c].at # "save"
    /\ call[c].what = "seed" => call[c].rec \in Configs
    /\ call[c].at = "save" /\ call[c].what \in OfUser =>
          /\ call[c].rec \in UserRecords
          /\ c \in stale \/ call[c].rec = Mutate(call[c].what, OrDefault(user, DefaultUser))
    /\ call[c].at = "save" /\ call[c].what = "botview" => call[c].rec = BotRecord
    /\ call[c].at = "ok" /\ call[c].what = "seed" => BotRecord \in Configs
    /\ call[c].at = "ok" /\ call[c].what = "authority" => call[c].rec = BotRecord

CallInv == \A c \in Clients : CallHolds(c)

\* Who calls what at which stage of the bot.
StageInv ==
    /\ \A h \in Handlers :
          /\ call[h].what \in OfUser \union {"nothing", "botview", "query"}
          /\ stage # "serving" => call[h] = NoCall
    /\ stage \in {"down", "migrating", "serving"} => call[Main] = NoCall
    /\ stage = "seeding" => call[Main].what = "seed"
    /\ stage = "authority" =>
          /\ call[Main].what = "authority"
          /\ ~unseeded => BotRecord \in Configs
    /\ call[Main].what \in {"seed", "authority"} => call[Main].at # "idle"

Stages == {"down", "migrating", "seeding", "authority", "serving"}

SettingsInv ==
    /\ SettingsTypes
    /\ stage \in Stages
    /\ ChangesKept
    /\ CallInv
    /\ StageInv
    /\ OwnerKnown

LEMMA MutateUser ==
    ASSUME NEW what, NEW rec \in UserRecords
    PROVE  Mutate(what, rec) \in UserRecords
<1>1. NextDestination(rec.destination) \in Destinations
  BY DEF UserRecords, Destinations, NextDestination
<1>2. [rec EXCEPT !.destination = NextDestination(@)] \in UserRecords
  BY <1>1 DEF UserRecords
<1>3. [rec EXCEPT !.document = ~@] \in UserRecords
  BY DEF UserRecords
<1> QED BY <1>2, <1>3 DEF Mutate

LEMMA StoredRecord ==
    ASSUME SettingsTypes, NEW what
    PROVE  /\ OrDefault(user, DefaultUser) \in UserRecords
           /\ BotRecord \in BotRecords
           /\ Stored(what) = IF what \in OfUser THEN OrDefault(user, DefaultUser) ELSE BotRecord
<1>1. DefaultUser \in UserRecords
  BY DEF DefaultUser, UserRecords, Destinations
<1>2. DefaultBot \in BotRecords
  BY DEF BotRecords
<1> QED BY <1>1, <1>2 DEF Stored, OrDefault, SettingsTypes, BotRecord

LEMMA OwnerInConfigs ==
    ASSUME NEW rec \in BotRecords, rec.owner # "none"
    PROVE  rec \in Configs
BY DEF BotRecords, DefaultBot

\* A process begins or ends, with nothing in memory.
LEMMA FreshSettings ==
    ASSUME SettingsInv, Fresh, stage' \in {"down", "migrating"}
    PROVE  SettingsInv'
<1> USE FrontAssumption
<1>1. /\ user' = user /\ bot' = bot /\ want' = want /\ stale' = {}
      /\ \A c \in Clients : call'[c] = NoCall
  BY DEF Fresh
<1>2. NoCall \in CallRecords /\ NoCall.what = "nothing" /\ NoCall.at = "idle"
  BY DEF NoCall, CallRecords, Whats
<1>3. SettingsTypes'
  BY <1>1, <1>2 DEF SettingsInv, SettingsTypes, CallRecords, Fresh
<1>4. CallInv'
  BY <1>1, <1>2 DEF CallInv, CallHolds, OfUser
<1>5. StageInv'
  BY <1>1, <1>2 DEF StageInv
<1> QED BY <1>1, <1>3, <1>4, <1>5 DEF SettingsInv, ChangesKept, OwnerKnown, Stages

\* A call that begins or is taken, while the rows stay as they are.
LEMMA OneCall ==
    ASSUME SettingsInv, NEW c \in Clients, NEW k \in CallRecords,
           call' = [call EXCEPT ![c] = k], UNCHANGED <<user, bot, want, stale>>,
           k.at # "save" /\ k.at # "ok",
           k.what = "nothing" => k.at = "idle",
           k.what = "seed" => k.rec \in Configs
    PROVE  SettingsTypes' /\ CallInv' /\ ChangesKept'
<1>1. call'[c] = k /\ \A d \in Clients \ {c} : call'[d] = call[d]
  BY DEF SettingsInv, SettingsTypes
<1>2. SettingsTypes'
  BY DEF SettingsInv, SettingsTypes, CallRecords
<1>3. ASSUME NEW d \in Clients PROVE CallHolds(d)'
  <2>1. CASE d = c
    BY <1>1, <2>1 DEF CallHolds
  <2>2. CASE d # c
    <3>1. CallHolds(d) /\ call'[d] = call[d]
      BY <1>1, <2>2 DEF SettingsInv, CallInv
    <3>2. BotRecord' = BotRecord
      BY DEF BotRecord, OrDefault
    <3> QED BY <3>1, <3>2 DEF CallHolds, OrDefault
  <2> QED BY <2>1, <2>2
<1> QED BY <1>2, <1>3 DEF SettingsInv, CallInv, ChangesKept

LEMMA StageSettings ==
    ASSUME SettingsInv, SeedEnds \/ AuthorityEnds \/ MigrateEnds
    PROVE  SettingsInv'
<1> USE FrontAssumption
<1>0. NoCall \in CallRecords /\ NoCall.what = "nothing" /\ NoCall.at = "idle"
  BY DEF NoCall, CallRecords, Whats
<1>1. CASE MigrateEnds /\ mp[Bot] = "ok"
  <2>1. PICK config \in Configs : StartSeed(Main, config)
    BY <1>1 DEF MigrateEnds
  <2> DEFINE k == [what |-> "seed", at |-> "load", rec |-> config]
  <2>2. k \in CallRecords /\ k.what = "seed" /\ k.at = "load" /\ k.rec = config
    BY DEF CallRecords, Whats, BotRecords
  <2>3. /\ call' = [call EXCEPT ![Main] = k] /\ UNCHANGED <<user, bot, want, stale>>
        /\ stage' = "seeding" /\ stage = "migrating"
    BY <1>1, <2>1 DEF MigrateEnds, StartSeed
  <2> HIDE DEF k
  <2>4. SettingsTypes' /\ CallInv' /\ ChangesKept'
    BY <2>2, <2>3, OneCall
  <2>5. StageInv'
    BY <2>2, <2>3 DEF SettingsInv, SettingsTypes, StageInv
  <2> QED BY <2>3, <2>4, <2>5 DEF SettingsInv, Stages, OwnerKnown
<1>2. CASE (MigrateEnds /\ mp[Bot] # "ok") \/ (AuthorityEnds /\ call[Main].at # "ok")
  BY <1>2, FreshSettings DEF MigrateEnds, AuthorityEnds, Exit
<1>3. CASE SeedEnds
  <2> DEFINE k == [what |-> "authority", at |-> "load", rec |-> None]
  <2>1. k \in CallRecords /\ k.what = "authority" /\ k.at = "load"
    BY DEF CallRecords, Whats
  <2>2. /\ call' = [call EXCEPT ![Main] = k] /\ UNCHANGED <<user, bot, want, stale>>
        /\ stage' = "authority" /\ stage = "seeding"
        /\ unseeded' = (call[Main].at = "error") /\ ~Calling(Main)
    BY <1>3 DEF SeedEnds, StartCall
  <2> HIDE DEF k
  <2>3. SettingsTypes' /\ CallInv' /\ ChangesKept'
    BY <2>1, <2>2, OneCall
  <2>4. CallHolds(Main) /\ call[Main].what = "seed" /\ call[Main].at # "idle"
        /\ call[Main].at \in {"idle", "load", "save", "ok", "error"}
    BY <2>2 DEF SettingsInv, StageInv, CallInv, SettingsTypes
  <2>5. ~unseeded' => BotRecord' \in Configs
    BY <2>2, <2>4 DEF CallHolds, Calling, BotRecord, OrDefault
  <2>6. StageInv'
    BY <2>1, <2>2, <2>5 DEF SettingsInv, SettingsTypes, StageInv
  <2> QED BY <2>2, <2>3, <2>6 DEF SettingsInv, Stages, OwnerKnown
<1>4. CASE AuthorityEnds /\ call[Main].at = "ok"
  <2>1. /\ call' = [call EXCEPT ![Main] = NoCall] /\ UNCHANGED <<user, bot, want, stale, unseeded>>
        /\ stage' = "serving" /\ stage = "authority" /\ auth' = call[Main].rec
    BY <1>4 DEF AuthorityEnds, Taken
  <2>2. SettingsTypes' /\ CallInv' /\ ChangesKept'
    BY <1>0, <2>1, OneCall
  <2>3. StageInv'
    BY <2>1 DEF SettingsInv, SettingsTypes, StageInv, NoCall
  <2>4. auth' = BotRecord /\ (~unseeded => BotRecord \in Configs)
    BY <1>4, <2>1 DEF SettingsInv, StageInv, CallInv, CallHolds
  <2>5. OwnerKnown'
    BY <2>1, <2>4 DEF OwnerKnown, BotRecord, OrDefault
  <2> QED BY <2>1, <2>2, <2>3, <2>5 DEF SettingsInv, Stages
<1> QED BY <1>1, <1>2, <1>3, <1>4

\* get() or load(): what is loaded is what is stored.
LEMMA LoadSettings ==
    ASSUME SettingsInv, NEW c \in Clients, Load(c), UNCHANGED <<auth, stage, unseeded>>
    PROVE  SettingsInv'
<1> USE FrontAssumption
<1> DEFINE what == call[c].what
           rec == Stored(what)
<1>1. /\ call[c] \in CallRecords /\ call[c].at = "load" /\ CallHolds(c)
      /\ UNCHANGED <<user, bot, want>> /\ stale' = stale \ {c}
  BY DEF Load, SettingsInv, SettingsTypes, CallInv, CallRecords
<1>2. /\ rec = IF what \in OfUser THEN OrDefault(user, DefaultUser) ELSE BotRecord
      /\ OrDefault(user, DefaultUser) \in UserRecords /\ BotRecord \in BotRecords
  BY StoredRecord DEF SettingsInv
<1>3. PICK k \in CallRecords :
         /\ call' = [call EXCEPT ![c] = k] /\ k.what = what
         /\ \/ k.at = "error" /\ k.rec = call[c].rec
            \/ /\ k.at = IF OnlyReads(what, rec) THEN "ok" ELSE "save"
               /\ k.rec = Changed(what, call[c].rec, rec)
  <2>1. CASE call' = [call EXCEPT ![c].at = "error"]
    <3> DEFINE k == [call[c] EXCEPT !.at = "error"]
    <3>1. k \in CallRecords /\ k.at = "error" /\ k.rec = call[c].rec /\ k.what = what
      BY <1>1 DEF CallRecords
    <3>2. call' = [call EXCEPT ![c] = k]
      BY <2>1 DEF SettingsInv, SettingsTypes
    <3> HIDE DEF k
    <3> QED BY <3>1, <3>2
  <2>2. CASE call' # [call EXCEPT ![c].at = "error"]
    <3> DEFINE a == IF OnlyReads(what, rec) THEN "ok" ELSE "save"
               r == Changed(what, call[c].rec, rec)
               k == [[call[c] EXCEPT !.rec = r] EXCEPT !.at = a]
    <3>1. call' = [call EXCEPT ![c].rec = r, ![c].at = a]
      BY <2>2 DEF Load
    <3>2. call' = [call EXCEPT ![c] = k]
      <4> HIDE DEF r, a
      <4> QED BY <3>1 DEF SettingsInv, SettingsTypes
    <3>3. r \in UserRecords \union BotRecords \union {None}
      <4>1. what \in OfUser => Mutate(what, rec) \in UserRecords
        BY <1>2, MutateUser
      <4>2. what \notin OfUser => Mutate(what, rec) = rec
        BY DEF Mutate, OfUser
      <4>3. what = "seed" => r \in BotRecords
        BY <1>1 DEF CallHolds, Changed, BotRecords
      <4> HIDE DEF rec, what
      <4> QED BY <1>2, <4>1, <4>2, <4>3 DEF Changed
    <3>4. k \in CallRecords /\ k.what = what /\ k.at = a /\ k.rec = r
      <4> HIDE DEF r
      <4> QED BY <1>1, <3>3 DEF CallRecords
    <3> HIDE DEF k
    <3> QED BY <3>2, <3>4
  <2> QED BY <2>1, <2>2 DEF Load
<1>4. call'[c] = k /\ \A d \in Clients \ {c} : call'[d] = call[d]
  BY <1>3 DEF SettingsInv, SettingsTypes
<1>5. BotRecord' = BotRecord /\ OrDefault(user, DefaultUser)' = OrDefault(user, DefaultUser)
  BY <1>1 DEF BotRecord, OrDefault
<1>6. SettingsTypes'
  BY <1>1, <1>3 DEF SettingsInv, SettingsTypes, CallRecords
<1>7. CallHolds(c)'
  <2>1. CASE k.at = "error"
    BY <1>1, <1>3, <1>4, <2>1 DEF CallHolds
  <2>2. CASE k.at # "error"
    <3>1. /\ k.at = IF OnlyReads(what, rec) THEN "ok" ELSE "save"
          /\ k.rec = Changed(what, call[c].rec, rec)
      BY <1>3, <2>2
    <3>2. CASE what \in OfUser
      <4>1. k.rec = Mutate(what, OrDefault(user, DefaultUser)) /\ k.rec \in UserRecords
        BY <1>2, <3>1, <3>2, MutateUser DEF Changed, OfUser
      <4> QED BY <1>3, <1>4, <1>5, <3>2, <4>1 DEF CallHolds, OfUser
    <3>3. CASE what = "seed"
      <4>1. k.rec \in Configs
        BY <1>1, <3>1, <3>3 DEF Changed, CallHolds
      <4>2. k.at = "ok" => BotRecord \in Configs
        BY <1>2, <3>1, <3>3, OwnerInConfigs DEF OnlyReads, OfUser
      <4> QED BY <1>3, <1>4, <1>5, <3>3, <4>1, <4>2 DEF CallHolds, OfUser
    <3>4. CASE what \in {"authority", "botview"}
      <4>1. k.rec = BotRecord /\ (what = "authority" => k.at = "ok")
        BY <1>2, <3>1, <3>4 DEF Changed, Mutate, OfUser, OnlyReads
      <4> QED BY <1>3, <1>4, <1>5, <3>4, <4>1 DEF CallHolds, OfUser
    <3>5. CASE what \in {"query", "nothing"}
      BY <1>1, <1>3, <1>4, <3>1, <3>5 DEF CallHolds, OfUser, OnlyReads
    <3> QED BY <1>1, <3>2, <3>3, <3>4, <3>5 DEF CallRecords, Whats, OfUser
  <2> QED BY <2>1, <2>2
<1>8. CallInv'
  BY <1>1, <1>4, <1>5, <1>7 DEF SettingsInv, CallInv, CallHolds
<1>9. StageInv'
  BY <1>1, <1>3, <1>4, <1>5 DEF SettingsInv, StageInv, NoCall
<1>10. OwnerKnown' /\ ChangesKept'
  BY <1>1, <1>5 DEF SettingsInv, OwnerKnown, ChangesKept, BotRecord
<1> QED BY <1>6, <1>8, <1>9, <1>10 DEF SettingsInv

\* A save that failed, or one of the settings of a user: the record it replaces is
\* the one it loaded, unless it was overtaken.
LEMMA SaveUser ==
    ASSUME SettingsInv, NEW c \in Clients, NEW locked, Save(c, locked),
           UNCHANGED <<auth, stage, unseeded>>,
           call[c].what \in OfUser \/ call' = [call EXCEPT ![c].at = "error"]
    PROVE  SettingsInv'
<1> USE FrontAssumption
<1>1. /\ call[c] \in CallRecords /\ call[c].at = "save" /\ CallHolds(c)
      /\ bot' = bot
  BY DEF Save, SettingsInv, SettingsTypes, CallInv, CallRecords, StoreUser
<1>2. PICK place \in {"ok", "error"} : call' = [call EXCEPT ![c].at = place]
  BY DEF Save
<1>3. /\ call'[c].what = call[c].what /\ call'[c].rec = call[c].rec /\ call'[c].at = place
      /\ \A d \in Clients \ {c} : call'[d] = call[d]
      /\ call' \in [Clients -> CallRecords]
  BY <1>1, <1>2 DEF SettingsInv, SettingsTypes, CallRecords
<1>4. \/ place = "error" /\ UNCHANGED <<user, want>> /\ stale' = stale \ {c}
      \/ call[c].what \in OfUser /\ place = "ok" /\ StoreUser(c)
  <2>1. \/ call' = [call EXCEPT ![c].at = "error"] /\ UNCHANGED <<user, want>> /\ stale' = stale \ {c}
        \/ call' = [call EXCEPT ![c].at = "ok"] /\ (call[c].what \in OfUser => StoreUser(c))
    BY DEF Save
  <2>2. \A q \in {"ok", "error"} : call' = [call EXCEPT ![c].at = q] => q = place
    BY <1>1, <1>2, <1>3 DEF SettingsInv, SettingsTypes, CallRecords
  <2>3. call[c].what \in OfUser \/ place = "error"
    BY <2>2
  <2> QED BY <2>1, <2>2, <2>3
<1>5. BotRecord' = BotRecord
  BY <1>1 DEF BotRecord, OrDefault
<1>6. /\ user' \in UserRecords \union {None} /\ want' = user'
      /\ stale' \subseteq Clients
  <2>1. CASE UNCHANGED <<user, want>> /\ stale' = stale \ {c}
    BY <2>1 DEF SettingsInv, SettingsTypes, ChangesKept
  <2>2. CASE call[c].what \in OfUser /\ StoreUser(c)
    BY <1>1, <2>2 DEF StoreUser, SettingsInv, ChangesKept, CallHolds
  <2> QED BY <1>4, <2>1, <2>2
<1>7. SettingsTypes'
  BY <1>1, <1>3, <1>6 DEF SettingsInv, SettingsTypes, CallRecords
<1>8. CallHolds(c)'
  BY <1>1, <1>3, <1>4, <1>5 DEF CallHolds, OfUser
<1>9. ASSUME NEW d \in Clients, d # c PROVE CallHolds(d)'
  <2>1. CallHolds(d) /\ call'[d] = call[d]
    BY <1>3, <1>9 DEF SettingsInv, CallInv
  <2>2. CASE UNCHANGED <<user, want>> /\ stale' = stale \ {c}
    <3>1. OrDefault(user, DefaultUser)' = OrDefault(user, DefaultUser)
      BY <2>2 DEF OrDefault
    <3> QED BY <1>5, <1>9, <2>1, <2>2, <3>1 DEF CallHolds
  <2>3. CASE StoreUser(c)
    <3>1. call[d].at = "save" /\ call[d].what \in OfUser => d \in stale'
      BY <1>9, <2>3 DEF StoreUser
    <3> QED BY <1>5, <2>1, <3>1 DEF CallHolds
  <2> QED BY <1>4, <2>2, <2>3
<1>10. StageInv'
  BY <1>1, <1>3, <1>5 DEF SettingsInv, StageInv, NoCall
<1>11. OwnerKnown' /\ ChangesKept'
  BY <1>5, <1>6 DEF SettingsInv, OwnerKnown, ChangesKept, BotRecord
<1> QED BY <1>7, <1>8, <1>9, <1>10, <1>11 DEF SettingsInv, CallInv

\* A save of the settings of the bot changes them only when main() seeds them.
LEMMA SaveBot ==
    ASSUME SettingsInv, NEW c \in Clients, NEW locked, Save(c, locked),
           UNCHANGED <<auth, stage, unseeded>>,
           call[c].what \notin OfUser, call' # [call EXCEPT ![c].at = "error"]
    PROVE  SettingsInv'
<1> USE FrontAssumption
<1>1. /\ call[c] \in CallRecords /\ call[c].at = "save" /\ CallHolds(c)
      /\ bot' = call[c].rec /\ UNCHANGED <<user, want, stale>>
      /\ call' = [call EXCEPT ![c].at = "ok"]
  BY DEF Save, SettingsInv, SettingsTypes, CallInv, CallRecords, StoreBot
<1>2. /\ call'[c].what = call[c].what /\ call'[c].rec = call[c].rec /\ call'[c].at = "ok"
      /\ \A d \in Clients \ {c} : call'[d] = call[d]
      /\ call' \in [Clients -> CallRecords]
  BY <1>1 DEF SettingsInv, SettingsTypes, CallRecords
<1>3. OrDefault(user, DefaultUser)' = OrDefault(user, DefaultUser)
  BY <1>1 DEF OrDefault
<1>4. BotRecord \in BotRecords
  BY StoredRecord DEF SettingsInv
<1>5. CASE call[c].what = "seed"
  <2>1. call[c].rec \in Configs
    BY <1>1, <1>5 DEF CallHolds
  <2>2. BotRecord' \in Configs
    BY <1>1, <2>1, ConfigAssumption DEF BotRecord, OrDefault
  <2>3. c = Main /\ stage = "seeding"
    BY <1>5 DEF SettingsInv, StageInv, OfUser, NoCall, Stages
  <2>4. \A d \in Clients \ {c} : call'[d] = NoCall
    BY <1>2, <2>3 DEF SettingsInv, StageInv
  <2>5. CallInv'
    BY <1>2, <1>5, <2>1, <2>2, <2>4 DEF CallInv, CallHolds, OfUser, NoCall
  <2>6. SettingsTypes'
    BY <1>1, <1>2, <2>1 DEF SettingsInv, SettingsTypes, CallRecords, BotRecords
  <2>7. StageInv'
    BY <1>2, <2>2, <2>3 DEF SettingsInv, StageInv, NoCall
  <2> QED BY <1>1, <2>3, <2>5, <2>6, <2>7 DEF SettingsInv, ChangesKept, OwnerKnown
<1>6. CASE call[c].what = "botview"
  <2>1. call[c].rec = BotRecord
    BY <1>1, <1>6 DEF CallHolds
  <2>2. BotRecord' = BotRecord
    BY <1>1, <2>1 DEF BotRecord, OrDefault
  <2>3. CallHolds(c)'
    BY <1>2, <1>6 DEF CallHolds, OfUser
  <2>4. CallInv'
    BY <1>1, <1>2, <1>3, <2>2, <2>3 DEF SettingsInv, CallInv, CallHolds
  <2>5. SettingsTypes'
    BY <1>1, <1>2, <1>4, <2>1 DEF SettingsInv, SettingsTypes, CallRecords
  <2>6. StageInv'
    BY <1>1, <1>2, <2>2 DEF SettingsInv, StageInv, NoCall
  <2>7. OwnerKnown'
    BY <2>2 DEF SettingsInv, OwnerKnown, BotRecord
  <2> QED BY <1>1, <2>4, <2>5, <2>6, <2>7 DEF SettingsInv, ChangesKept
<1> QED BY <1>1, <1>5, <1>6 DEF CallRecords, Whats, OfUser, CallHolds

\* A handler begins a call, while the bot serves, or takes the result of one.
LEMMA HandlerCalls ==
    ASSUME SettingsInv, NEW h \in Handlers, NEW k \in CallRecords,
           call' = [call EXCEPT ![h] = k],
           UNCHANGED <<user, bot, want, stale, auth, stage, unseeded>>,
           \/ k = NoCall
           \/ k.at = "load" /\ k.what \in OfUser \union {"botview", "query"} /\ stage = "serving"
    PROVE  SettingsInv'
<1> USE FrontAssumption
<1>0. /\ h \in Clients /\ k.at \notin {"save", "ok"}
      /\ (k.what = "nothing" => k.at = "idle") /\ k.what # "seed"
  BY DEF NoCall, OfUser
<1>1. SettingsTypes' /\ CallInv' /\ ChangesKept'
  BY <1>0, OneCall
<1>2. call'[h] = k /\ \A d \in Clients \ {h} : call'[d] = call[d]
  BY DEF SettingsInv, SettingsTypes
<1>3. BotRecord' = BotRecord
  BY DEF BotRecord, OrDefault
<1>4. StageInv'
  BY <1>2, <1>3 DEF SettingsInv, StageInv, NoCall
<1>5. OwnerKnown'
  BY <1>3 DEF SettingsInv, OwnerKnown, BotRecord
<1> QED BY <1>1, <1>4, <1>5 DEF SettingsInv

LEMMA SameSettings ==
    ASSUME SettingsInv, UNCHANGED <<settingsVars, auth, stage, unseeded>>
    PROVE  SettingsInv'
<1>1. BotRecord' = BotRecord /\ OrDefault(user, DefaultUser)' = OrDefault(user, DefaultUser)
  BY DEF BotRecord, OrDefault, settingsVars
<1>2. SettingsTypes' /\ ChangesKept'
  BY DEF SettingsInv, SettingsTypes, settingsVars, ChangesKept
<1>3. CallInv' /\ StageInv'
  BY <1>1 DEF SettingsInv, CallInv, CallHolds, StageInv, settingsVars
<1>4. OwnerKnown'
  BY <1>1 DEF SettingsInv, OwnerKnown, settingsVars, BotRecord
<1> QED BY <1>2, <1>3, <1>4 DEF SettingsInv

LEMMA UpdateSettings == ASSUME SettingsInv, NEW h \in Handlers, Update(h) PROVE SettingsInv'
<1>1. PICK u \in Updates[h] : Chatter(h, u) \/ Refuse(h, u) \/ Accept(h, u) \/ Tap(h, u)
  BY DEF Update
<1>2. stage = "serving" /\ UNCHANGED <<auth, stage, unseeded>>
  BY <1>1 DEF Update, Chatter, Refuse, Accept, Tap, Receives
<1>3. CASE UNCHANGED settingsVars
  BY <1>2, <1>3, SameSettings
<1>4. ASSUME NEW what \in OfUser \union {"botview", "query"}, StartCall(h, what),
             UNCHANGED <<user, bot, want, stale>>
      PROVE  SettingsInv'
  <2> DEFINE k == [what |-> what, at |-> "load", rec |-> None]
  <2>1. k \in CallRecords /\ k.at = "load" /\ k.what = what
    BY DEF CallRecords, Whats, OfUser
  <2>2. call' = [call EXCEPT ![h] = k]
    BY <1>4 DEF StartCall
  <2> HIDE DEF k
  <2> QED BY <1>2, <1>4, <2>1, <2>2, HandlerCalls
<1>5. CASE Chatter(h, u) \/ Refuse(h, u)
  BY <1>3, <1>5 DEF Chatter, Refuse
<1>6. CASE Accept(h, u)
  <2>1. CallOf(u.name) \in OfUser \union {"botview", "query"}
    BY DEF CallOf, OfUser
  <2> QED BY <1>3, <1>4, <1>6, <2>1 DEF Accept, settingsVars
<1>7. CASE Tap(h, u)
  <2>1. FirstTap(u) = "call" => u.name \in {"cycle", "toggle"}
    BY DEF FirstTap
  <2> QED BY <1>3, <1>4, <1>7, <2>1 DEF Tap, settingsVars, OfUser
<1> QED BY <1>1, <1>5, <1>6, <1>7

LEMMA HandleSettings == ASSUME SettingsInv, NEW h \in Handlers, Handle(h) PROVE SettingsInv'
<1>1. UNCHANGED <<auth, stage, unseeded>>
  BY DEF Handle, HandlerStep, Notice, RunUseCase, CommandHas, Found, Backends, Send,
         EditPing, QueryHas, Show, Ack, Quiet
<1>2. CASE CommandHas(h) \/ QueryHas(h)
  <2>1. NoCall \in CallRecords
    BY DEF NoCall, CallRecords, Whats
  <2> QED BY <1>1, <1>2, <2>1, HandlerCalls DEF CommandHas, QueryHas, Taken
<1>3. CASE UNCHANGED settingsVars
  BY <1>1, <1>3, SameSettings
<1> QED BY <1>2, <1>3 DEF Handle, HandlerStep, Notice, RunUseCase, Found, Backends, Send,
                          EditPing, Show, Ack, Quiet

LEMMA SettingsInvStep == SettingsInv /\ [Next]_vars => SettingsInv'
<1> SUFFICES ASSUME SettingsInv, [Next]_vars PROVE SettingsInv'
  OBVIOUS
<1>1. CASE UNCHANGED vars
  BY <1>1, SameSettings DEF vars, settingsVars, dispatchVars
<1>2. CASE Start \/ Killed
  BY <1>2, FreshSettings DEF Start, Killed, Exit
<1>3. CASE MigrateBorrows \/ BotMigrates \/ CliStarts \/ CliStep \/ CliEnds
  BY <1>3, SameSettings DEF MigrateBorrows, BotMigrates, CliStarts, CliStep, CliEnds, dispatchVars
<1>4. CASE MigrateEnds \/ SeedEnds \/ AuthorityEnds
  BY <1>4, StageSettings
<1>5. ASSUME NEW c \in Clients, RepositoryStep(c) PROVE SettingsInv'
  <2>1. UNCHANGED <<auth, stage, unseeded>>
    BY <1>5 DEF RepositoryStep, dispatchVars
  <2>2. CASE Borrow(c)
    BY <2>1, <2>2, SameSettings DEF Borrow
  <2>3. CASE Load(c)
    BY <2>1, <2>3, LoadSettings
  <2>4. CASE Save(c, writer # Nobody)
    BY <2>1, <2>4, SaveUser, SaveBot
  <2> QED BY <1>5, <2>2, <2>3, <2>4 DEF RepositoryStep
<1> QED BY <1>1, <1>2, <1>3, <1>4, <1>5, UpdateSettings, HandleSettings DEF Next

LEMMA SettingsInvHolds == Spec => []SettingsInv
<1>1. Init => SettingsInv
  <2> SUFFICES ASSUME Init PROVE SettingsInv
    OBVIOUS
  <2> USE FrontAssumption DEF Init, SettingsInit
  <2>1. NoCall \in CallRecords /\ NoCall.what = "nothing" /\ NoCall.at = "idle"
    BY DEF NoCall, CallRecords, Whats
  <2>2. SettingsTypes
    BY <2>1 DEF SettingsTypes, CallRecords
  <2>3. CallInv
    BY <2>1 DEF CallInv, CallHolds, OfUser
  <2>4. StageInv
    BY <2>1 DEF StageInv
  <2> QED BY <2>2, <2>3, <2>4 DEF SettingsInv, ChangesKept, OwnerKnown, Stages
<1> QED BY <1>1, SettingsInvStep, PTL DEF Spec

\* UpdateUserSettings: what is stored is what was saved, change by change, for any
\* number of handlers that load and save through any pool of connections; a change
\* is lost only to a save whose load came before it.
THEOREM SettingsKept == Spec => []ChangesKept
<1>1. SettingsInv => ChangesKept
  BY DEF SettingsInv
<1> QED BY <1>1, SettingsInvHolds, PTL

\* build_authority(): a bot that serves goes by the settings in its database, with
\* the owner its configuration named, for any sequence of starts and kills.
THEOREM OwnerIsKnown == Spec => []OwnerKnown
<1>1. SettingsInv => OwnerKnown
  BY DEF SettingsInv
<1> QED BY <1>1, SettingsInvHolds, PTL

-----------------------------------------------------------------------------
(***************************************************************************)
(* Handlers.                                                               *)
(***************************************************************************)

\* Nothing has been said or done yet.
Untouched(h) == result[h] = "ok" /\ h \notin ran /\ answers[h] = 0

CommandInv(h) ==
    /\ at[h] \in {"notice", "run", "call", "found", "backends", "send", "edit", "done"}
    /\ at[h] = "notice" => result[h] = "refused" /\ h \notin ran /\ answers[h] = 0
    /\ at[h] \in {"run", "call", "found", "backends", "send"} => Untouched(h)
    /\ at[h] = "edit" => result[h] = "ok" /\ h \notin ran /\ answers[h] = 1
    /\ at[h] \in {"run", "call", "found", "backends", "send", "edit"} =>
          /\ ~Refused(job[h])
          /\ (Resolved(job[h].name) \in Delegated) = (at[h] = "run")
    /\ at[h] = "done" =>
          /\ result[h] = "ok" =>
                /\ ~Refused(job[h])
                /\ (h \in ran) = (Resolved(job[h].name) \in Delegated)
                /\ answers[h] = IF h \in ran THEN 0 ELSE 1
          /\ result[h] = "refused" => h \notin ran /\ answers[h] <= 1

TapInv(h) ==
    /\ at[h] \in {"run", "call", "edit", "delete", "ack", "done"}
    /\ answers[h] = IF at[h] = "done" THEN 1 ELSE 0
    /\ at[h] = "edit" => h \in ran
    /\ at[h] = "delete" => FirstTap(job[h]) = "delete"
    /\ at[h] \in {"ack", "done"} /\ result[h] = "ok" /\ FirstTap(job[h]) \in {"call", "run"}
          => h \in ran

\* Of an update that is not at hand yet, or was dropped, nothing is said.
HandlerOf(h) ==
    /\ stage # "serving" => at[h] = "idle"
    /\ job[h].kind = "none" => at[h] \in {"idle", "done"}
    /\ at[h] # "idle" /\ job[h].kind = "message" => CommandInv(h)
    /\ at[h] # "idle" /\ job[h].kind = "query" => TapInv(h)

HandlerInv == DispatchTypes /\ \A h \in Handlers : HandlerOf(h)

LEMMA NoUpdateIsNone == NoUpdate.kind = "none"
BY DEF NoUpdate

LEMMA KindOfJob ==
    ASSUME DispatchTypes, NEW h \in Handlers
    PROVE  job[h].kind \in {"none", "message", "query"}
<1>1. job[h] = NoUpdate \/ \E g \in Handlers : job[h] \in Updates[g]
  BY DEF DispatchTypes
<1> QED BY <1>1, DispatcherAssumption, NoUpdateIsNone

\* A step of one handler leaves the others where they are.
LEMMA OneHandler ==
    ASSUME HandlerInv, NEW h \in Handlers, UNCHANGED <<auth, stage>>,
           DispatchTypes', HandlerOf(h)',
           \A g \in Handlers \ {h} :
              /\ job'[g] = job[g] /\ at'[g] = at[g] /\ answers'[g] = answers[g]
              /\ result'[g] = result[g] /\ (g \in ran') = (g \in ran)
    PROVE  HandlerInv'
<1> SUFFICES ASSUME NEW g \in Handlers, g # h PROVE HandlerOf(g)'
  BY DEF HandlerInv
<1>1. HandlerOf(g) /\ stage' = stage /\ auth' = auth
  BY DEF HandlerInv
<1>2. Refused(job[g])' = Refused(job[g])
  BY <1>1 DEF Refused, CanRun, LevelOf
<1>3. CommandInv(g)' = CommandInv(g)
  BY <1>2 DEF CommandInv, Untouched
<1>4. TapInv(g)' = TapInv(g)
  BY DEF TapInv
<1> QED BY <1>1, <1>3, <1>4 DEF HandlerOf

LEMMA FirstStepOf ==
    ASSUME NEW name \in Registered
    PROVE  /\ FirstStep(name) \in {"run", "call", "backends", "send"}
           /\ (FirstStep(name) = "run") = (name \in Delegated)
BY DEF FirstStep, Registered, Delegated, AnyoneMay, UserMay, AdminMay, OwnerMay

LEMMA UpdateHandlers == ASSUME HandlerInv, NEW h \in Handlers, Update(h) PROVE HandlerInv'
<1>1. PICK u \in Updates[h] : Chatter(h, u) \/ Refuse(h, u) \/ Accept(h, u) \/ Tap(h, u)
  BY DEF Update
<1>2. stage = "serving" /\ stage' = stage
  BY DEF Update
<1> DEFINE v == IF Chatter(h, u) THEN NoUpdate ELSE u
<1>3. v \in (UNION {Updates[g] : g \in Handlers}) \union {NoUpdate}
  OBVIOUS
<1>4. PICK place \in {"done", "notice", "run", "call", "backends", "send", "delete", "ack"},
           r \in {"ok", "refused"} :
         /\ at' = [at EXCEPT ![h] = place] /\ result' = [result EXCEPT ![h] = r]
         /\ \/ place = "done" /\ r = "ok" /\ Chatter(h, u)
            \/ place = "notice" /\ r = "refused" /\ u.kind = "message"
            \/ /\ place = FirstStep(Resolved(u.name)) /\ r = "ok"
               /\ u.kind = "message" /\ ~Refused(u)
               /\ place \in {"run", "call", "backends", "send"}
               /\ (Resolved(u.name) \in Delegated) = (place = "run")
            \/ place = FirstTap(u) /\ r = "ok" /\ u.kind = "query"
  <2>1. CASE Chatter(h, u)
    BY <2>1 DEF Chatter, Ends, Goes
  <2>2. CASE Refuse(h, u)
    BY <2>2 DEF Refuse, Goes
  <2>3. CASE Accept(h, u)
    <3>1. Resolved(u.name) \in Registered
      BY <2>3 DEF Accept, Refused
    <3> QED BY <2>3, <3>1, FirstStepOf DEF Accept, Goes
  <2>4. CASE Tap(h, u)
    <3>1. FirstTap(u) \in {"delete", "ack", "call", "run"}
      BY DEF FirstTap
    <3> QED BY <2>4, <3>1 DEF Tap, Goes
  <2> QED BY <1>1, <2>1, <2>2, <2>3, <2>4
<1>5. /\ job' = [job EXCEPT ![h] = v] /\ answers' = [answers EXCEPT ![h] = 0]
      /\ ran' = ran \ {h} /\ auth' = auth
  BY <1>1 DEF Chatter, Refuse, Accept, Tap, Receives
<1>6. DispatchTypes'
  BY <1>3, <1>4, <1>5 DEF HandlerInv, DispatchTypes
<1>7. /\ job'[h] = v /\ answers'[h] = 0 /\ h \notin ran' /\ at'[h] = place /\ result'[h] = r
  BY <1>4, <1>5 DEF HandlerInv, DispatchTypes
<1>8. Refused(u)' = Refused(u)
  BY <1>5 DEF Refused, CanRun, LevelOf
<1>9. HandlerOf(h)'
  <2>1. CASE Chatter(h, u)
    <3>1. at'[h] = "done"
      BY <2>1 DEF Chatter, Ends, Goes, HandlerInv, DispatchTypes
    <3>2. job'[h] = NoUpdate
      BY <1>7, <2>1
    <3>3. job'[h].kind = "none"
      BY <3>2, NoUpdateIsNone
    <3> QED BY <1>2, <3>1, <3>3 DEF HandlerOf
  <2>2. CASE ~Chatter(h, u) /\ u.kind = "message"
    <3>1. CommandInv(h)'
      BY <1>4, <1>7, <1>8, <2>2 DEF CommandInv, Untouched
    <3> QED BY <1>2, <1>7, <2>2, <3>1 DEF HandlerOf
  <2>3. CASE ~Chatter(h, u) /\ u.kind = "query"
    <3>1. place = FirstTap(u) /\ place \in {"delete", "ack", "call", "run"}
      BY <1>4, <2>3 DEF FirstTap
    <3>2. TapInv(h)'
      BY <1>7, <2>3, <3>1 DEF TapInv
    <3> QED BY <1>2, <1>7, <2>3, <3>2 DEF HandlerOf
  <2> QED BY <1>1, <2>1, <2>2, <2>3 DEF Chatter, Refuse, Accept, Tap
<1>10. \A g \in Handlers \ {h} :
          /\ job'[g] = job[g] /\ at'[g] = at[g] /\ answers'[g] = answers[g]
          /\ result'[g] = result[g] /\ (g \in ran') = (g \in ran)
  BY <1>4, <1>5 DEF HandlerInv, DispatchTypes
<1> QED BY <1>2, <1>5, <1>6, <1>9, <1>10, OneHandler

\* A handler goes to a place with so many messages said and a result; did holds
\* the handler if the step did what was asked.
Moves(h, place, n, r, did) ==
    /\ at' = [at EXCEPT ![h] = place]
    /\ answers' = [answers EXCEPT ![h] = n]
    /\ result' = [result EXCEPT ![h] = r]
    /\ ran' = ran \union did

Places == {"notice", "found", "send", "edit", "ack", "done"}
Results == {"ok", "refused", "error"}

LEMMA MovesTo ==
    ASSUME DispatchTypes, NEW h \in Handlers, NEW place, NEW n, NEW r, NEW did,
           Moves(h, place, n, r, did)
    PROVE  /\ at'[h] = place /\ answers'[h] = n /\ result'[h] = r
           /\ (h \in ran') = (h \in ran \/ h \in did)
BY DEF DispatchTypes, Moves

LEMMA HandlerMoves ==
    ASSUME HandlerInv, NEW h \in Handlers, stage = "serving", UNCHANGED <<auth, job, stage>>,
           NEW place \in Places, NEW n \in 0..1, NEW r \in Results, NEW did \in SUBSET {h},
           Moves(h, place, n, r, did),
           job[h].kind # "none",
           job[h].kind = "message" => CommandInv(h)',
           job[h].kind = "query" => TapInv(h)'
    PROVE  HandlerInv'
<1>1. DispatchTypes'
  BY DEF HandlerInv, DispatchTypes, Moves, Places, Results
<1>2. HandlerOf(h)'
  BY DEF HandlerOf
<1>3. \A g \in Handlers \ {h} :
          /\ job'[g] = job[g] /\ at'[g] = at[g] /\ answers'[g] = answers[g]
          /\ result'[g] = result[g] /\ (g \in ran') = (g \in ran)
  BY DEF HandlerInv, DispatchTypes, Moves
<1> QED BY <1>1, <1>2, <1>3, OneHandler

LEMMA HandleHandlers == ASSUME HandlerInv, NEW h \in Handlers, Handle(h) PROVE HandlerInv'
<1>1. UNCHANGED <<auth, job, stage>>
  BY DEF Handle, HandlerStep, Notice, RunUseCase, CommandHas, Found, Backends, Send,
         EditPing, QueryHas, Show, Ack, Quiet
<1>2. /\ HandlerOf(h) /\ DispatchTypes
      /\ job[h].kind \in {"none", "message", "query"}
  BY KindOfJob DEF HandlerInv
<1>3. at[h] \notin {"idle", "done"}
  BY DEF Handle, HandlerStep, Notice, RunUseCase, CommandHas, Found, Backends, Send,
         EditPing, QueryHas, Show, Ack
<1>4. /\ stage = "serving" /\ job[h].kind # "none"
      /\ job[h].kind = "message" => CommandInv(h)
      /\ job[h].kind = "query" => TapInv(h)
  BY <1>2, <1>3 DEF HandlerOf
<1>5. Refused(job[h])' = Refused(job[h]) /\ job'[h] = job[h]
  BY <1>1 DEF Refused, CanRun, LevelOf
<1>6. /\ answers = [answers EXCEPT ![h] = answers[h]]
      /\ result = [result EXCEPT ![h] = result[h]]
      /\ result[h] \in Results /\ ran \union {} = ran
  BY <1>2 DEF DispatchTypes, Results
<1> USE DEF Places, Results
<1>7. CASE Notice(h)
  <2>1. at[h] = "notice" /\ job[h].kind = "message" /\ CommandInv(h)
    BY <1>4, <1>2, <1>7 DEF Notice, TapInv
  <2>2. PICK n \in 0..1 : Moves(h, "done", n, "refused", {})
    BY <1>6, <1>7, <2>1 DEF Moves, Notice, Says, Goes, CommandInv
  <2>3. at'[h] = "done" /\ result'[h] = "refused" /\ answers'[h] = n /\ h \notin ran'
    BY <1>2, MovesTo, <2>1, <2>2 DEF CommandInv
  <2>4. CommandInv(h)'
    BY <2>3 DEF CommandInv
  <2> QED BY <1>1, <1>4, <2>1, <2>2, <2>4, HandlerMoves
<1>8. CASE RunUseCase(h) /\ job[h].kind = "message"
  <2>1. at[h] = "run" /\ CommandInv(h)
    BY <1>4, <1>8 DEF RunUseCase
  <2>2. \/ Moves(h, "done", 0, "ok", {h})
        \/ Moves(h, "done", 0, "error", {})
    BY <1>6, <1>8, <2>1 DEF Moves, RunUseCase, Goes, CommandInv, Untouched
  <2>3. /\ at'[h] = "done" /\ answers'[h] = 0
        /\ \/ result'[h] = "ok" /\ h \in ran'
           \/ result'[h] = "error"
    BY <1>2, MovesTo, <2>2
  <2>4. CommandInv(h)'
    BY <1>5, <2>1, <2>3 DEF CommandInv
  <2> QED BY <1>1, <1>4, <1>8, <2>2, <2>4, HandlerMoves
<1>9. CASE RunUseCase(h) /\ job[h].kind = "query"
  <2>1. at[h] = "run" /\ TapInv(h)
    BY <1>4, <1>9 DEF RunUseCase
  <2>2. \/ Moves(h, "ack", 0, result[h], {h})
        \/ Moves(h, "ack", 0, "error", {})
    BY <1>6, <1>9, <2>1 DEF Moves, RunUseCase, Goes, TapInv
  <2>3. /\ at'[h] = "ack" /\ answers'[h] = 0
        /\ h \in ran' \/ result'[h] = "error"
    BY <1>6, <1>2, MovesTo, <2>2
  <2>4. TapInv(h)'
    BY <2>3 DEF TapInv
  <2> QED BY <1>1, <1>4, <1>6, <1>9, <2>2, <2>4, HandlerMoves
<1>10. CASE CommandHas(h)
  <2>1. at[h] = "call" /\ CommandInv(h) /\ job[h].kind = "message"
    BY <1>4, <1>10 DEF CommandHas
  <2>2. \/ \E place \in {"found", "send"} : Moves(h, place, 0, "ok", {})
        \/ Moves(h, "done", 0, "error", {})
    BY <1>6, <1>10, <2>1 DEF Moves, CommandHas, Goes, Ends, CommandInv, Untouched
  <2>3. /\ answers'[h] = 0
        /\ \/ at'[h] \in {"found", "send"} /\ result'[h] = "ok" /\ h \notin ran'
           \/ at'[h] = "done" /\ result'[h] = "error"
    BY <1>2, MovesTo, <2>1, <2>2 DEF CommandInv, Untouched
  <2>4. CommandInv(h)'
    BY <1>5, <2>1, <2>3 DEF CommandInv, Untouched
  <2> QED BY <1>1, <1>4, <2>1, <2>2, <2>4, HandlerMoves
<1>11. CASE Found(h)
  <2>1. at[h] = "found" /\ CommandInv(h) /\ job[h].kind = "message"
    BY <1>4, <1>2, <1>11 DEF Found, TapInv
  <2>2. \/ Moves(h, "send", 0, "ok", {})
        \/ Moves(h, "notice", 0, "refused", {})
        \/ Moves(h, "done", 0, "error", {})
    BY <1>6, <1>11, <2>1 DEF Moves, Found, Goes, Ends, CommandInv, Untouched
  <2>3. /\ answers'[h] = 0 /\ h \notin ran'
        /\ \/ at'[h] = "send" /\ result'[h] = "ok"
           \/ at'[h] = "notice" /\ result'[h] = "refused"
           \/ at'[h] = "done" /\ result'[h] = "error"
    BY <1>2, MovesTo, <2>1, <2>2 DEF CommandInv, Untouched
  <2>4. CommandInv(h)'
    BY <1>5, <2>1, <2>3 DEF CommandInv, Untouched
  <2> QED BY <1>1, <1>4, <2>1, <2>2, <2>4, HandlerMoves
<1>12. CASE Backends(h)
  <2>1. at[h] = "backends" /\ CommandInv(h) /\ job[h].kind = "message"
    BY <1>4, <1>2, <1>12 DEF Backends, TapInv
  <2>2. Moves(h, "send", 0, "ok", {})
    BY <1>6, <1>12, <2>1 DEF Moves, Backends, Goes, CommandInv, Untouched
  <2>3. at'[h] = "send" /\ answers'[h] = 0 /\ result'[h] = "ok" /\ h \notin ran'
    BY <1>2, MovesTo, <2>1, <2>2 DEF CommandInv, Untouched
  <2>4. CommandInv(h)'
    BY <1>5, <2>1, <2>3 DEF CommandInv, Untouched
  <2> QED BY <1>1, <1>4, <2>1, <2>2, <2>4, HandlerMoves
<1>13. CASE Send(h)
  <2>1. at[h] = "send" /\ CommandInv(h) /\ job[h].kind = "message"
    BY <1>4, <1>2, <1>13 DEF Send, TapInv
  <2>2. \/ \E place \in {"edit", "done"} : Moves(h, place, 1, "ok", {})
        \/ Moves(h, "done", 0, "error", {})
    BY <1>6, <1>13, <2>1 DEF Moves, Send, Says, Goes, Ends, CommandInv, Untouched
  <2>3. /\ h \notin ran'
        /\ \/ at'[h] \in {"edit", "done"} /\ answers'[h] = 1 /\ result'[h] = "ok"
           \/ at'[h] = "done" /\ result'[h] = "error"
    BY <1>2, MovesTo, <2>1, <2>2 DEF CommandInv, Untouched
  <2>4. CommandInv(h)'
    BY <1>5, <2>1, <2>3 DEF CommandInv, Untouched
  <2> QED BY <1>1, <1>4, <2>1, <2>2, <2>4, HandlerMoves
<1>14. CASE EditPing(h)
  <2>1. at[h] = "edit" /\ CommandInv(h) /\ job[h].kind = "message"
    BY <1>4, <1>14 DEF EditPing
  <2>2. \E r \in {"ok", "error"} : Moves(h, "done", 1, r, {})
    BY <1>6, <1>14, <2>1 DEF Moves, EditPing, Goes, Ends, CommandInv
  <2>3. at'[h] = "done" /\ answers'[h] = 1 /\ result'[h] \in {"ok", "error"} /\ h \notin ran'
    BY <1>2, MovesTo, <2>1, <2>2 DEF CommandInv
  <2>4. CommandInv(h)'
    BY <1>5, <2>1, <2>3 DEF CommandInv
  <2> QED BY <1>1, <1>4, <2>1, <2>2, <2>4, HandlerMoves
<1>15. CASE QueryHas(h)
  <2>1. at[h] = "call" /\ TapInv(h) /\ job[h].kind = "query"
    BY <1>4, <1>15 DEF QueryHas
  <2>2. \/ \E place \in {"edit", "ack"} : Moves(h, place, 0, result[h], {h})
        \/ Moves(h, "ack", 0, "error", {})
    BY <1>6, <1>15, <2>1 DEF Moves, QueryHas, Tapped, Goes, TapInv
  <2>3. /\ answers'[h] = 0
        /\ \/ at'[h] \in {"edit", "ack"} /\ h \in ran'
           \/ at'[h] = "ack" /\ result'[h] = "error"
    BY <1>6, <1>2, MovesTo, <2>2
  <2>4. TapInv(h)'
    BY <2>3 DEF TapInv
  <2> QED BY <1>1, <1>4, <1>6, <2>1, <2>2, <2>4, HandlerMoves
<1>16. CASE Show(h)
  <2>1. at[h] \in {"edit", "delete"} /\ TapInv(h) /\ job[h].kind = "query"
    BY <1>4, <1>16 DEF Show
  <2>2. \E r \in {result[h], "error"} : Moves(h, "ack", 0, r, {})
    BY <1>6, <1>16, <2>1 DEF Moves, Show, Tapped, Goes, TapInv
  <2>3. at'[h] = "ack" /\ answers'[h] = 0 /\ (h \in ran') = (h \in ran)
    BY <1>6, <1>2, MovesTo, <2>2
  <2>4. TapInv(h)'
    BY <1>5, <2>1, <2>3 DEF TapInv
  <2> QED BY <1>1, <1>4, <1>6, <2>1, <2>2, <2>4, HandlerMoves
<1>17. CASE Ack(h)
  <2>1. at[h] = "ack" /\ TapInv(h) /\ job[h].kind = "query"
    BY <1>4, <1>2, <1>17 DEF Ack, CommandInv
  <2>a. PICK r \in {result[h], "error"} : Ends(h, r)
    BY <1>17 DEF Ack
  <2>b. answers' = [answers EXCEPT ![h] = 1] /\ ran' = ran \union {}
    BY <1>6, <1>17, <2>1 DEF Ack, Says, TapInv
  <2>2. Moves(h, "done", 1, r, {})
    BY <2>a, <2>b DEF Moves, Ends, Goes
  <2>3. at'[h] = "done" /\ answers'[h] = 1 /\ (h \in ran') = (h \in ran) /\ result'[h] = r
    BY <1>6, <1>2, MovesTo, <2>2
  <2>4. TapInv(h)'
    BY <1>5, <2>1, <2>3 DEF TapInv
  <2> QED BY <1>1, <1>4, <1>6, <2>1, <2>2, <2>4, HandlerMoves
<1> QED BY <1>2, <1>4, <1>7, <1>8, <1>9, <1>10, <1>11, <1>12, <1>13, <1>14, <1>15, <1>16, <1>17
        DEF Handle, HandlerStep

\* A process that begins or ends has no handlers.
LEMMA FreshHandlers == ASSUME NoHandlers, auth' = DefaultBot PROVE HandlerInv'
<1>1. DispatchTypes'
  BY DEF NoHandlers, DispatchTypes, BotRecords
<1>2. \A h \in Handlers : at'[h] = "idle"
  BY DEF NoHandlers
<1> QED BY <1>1, <1>2 DEF HandlerInv, HandlerOf

LEMMA SameHandlers ==
    ASSUME HandlerInv, UNCHANGED <<job, at, answers, ran, result>>, auth' \in BotRecords,
           \/ UNCHANGED <<auth, stage>>
           \/ stage # "serving"
    PROVE  HandlerInv'
<1>1. DispatchTypes'
  BY DEF HandlerInv, DispatchTypes
<1>2. CASE UNCHANGED <<auth, stage>>
  BY <1>1, <1>2 DEF HandlerInv, HandlerOf, CommandInv, Untouched, TapInv,
                    Refused, CanRun, LevelOf
<1>3. CASE stage # "serving"
  BY <1>1, <1>3 DEF HandlerInv, HandlerOf
<1> QED BY <1>2, <1>3

LEMMA HandlerInvStep == HandlerInv /\ SettingsInv /\ [Next]_vars => HandlerInv'
<1> SUFFICES ASSUME HandlerInv, SettingsInv, [Next]_vars PROVE HandlerInv'
  OBVIOUS
<1>0. auth \in BotRecords
  BY DEF HandlerInv, DispatchTypes
<1>1. CASE UNCHANGED vars
  BY <1>0, <1>1, SameHandlers DEF vars, dispatchVars
<1>2. CASE Start \/ Exit
  BY <1>2, FreshHandlers DEF Start, Exit, Fresh
<1>3. CASE MigrateBorrows \/ BotMigrates \/ CliStarts \/ CliStep \/ CliEnds
  BY <1>0, <1>3, SameHandlers
     DEF MigrateBorrows, BotMigrates, CliStarts, CliStep, CliEnds, dispatchVars
<1>4. CASE (MigrateEnds \/ SeedEnds) /\ ~Exit
  BY <1>0, <1>4, SameHandlers DEF MigrateEnds, SeedEnds, dispatchVars
<1>5. CASE AuthorityEnds /\ ~Exit
  <2>1. auth' \in BotRecords
    BY <1>5, FrontAssumption, StoredRecord
       DEF AuthorityEnds, SettingsInv, StageInv, CallInv, CallHolds
  <2> QED BY <1>5, <2>1, SameHandlers DEF AuthorityEnds
<1>6. ASSUME NEW c \in Clients, RepositoryStep(c) PROVE HandlerInv'
  BY <1>0, <1>6, SameHandlers DEF RepositoryStep, dispatchVars
<1> QED BY <1>1, <1>2, <1>3, <1>4, <1>5, <1>6, UpdateHandlers, HandleHandlers DEF Next, Killed

LEMMA HandlerInvHolds == Spec => []HandlerInv
<1>1. Init => HandlerInv
  BY DEF Init, HandlerInv, HandlerOf, DispatchTypes, BotRecords
<1> QED BY <1>1, HandlerInvStep, SettingsInvHolds, PTL DEF Spec

\* CommandDispatcher::dispatch(): for any commands, senders, chats and settings, and
\* any number of handlers, a command that reports success was permitted and was
\* answered once; a refused one ran nothing.
THEOREM CommandsAnswered == Spec => []Answered
<1>1. HandlerInv => Answered
  BY DEF HandlerInv, HandlerOf, Answered, Over, CommandInv
<1> QED BY <1>1, HandlerInvHolds, PTL

\* CallbackDispatcher::dispatch(): for any taps and any number of handlers, a tap is
\* answered once on every path, and as done only when it was done.
THEOREM TapsAcked == Spec => []QueryAcked
<1>1. HandlerInv => QueryAcked
  BY DEF HandlerInv, HandlerOf, QueryAcked, Over, TapInv
<1> QED BY <1>1, HandlerInvHolds, PTL

\* Every variable of the bot keeps its type, for every value of the constants.
THEOREM FrontTypes == Spec => []TypeOK
<1> DEFINE Flag == unseeded \in BOOLEAN
<1>1. PoolInv /\ MigrateInv /\ SettingsInv /\ HandlerInv /\ Flag => TypeOK
  BY DEF PoolInv, MigrateInv, SettingsInv, HandlerInv, TypeOK, Stages
<1>2. Init => Flag
  BY DEF Init
<1>3. Flag /\ [Next]_vars => Flag'
  BY DEF vars, Next, Start, Killed, Exit, Fresh, MigrateBorrows, BotMigrates, MigrateEnds,
         SeedEnds, AuthorityEnds, RepositoryStep, Update, Handle, CliStarts, CliStep, CliEnds
<1> HIDE DEF Flag
<1> QED BY <1>1, <1>2, <1>3, PoolInvHolds, MigrateInvHolds, SettingsInvHolds,
           HandlerInvHolds, PTL DEF Spec
=============================================================================
