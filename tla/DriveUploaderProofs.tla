------------------------- MODULE DriveUploaderProofs -------------------------
(***************************************************************************)
(* NoSilentGap, OkMeansWhole and SessionOutlivesPuts for any number of     *)
(* workers, items, retries and tokens.  live_workers is an exact count of  *)
(* the workers that have not left, which makes the join a join; an item    *)
(* that was claimed is stored, in somebody's hands, or somebody recorded   *)
(* an error; and whoever stores the last chunk stays until it has the id.  *)
(***************************************************************************)
EXTENDS DriveUploader, FiniteSetTheorems, TLAPS

MainPlaces   == {"begin", "walk", "spawn", "join", "joined", "done"}
Asking       == {"bearer", "minting", "minted", "request", "answered"}
Busy         == Asking \union {"uploading", "backoff"}
Active       == Busy \union {"new", "top", "claim", "leaving"}
WorkerPlaces == Active \union {"unborn", "gone"}

Gone == {w \in Workers : pc[w] = "gone"}

\* The pool has not been set up.
NotBegun ==
    /\ Spawned = {}
    /\ live = 0
    /\ next = 1
    /\ pc[Main] \notin {"spawn", "join", "joined"}

\* The pool has been set up: live_workers counts the workers that have not left,
\* the ones still to be spawned included.
Counted ==
    /\ live + Cardinality(Gone) = Parallelism(listed)
    /\ Cardinality(Spawned) <= Parallelism(listed)
    /\ pc[Main] = "spawn" \/ Cardinality(Spawned) = Parallelism(listed)
    /\ mode # "multipart"
    /\ pc[Main] \notin {"begin", "walk"}
    /\ pc[Main] \in Asking => closing

PoolInv == NotBegun \/ Counted

\* Main goes on to delete the session only when the pool is empty: a cancelled
\* Main, which may overtake its workers, never gets as far as the request.
MainInv ==
    /\ pc[Main] \in Asking \union MainPlaces
    /\ mode = "directory" => ~cancelled /\ pc[Main] \notin Asking
    /\ mode # "directory" => listed = Items /\ pc[Main] # "walk"
    /\ closing => mode = "resumable" /\ pc[Main] \in Asking \union {"done"}
    /\ pc[Main] = "joined" /\ ~cancelled => live = 0
    /\ closing /\ pc[Main] \in Asking =>
         live = 0 \/ (pc[Main] = "bearer" /\ cancelled)
    /\ session = "deleted" => closing /\ live = 0
    /\ result # "none" => pc[Main] = "done"

\* A success that Main has seen is one at Google.
SentInv ==
    /\ mode = "multipart" /\ reply[Main] = "ok" => stored = Whole
    /\ fileId => stored = Whole
    /\ OkMeansWhole

\* A worker has an item exactly while it works on it, a good reply is about a
\* stored chunk, and a worker leaves when there is an error, when it throws or when
\* there is nothing to claim.
WorkerInv(w) ==
    /\ pc[w] \in WorkerPlaces
    /\ item[w] # 0 <=> pc[w] \in Busy
    /\ pc[w] = "uploading" => mode = "directory"
    /\ pc[w] \in Busy \ {"uploading"} => mode = "resumable"
    /\ reply[w] # "none" => pc[w] = "answered"
    /\ reply[w] \in {"ok", "more"} => item[w] \in stored
    /\ reply[w] = "ok" => stored = Whole
    /\ pc[w] \in {"leaving", "gone"} => abort \/ threw \/ next > listed

\* What was claimed is stored or in somebody's hands, unless there is an error or
\* somebody threw.
CoverInv ==
    ~abort /\ ~threw => \A i \in 1..listed :
        i < next => i \in stored \/ \E w \in Workers : item[w] = i

\* When all chunks are stored, the file id has arrived or is still to be had by
\* a worker, and that worker is not about to leave with a 308.
FinalInv ==
    ~abort /\ ~threw /\ mode = "resumable" /\ stored = Whole =>
        fileId \/ \E w \in Workers : item[w] # 0 /\ reply[w] # "more"

DriveInv ==
    /\ TypeOK
    /\ PoolInv
    /\ MainInv
    /\ SentInv
    /\ \A w \in Workers : WorkerInv(w)
    /\ CoverInv
    /\ FinalInv

-----------------------------------------------------------------------------
(***************************************************************************)
(* Arithmetic and the count.                                               *)
(***************************************************************************)

\* The clamp gives at least one worker and at most all of them.
LEMMA ParallelismRange ==
    ASSUME NEW n \in Nat
    PROVE  Parallelism(n) \in 1..Cardinality(Workers)
<1>1. Cardinality(Workers) \in Nat /\ Cardinality(Workers) # 0
  BY FS_CardinalityType, FS_EmptySet, DriveAssumption
<1> QED BY <1>1 DEF Parallelism

\* The plan is never empty; an item in somebody's hands is of the plan.
LEMMA WholeFacts ==
    /\ Whole # {}
    /\ \A i \in 0..Items : i # 0 => i \in Whole
    /\ \A n \in 0..Items : n \in Nat /\ 1..n \subseteq Whole
    /\ Items \in 0..Items
  BY DriveAssumption DEF Whole

\* Workers that have left were spawned.
LEMMA GoneFacts ==
    ASSUME DriveInv
    PROVE  /\ IsFiniteSet(Spawned) /\ IsFiniteSet(Gone)
           /\ Cardinality(Spawned) \in Nat /\ Cardinality(Gone) \in Nat
           /\ Gone \subseteq Spawned
           /\ Cardinality(Gone) <= Cardinality(Spawned)
           /\ Cardinality(Gone) = Cardinality(Spawned) => Gone = Spawned
<1>1. Gone \subseteq Spawned /\ Spawned \subseteq Workers
  BY DEF Gone, Spawned
<1>2. IsFiniteSet(Spawned) /\ IsFiniteSet(Gone)
  BY <1>1, FS_Subset, DriveAssumption
<1>3. Cardinality(Gone) <= Cardinality(Spawned)
  BY <1>1, <1>2, FS_Subset
<1>4. Cardinality(Gone) = Cardinality(Spawned) => Gone = Spawned
  BY <1>1, <1>2, FS_Subset
<1> QED BY <1>1, <1>2, <1>3, <1>4, FS_CardinalityType

\* An empty pool has no worker left: ExitGuard counts exactly.
LEMMA EmptyPool ==
    ASSUME DriveInv, live = 0
    PROVE  \A w \in Workers : pc[w] \in {"unborn", "gone"}
<1>1. CASE NotBegun
  BY <1>1 DEF NotBegun, Spawned
<1>2. CASE Counted
  <2>1. listed \in Nat /\ Parallelism(listed) \in Nat
    BY ParallelismRange, WholeFacts DEF DriveInv, TypeOK
  <2>2. Gone = Spawned
    BY <1>2, <2>1, GoneFacts DEF Counted
  <2> QED BY <2>2 DEF Gone, Spawned
<1> QED BY <1>1, <1>2 DEF DriveInv, PoolInv

\* While a worker is about, the pool is set up and live_workers positive.
LEMMA ActivePool ==
    ASSUME DriveInv, NEW w \in Workers, pc[w] \in Active
    PROVE  Counted /\ live # 0 /\ w \in Spawned /\ w \notin Gone
<1>1. pc[w] \notin {"unborn", "gone"}
  BY DEF Active, Busy, Asking
<1>2. live # 0
  BY <1>1, EmptyPool
<1>3. w \in Spawned /\ w \notin Gone
  BY <1>1 DEF Spawned, Gone
<1> QED BY <1>2, <1>3 DEF DriveInv, PoolInv, NotBegun

-----------------------------------------------------------------------------
(***************************************************************************)
(* What a step of a worker w leaves alone.                                 *)
(***************************************************************************)

\* Nothing else is said of the other workers or of Main, errors and stored items
\* stay, and next_index only grows.
Elsewhere(w) ==
    /\ \A v \in Workers \ {w} :
          pc'[v] = pc[v] /\ item'[v] = item[v] /\ reply'[v] = reply[v]
    /\ mode' = mode
    /\ listed' = listed
    /\ stored \subseteq stored' /\ stored' \subseteq Whole
    /\ abort => abort'
    /\ threw => threw'
    /\ next' \in Nat /\ next <= next'

\* w moves within the pool.
Moves(w) ==
    /\ pc[w] \in Active
    /\ pc'[w] \in Active
    /\ \A p \in Procs \ {w} : pc'[p] = pc[p]
    /\ reply'[Main] = reply[Main]
    /\ live' = live
    /\ UNCHANGED <<mode, closing, cancelled, result, session>>

\* Every step of a worker but its last moves it within the pool.
LEMMA WorkerMoves ==
    ASSUME TypeOK, NEW w \in Workers, WorkerStep(w), ~Exit(w), WorkerInv(w)
    PROVE  Moves(w) /\ Elsewhere(w)
<1> USE DriveAssumption DEF Moves, Elsewhere, Active, Busy, Asking, Procs, TypeOK,
        Go, workVars, poolVars, mainVars, googleVars, tokenVars
<1>1. w # Main /\ w \in Procs
  BY DEF Procs
<1>2. item[w] # 0 => item[w] \in Whole
  BY WholeFacts
<1>3. CASE WorkerStarts(w)
  BY <1>1, <1>3 DEF WorkerStarts, Bail, Leave
<1>4. CASE CheckAbort(w)
  BY <1>1, <1>4 DEF CheckAbort
<1>5. CASE Claim(w)
  BY <1>1, <1>5 DEF Claim
<1>6. CASE FileUploaded(w)
  <2>1. item[w] \in Whole
    BY <1>2, <1>6 DEF FileUploaded, WorkerInv
  <2> QED BY <1>1, <1>6, <2>1 DEF FileUploaded, Bail, Leave
<1>7. CASE AcquireBearer(w)
  BY <1>1, <1>7 DEF AcquireBearer
<1>8. CASE MintBearer(w)
  BY <1>1, <1>8 DEF MintBearer
<1>9. CASE MintFails(w)
  BY <1>1, <1>9 DEF MintFails, Bail, Leave
<1>10. CASE StoreBearer(w)
  BY <1>1, <1>10 DEF StoreBearer
<1>11. CASE PutChunk(w)
  <2>1. item[w] \in Whole
    BY <1>2, <1>11 DEF PutChunk, WorkerInv
  <2> QED BY <1>1, <1>11, <2>1 DEF PutChunk, Answered
<1>12. CASE Retry(w)
  BY <1>1, <1>12 DEF Retry, Bail, Leave
<1>13. CASE BackoffEnds(w)
  BY <1>1, <1>13 DEF BackoffEnds, Leave
<1>14. CASE RefreshBearer(w)
  BY <1>1, <1>14 DEF RefreshBearer
<1>15. CASE ChunkDone(w)
  BY <1>1, <1>15 DEF ChunkDone, Bail, Leave
<1>16. CASE WorkerThrows(w)
  <2>1. stored' \subseteq Whole /\ stored \subseteq stored'
    <3>1. pc[w] = "uploading" => item[w] \in Whole
      BY <1>2 DEF WorkerInv
    <3> QED BY <1>16, <3>1 DEF WorkerThrows
  <2>2. next' \in Nat /\ next <= next'
    BY <1>16 DEF WorkerThrows
  <2> QED BY <1>1, <1>16, <2>1, <2>2 DEF WorkerThrows, Leave
<1> QED BY <1>3, <1>4, <1>5, <1>6, <1>7, <1>8, <1>9, <1>10, <1>11, <1>12, <1>13,
           <1>14, <1>15, <1>16 DEF WorkerStep

\* Another worker's invariant survives.
LEMMA OtherWorker ==
    ASSUME TypeOK, NEW w \in Workers, NEW v \in Workers \ {w}, WorkerInv(v),
           Elsewhere(w)
    PROVE  WorkerInv(v)'
<1>1. next \in Nat /\ listed \in Nat
  BY WholeFacts DEF TypeOK
<1>2. pc'[v] = pc[v] /\ item'[v] = item[v] /\ reply'[v] = reply[v]
  BY DEF Elsewhere
<1>3. stored = Whole => stored' = Whole
  BY DEF Elsewhere
<1>4. abort \/ threw \/ next > listed => abort' \/ threw' \/ next' > listed'
  BY <1>1 DEF Elsewhere
<1> QED BY <1>2, <1>3, <1>4 DEF WorkerInv, Elsewhere

\* The pool and Main see nothing of a worker that moves within the pool.
LEMMA MovesKeepsPool ==
    ASSUME DriveInv, NEW w \in Workers, Moves(w), Elsewhere(w)
    PROVE  PoolInv' /\ MainInv'
<1>1. Counted /\ w \in Spawned /\ w \notin Gone
  BY ActivePool DEF Moves
<1>2. Main \in Procs \ {w} /\ Workers \subseteq Procs
  BY DriveAssumption DEF Procs
<1>3. pc'[Main] = pc[Main]
  BY <1>2 DEF Moves
<1>4. pc'[w] \notin {"unborn", "gone"}
  BY DEF Moves, Active, Busy, Asking
<1>5. Spawned' = Spawned /\ Gone' = Gone
  BY <1>1, <1>2, <1>4 DEF Moves, Spawned, Gone
<1>6. listed' = listed /\ live' = live /\ mode' = mode /\ closing' = closing
  BY DEF Moves, Elsewhere
<1>7. Counted'
  BY <1>1, <1>3, <1>5, <1>6 DEF Counted, Parallelism, Elsewhere
<1>8. MainInv'
  BY <1>3, <1>6 DEF DriveInv, MainInv, Moves, Elsewhere
<1> QED BY <1>7, <1>8 DEF PoolInv

-----------------------------------------------------------------------------
(***************************************************************************)
(* What a step of a worker does to the items.                              *)
(***************************************************************************)

\* The steps of w that keep its item and ask for nothing.
Keeps(w) ==
    /\ item'[w] = item[w]
    /\ stored' = stored
    /\ fileId' = fileId
    /\ next' = next
    /\ UNCHANGED <<abort, threw>>
    /\ reply'[w] = "none"

\* w records the first error, or finds it recorded, or throws.
Stops(w) ==
    /\ abort' \/ threw'
    /\ stored' = stored \/ (mode = "directory" /\ stored \subseteq stored')
    /\ fileId' = fileId

\* w finds nothing left to claim.
RunsOut(w) ==
    /\ pc[w] = "claim" /\ pc'[w] = "leaving"
    /\ next > listed /\ next' = next + 1
    /\ item'[w] = item[w]
    /\ UNCHANGED <<stored, fileId, abort, threw>>
    /\ reply'[w] = reply[w]

\* w claims the next item.
Takes(w) ==
    /\ pc[w] = "claim"
    /\ pc'[w] = IF mode = "resumable" THEN "bearer" ELSE "uploading"
    /\ next <= listed /\ next' = next + 1
    /\ item'[w] = next
    /\ UNCHANGED <<stored, fileId, abort, threw>>
    /\ reply'[w] = reply[w]

\* w has a reply to the PUT of its chunk.
Hears(w) ==
    /\ pc[w] = "request" /\ pc'[w] = "answered"
    /\ item'[w] = item[w]
    /\ UNCHANGED <<next, fileId, abort, threw>>
    /\ \/ /\ stored' = stored \union {item[w]}
          /\ \/ reply'[w] \in {"lost", "refused"}
             \/ reply'[w] = "ok" /\ stored' = Whole
             \/ reply'[w] = "more" /\ stored' # Whole
       \/ /\ stored' = stored
          /\ reply'[w] \in {"unauthorised", "busy", "lost", "refused"}

\* w is done with its item, which is stored.
Finishes(w) ==
    /\ pc'[w] = "top"
    /\ item'[w] = 0
    /\ reply'[w] = "none"
    /\ UNCHANGED <<next, abort, threw>>
    /\ \/ /\ pc[w] = "uploading"
          /\ stored' = stored \union {item[w]}
          /\ fileId' = fileId
       \/ /\ pc[w] = "answered"
          /\ stored' = stored
          /\ reply[w] \in {"ok", "more"}
          /\ fileId' = (fileId \/ reply[w] = "ok")

\* Every step of a worker is one of these.
LEMMA WorkerKinds ==
    ASSUME TypeOK, NEW w \in Workers, WorkerStep(w), ~Exit(w), WorkerInv(w)
    PROVE  \/ Keeps(w) /\ pc[w] \in Busy \ {"uploading"}
                       /\ pc'[w] \in Busy \ {"uploading"}
           \/ Keeps(w) /\ pc[w] \in {"new", "top"} /\ pc'[w] \in {"top", "claim"}
           \/ /\ Stops(w) /\ pc'[w] = "leaving"
              /\ item'[w] = 0 /\ reply'[w] = "none"
           \/ RunsOut(w) \/ Takes(w) \/ Hears(w) \/ Finishes(w)
<1> USE DriveAssumption DEF Active, Busy, Asking, Procs, TypeOK,
        Go, workVars, poolVars, mainVars, googleVars, tokenVars
<1>1. w # Main /\ w \in Procs
  BY DEF Procs
<1>2. pc[w] # "answered" => reply[w] = "none"
  BY DEF WorkerInv
<1>3. pc[w] \notin Busy => item[w] = 0
  BY DEF WorkerInv
<1>4. CASE WorkerStarts(w)
  BY <1>1, <1>2, <1>4 DEF WorkerStarts, Bail, Leave, Keeps, Stops
<1>5. CASE CheckAbort(w)
  BY <1>1, <1>2, <1>3, <1>5 DEF CheckAbort, Keeps, Stops
<1>6. CASE Claim(w)
  BY <1>1, <1>2, <1>3, <1>6 DEF Claim, RunsOut, Takes, Stops
<1>7. CASE FileUploaded(w)
  BY <1>1, <1>2, <1>7 DEF FileUploaded, Bail, Leave, Finishes, Stops
<1>8. CASE AcquireBearer(w)
  BY <1>1, <1>2, <1>8 DEF AcquireBearer, Keeps
<1>9. CASE MintBearer(w)
  BY <1>1, <1>2, <1>9 DEF MintBearer, Keeps
<1>10. CASE MintFails(w)
  BY <1>1, <1>2, <1>10 DEF MintFails, Bail, Leave, Stops
<1>11. CASE StoreBearer(w)
  BY <1>1, <1>2, <1>11 DEF StoreBearer, Keeps
<1>12. CASE PutChunk(w)
  <2>1. Hears(w)
    BY <1>1, <1>2, <1>12 DEF PutChunk, Answered, Hears
  <2> QED BY <2>1
<1>13. CASE Retry(w)
  BY <1>1, <1>13 DEF Retry, Bail, Leave, Keeps, Stops
<1>14. CASE BackoffEnds(w)
  BY <1>1, <1>2, <1>14 DEF BackoffEnds, Leave, Keeps, Stops
<1>15. CASE RefreshBearer(w)
  BY <1>1, <1>15 DEF RefreshBearer, Keeps
<1>16. CASE ChunkDone(w)
  BY <1>1, <1>16 DEF ChunkDone, Bail, Leave, Finishes, Stops
<1>17. CASE WorkerThrows(w)
  <2>1. Stops(w)
    BY <1>17 DEF WorkerThrows, Stops, WorkerInv
  <2> QED BY <1>1, <1>2, <1>17, <2>1 DEF WorkerThrows, Leave
<1> QED BY <1>4, <1>5, <1>6, <1>7, <1>8, <1>9, <1>10, <1>11, <1>12, <1>13, <1>14,
           <1>15, <1>16, <1>17 DEF WorkerStep

\* A step of w keeps what is said of w.
LEMMA ThisWorker ==
    ASSUME DriveInv, NEW w \in Workers, WorkerStep(w), ~Exit(w)
    PROVE  WorkerInv(w)'
<1>1. TypeOK /\ WorkerInv(w) /\ pc[w] \in WorkerPlaces
  BY DEF DriveInv, WorkerInv
<1>2. Moves(w) /\ Elsewhere(w)
  BY <1>1, WorkerMoves
<1>3. mode' = mode /\ listed' = listed /\ mode # "multipart"
  BY <1>2, ActivePool DEF Elsewhere, Moves, Counted
<1>4. next \in Nat /\ listed \in Nat /\ next # 0 /\ mode \in {"multipart", "resumable", "directory"}
  BY <1>1, WholeFacts DEF TypeOK
<1> USE DEF WorkerInv, WorkerPlaces, Active, Busy, Asking
<1>5. CASE Keeps(w) /\ pc[w] \in Busy \ {"uploading"}
                    /\ pc'[w] \in Busy \ {"uploading"}
  BY <1>1, <1>3, <1>5 DEF Keeps
<1>6. CASE Keeps(w) /\ pc[w] \in {"new", "top"} /\ pc'[w] \in {"top", "claim"}
  BY <1>1, <1>3, <1>6 DEF Keeps
<1>7. CASE Stops(w) /\ pc'[w] = "leaving" /\ item'[w] = 0 /\ reply'[w] = "none"
  BY <1>7 DEF Stops
<1>8. CASE RunsOut(w)
  BY <1>1, <1>3, <1>4, <1>8 DEF RunsOut
<1>9. CASE Takes(w)
  BY <1>1, <1>3, <1>4, <1>9 DEF Takes
<1>10. CASE Hears(w)
  BY <1>1, <1>3, <1>10 DEF Hears
<1>11. CASE Finishes(w)
  BY <1>11 DEF Finishes
<1> QED BY <1>1, <1>5, <1>6, <1>7, <1>8, <1>9, <1>10, <1>11, WorkerKinds

\* A step of a worker keeps the success that Main has seen.
LEMMA WorkerSent ==
    ASSUME DriveInv, NEW w \in Workers, WorkerStep(w), ~Exit(w)
    PROVE  SentInv'
<1>1. TypeOK /\ WorkerInv(w)
  BY DEF DriveInv
<1>2. Moves(w) /\ Elsewhere(w)
  BY <1>1, WorkerMoves
<1>3. mode' = mode /\ listed' = listed /\ reply'[Main] = reply[Main] /\ result' = result
      /\ (threw => threw')
  BY <1>2 DEF Elsewhere, Moves
<1>4. stored \subseteq stored' /\ (stored = Whole => stored' = Whole)
  BY <1>2 DEF Elsewhere
<1>5. fileId' = fileId \/ (fileId' => fileId \/ stored = Whole)
  <2>1. CASE Finishes(w)
    BY <1>1, <2>1 DEF Finishes, WorkerInv
  <2>2. CASE ~Finishes(w)
    BY <1>1, <2>2, WorkerKinds DEF Keeps, Stops, RunsOut, Takes, Hears
  <2> QED BY <2>1, <2>2
<1> QED BY <1>3, <1>4, <1>5 DEF DriveInv, SentInv, OkMeansWhole

\* A step of a worker leaves no claimed item behind.
LEMMA WorkerCovers ==
    ASSUME DriveInv, NEW w \in Workers, WorkerStep(w), ~Exit(w)
    PROVE  CoverInv'
<1> SUFFICES ASSUME ~abort', ~threw', NEW i \in 1..listed', i < next'
             PROVE  i \in stored' \/ \E v \in Workers : item'[v] = i
  BY DEF CoverInv
<1>1. TypeOK /\ WorkerInv(w)
  BY DEF DriveInv
<1>2. Moves(w) /\ Elsewhere(w)
  BY <1>1, WorkerMoves
<1>3. listed' = listed /\ ~abort /\ ~threw /\ stored \subseteq stored'
  BY <1>2 DEF Elsewhere
<1>4. \A v \in Workers \ {w} : item'[v] = item[v]
  BY <1>2 DEF Elsewhere
<1>5. next \in Nat /\ listed \in Nat /\ i \in Nat /\ i # 0 /\ i <= listed
  BY <1>1, <1>3, WholeFacts DEF TypeOK
<1>6. i < next => i \in stored \/ \E v \in Workers : item[v] = i
  BY <1>3 DEF DriveInv, CoverInv
<1>7. CASE item'[w] = item[w] /\ next' = next
  BY <1>3, <1>4, <1>6, <1>7
<1>8. CASE RunsOut(w)
  BY <1>3, <1>4, <1>5, <1>6, <1>8 DEF RunsOut
<1>9. CASE Takes(w)
  <2>1. item[w] = 0
    BY <1>1, <1>9 DEF Takes, WorkerInv, Busy, Asking
  <2>2. i < next \/ i = next
    BY <1>5, <1>9 DEF Takes
  <2> QED BY <1>3, <1>4, <1>5, <1>6, <1>9, <2>1, <2>2 DEF Takes
<1>10. CASE Finishes(w)
  <2>1. item[w] \in stored'
    BY <1>1, <1>10 DEF Finishes, WorkerInv
  <2> QED BY <1>3, <1>4, <1>6, <1>10, <2>1 DEF Finishes
<1> QED BY <1>1, <1>7, <1>8, <1>9, <1>10, WorkerKinds DEF Keeps, Stops, Hears

\* A step of a worker does not lose sight of the file id.
LEMMA WorkerFinal ==
    ASSUME DriveInv, NEW w \in Workers, WorkerStep(w), ~Exit(w)
    PROVE  FinalInv'
<1> SUFFICES ASSUME ~abort', ~threw', mode' = "resumable", stored' = Whole
             PROVE  fileId' \/ \E v \in Workers : item'[v] # 0 /\ reply'[v] # "more"
  BY DEF FinalInv
<1>1. TypeOK /\ WorkerInv(w)
  BY DEF DriveInv
<1>2. Moves(w) /\ Elsewhere(w)
  BY <1>1, WorkerMoves
<1>3. mode = "resumable" /\ ~abort /\ ~threw
  BY <1>2 DEF Elsewhere
<1>4. \A v \in Workers \ {w} : item'[v] = item[v] /\ reply'[v] = reply[v]
  BY <1>2 DEF Elsewhere
<1>5. stored = Whole => fileId \/ \E v \in Workers : item[v] # 0 /\ reply[v] # "more"
  BY <1>3 DEF DriveInv, FinalInv
<1>6. CASE Keeps(w)
  BY <1>4, <1>5, <1>6 DEF Keeps
<1>7. CASE RunsOut(w)
  BY <1>4, <1>5, <1>7 DEF RunsOut
<1>8. CASE Takes(w)
  <2>1. item[w] = 0
    BY <1>1, <1>8 DEF Takes, WorkerInv, Busy, Asking
  <2> QED BY <1>4, <1>5, <1>8, <2>1 DEF Takes
<1>9. CASE Hears(w)
  <2>1. item[w] # 0
    BY <1>1, <1>9 DEF Hears, WorkerInv, Busy, Asking
  <2>2. reply'[w] # "more"
    BY <1>9 DEF Hears
  <2> QED BY <1>9, <2>1, <2>2 DEF Hears
<1>10. CASE Finishes(w)
  <2>1. pc[w] = "answered" /\ stored = Whole
    BY <1>1, <1>3, <1>10 DEF Finishes, WorkerInv
  <2> QED BY <1>4, <1>5, <1>10, <2>1 DEF Finishes
<1> QED BY <1>1, <1>6, <1>7, <1>8, <1>9, <1>10, WorkerKinds DEF Stops

\* The end of a turn keeps the types of what it resets.
LEMMA LeaveTypes ==
    ASSUME TypeOK, NEW w \in Workers, NEW place \in Places, Leave(w, place)
    PROVE  /\ pc' \in [Procs -> Places]
           /\ item' \in [Workers -> 0..Items]
           /\ attempt' \in [Workers -> 0..MaxRetries]
           /\ refreshed' \in [Workers -> BOOLEAN]
<1>1. 0 \in 0..Items /\ 0 \in 0..MaxRetries
  BY DriveAssumption
<1> QED BY <1>1 DEF TypeOK, Leave, Go, Procs

\* So does recording an error.
LEMMA BailTypes ==
    ASSUME TypeOK, NEW w \in Workers, Bail(w)
    PROVE  /\ pc' \in [Procs -> Places]
           /\ item' \in [Workers -> 0..Items]
           /\ attempt' \in [Workers -> 0..MaxRetries]
           /\ refreshed' \in [Workers -> BOOLEAN]
           /\ abort' \in BOOLEAN /\ UNCHANGED <<listed, next, live, fileId>>
<1>1. "leaving" \in Places
  BY DEF Places
<1> QED BY <1>1, LeaveTypes DEF Bail

\* A step of a worker keeps the types.
LEMMA WorkerTypes ==
    ASSUME TypeOK, NEW w \in Workers, WorkerStep(w), ~Exit(w), WorkerInv(w)
    PROVE  TypeOK'
<1> USE DEF TypeOK, workVars, poolVars, mainVars, googleVars, tokenVars
<1>1. w # Main /\ w \in Procs
  BY DriveAssumption DEF Procs
<1>2. stored' \subseteq Whole
  BY WorkerMoves DEF Elsewhere
<1>3. "top" \in Places /\ "leaving" \in Places
  BY DEF Places
<1>4. CASE WorkerStarts(w)
  <2>1. CASE Bail(w)
    <3>1. UNCHANGED <<bearer, reply, mainVars, tokenVars, googleVars>>
      BY <1>4 DEF WorkerStarts
    <3> QED BY <2>1, <3>1, BailTypes
  <2>2. CASE Go(w, "top") /\ UNCHANGED <<workVars, poolVars>>
    BY <1>1, <1>3, <1>4, <2>2 DEF WorkerStarts, Go
  <2> QED BY <1>4, <2>1, <2>2 DEF WorkerStarts
<1>5. CASE CheckAbort(w)
  BY <1>1, <1>5 DEF CheckAbort, Go, Places
<1>6. CASE Claim(w)
  <2>1. pc' \in [Procs -> Places]
    <3>1. PICK place \in Places : Go(w, place)
      BY <1>6 DEF Claim, Places
    <3> QED BY <1>1, <3>1 DEF Go
  <2>2. item' \in [Workers -> 0..Items]
    <3>1. next <= listed => next \in 0..Items
      BY DriveAssumption
    <3> QED BY <1>6, <3>1 DEF Claim
  <2>3. next' \in Nat \ {0} /\ abort' \in BOOLEAN
    <3>1. next' = next + 1 /\ (abort' = abort \/ abort' = TRUE)
      BY <1>6 DEF Claim
    <3>2. next' \in Nat \ {0}
      BY <3>1
    <3> QED BY <3>1, <3>2
  <2> QED BY <1>6, <2>1, <2>2, <2>3 DEF Claim
<1>7. CASE FileUploaded(w)
  <2>1. CASE Bail(w)
    <3>1. UNCHANGED <<bearer, reply, mainVars, tokenVars, session>>
      BY <1>7 DEF FileUploaded
    <3> QED BY <1>2, <2>1, <3>1, BailTypes
  <2>2. CASE Leave(w, "top") /\ UNCHANGED poolVars
    BY <1>2, <1>3, <1>7, <2>2, LeaveTypes DEF FileUploaded
  <2> QED BY <1>7, <2>1, <2>2 DEF FileUploaded
<1>8. CASE AcquireBearer(w)
  BY <1>1, <1>8 DEF AcquireBearer, Go, Places
<1>9. CASE MintBearer(w)
  <2>1. minted' \in 0..MaxTokens
    BY <1>9, DriveAssumption DEF MintBearer
  <2> QED BY <1>1, <1>9, <2>1 DEF MintBearer, Go, Places
<1>10. CASE MintFails(w)
  <2>1. Bail(w) /\ UNCHANGED result
    BY <1>1, <1>10 DEF MintFails
  <2>2. UNCHANGED <<bearer, reply, mode, threw, closing, cancelled, tokenVars, googleVars>>
    BY <1>10 DEF MintFails
  <2> QED BY <2>1, <2>2, BailTypes
<1>11. CASE StoreBearer(w)
  BY <1>1, <1>11 DEF StoreBearer, Go, Places
<1>12. CASE PutChunk(w)
  <2>1. PICK r \in Replies : Answered(w, r)
    BY <1>12 DEF PutChunk, Replies
  <2>2. /\ pc' \in [Procs -> Places]
        /\ reply' \in [Procs -> Replies] /\ bearer' \in [Procs -> 0..MaxTokens]
    <3>1. 0 \in 0..MaxTokens /\ "answered" \in Places
      BY DriveAssumption DEF Places
    <3> QED BY <1>1, <2>1, <3>1 DEF Answered, Go
  <2> QED BY <1>2, <1>12, <2>2 DEF PutChunk
<1>13. CASE Retry(w)
  <2>1. reply' \in [Procs -> Replies]
    BY <1>1, <1>13 DEF Retry, Replies
  <2>2. CASE Bail(w)
    <3>1. UNCHANGED <<bearer, mainVars, tokenVars, googleVars>>
      BY <1>13 DEF Retry
    <3> QED BY <2>1, <2>2, <3>1, BailTypes
  <2>3. CASE ~Bail(w)
    <3>1. attempt' \in [Workers -> 0..MaxRetries]
      BY <1>13, <2>3, DriveAssumption DEF Retry
    <3>2. refreshed' \in [Workers -> BOOLEAN] /\ pc' \in [Procs -> Places]
      BY <1>1, <1>13, <2>3 DEF Retry, Go, Places
    <3> QED BY <1>13, <2>1, <2>3, <3>1, <3>2 DEF Retry
  <2> QED BY <2>2, <2>3
<1>14. CASE BackoffEnds(w)
  <2>1. CASE Leave(w, "leaving")
    BY <1>3, <1>14, <2>1, LeaveTypes DEF BackoffEnds
  <2>2. CASE Go(w, "bearer") /\ UNCHANGED workVars
    BY <1>1, <1>14, <2>2 DEF BackoffEnds, Go, Places
  <2> QED BY <1>14, <2>1, <2>2 DEF BackoffEnds
<1>15. CASE RefreshBearer(w)
  <2>1. pc' \in [Procs -> Places] /\ reply' \in [Procs -> Replies]
    BY <1>1, <1>15 DEF RefreshBearer, Go, Places, Replies
  <2>2. refreshed' \in [Workers -> BOOLEAN] /\ cached' \in 0..MaxTokens
    BY <1>15, DriveAssumption DEF RefreshBearer
  <2> QED BY <1>15, <2>1, <2>2 DEF RefreshBearer
<1>16. CASE ChunkDone(w)
  <2>1. reply' \in [Procs -> Replies]
    BY <1>1, <1>16 DEF ChunkDone, Replies
  <2>2. CASE Bail(w)
    <3>1. UNCHANGED <<bearer, mainVars, tokenVars, googleVars>>
      BY <1>16 DEF ChunkDone
    <3> QED BY <2>1, <2>2, <3>1, BailTypes
  <2>3. CASE Leave(w, "leaving") /\ UNCHANGED poolVars
    BY <1>3, <1>16, <2>1, <2>3, LeaveTypes DEF ChunkDone
  <2>4. CASE /\ Leave(w, "top") /\ UNCHANGED <<listed, next, live, abort>>
             /\ fileId' = (fileId \/ reply[w] = "ok")
    <3>1. fileId' \in BOOLEAN
      BY <2>4
    <3> QED BY <1>3, <1>16, <2>1, <2>4, <3>1, LeaveTypes DEF ChunkDone
  <2> QED BY <1>16, <2>2, <2>3, <2>4 DEF ChunkDone
<1>17. CASE WorkerThrows(w)
  <2>1. bearer' \in [Procs -> 0..MaxTokens] /\ next' \in Nat \ {0} /\ threw' \in BOOLEAN
    <3>1. 0 \in 0..MaxTokens
      BY DriveAssumption
    <3> QED BY <1>1, <1>17, <3>1 DEF WorkerThrows
  <2> QED BY <1>2, <1>3, <1>17, <2>1, LeaveTypes DEF WorkerThrows
<1> QED BY <1>4, <1>5, <1>6, <1>7, <1>8, <1>9, <1>10, <1>11, <1>12, <1>13, <1>14,
           <1>15, <1>16, <1>17 DEF WorkerStep

-----------------------------------------------------------------------------
(***************************************************************************)
(* ExitGuard: the last worker out finds the pool empty.                    *)
(***************************************************************************)

\* One worker fewer, on both sides of the count.
LEMMA ExitCounts ==
    ASSUME DriveInv, NEW w \in Workers, Exit(w)
    PROVE  /\ PoolInv' /\ live \in Nat \ {0} /\ live' = live - 1
           /\ pc'[Main] = IF live = 1 /\ pc[Main] = "join" THEN "joined" ELSE pc[Main]
           /\ pc' = [pc EXCEPT ![w] = "gone", ![Main] = pc'[Main]]
<1>1. Counted /\ live # 0 /\ w \in Spawned /\ w \notin Gone
  BY ActivePool DEF Exit, Active
<1>2. w # Main /\ w \in Procs /\ Main \in Procs /\ pc \in [Procs -> Places]
  BY DriveAssumption DEF Procs, DriveInv, TypeOK
<1>3. live \in Nat \ {0} /\ live' = live - 1
  BY <1>1, FS_CardinalityType, DriveAssumption DEF DriveInv, TypeOK, Exit
<1>4. /\ pc'[Main] = IF live = 1 /\ pc[Main] = "join" THEN "joined" ELSE pc[Main]
      /\ pc' = [pc EXCEPT ![w] = "gone", ![Main] = pc'[Main]]
  BY <1>2 DEF Exit
<1>5. Spawned' = Spawned /\ Gone' = Gone \union {w}
  <2>1. pc'[w] = "gone" /\ \A v \in Workers \ {w} : pc'[v] = pc[v]
    BY <1>2, <1>4, DriveAssumption DEF Procs
  <2> QED BY <1>1, <2>1 DEF Spawned, Gone
<1>6. Cardinality(Gone') = Cardinality(Gone) + 1
  BY <1>1, <1>5, GoneFacts, FS_AddElement
<1>7. listed' = listed /\ mode' = mode /\ closing' = closing
  BY DEF Exit, mainVars
<1>8. Parallelism(listed)' = Parallelism(listed)
  BY <1>7 DEF Parallelism
<1>9. Parallelism(listed) \in Nat
  BY ParallelismRange, WholeFacts DEF DriveInv, TypeOK
<1>10. live' + Cardinality(Gone)' = Parallelism(listed)'
  BY <1>1, <1>3, <1>6, <1>8, <1>9, GoneFacts DEF Counted
<1>11. Counted'
  BY <1>1, <1>4, <1>5, <1>7, <1>8, <1>10 DEF Counted, Asking
<1> QED BY <1>3, <1>4, <1>11 DEF PoolInv

\* A worker that leaves takes nothing with it.
LEMMA ExitKeeps ==
    ASSUME DriveInv, NEW w \in Workers, Exit(w)
    PROVE  DriveInv'
<1>1. TypeOK /\ MainInv /\ SentInv /\ WorkerInv(w) /\ CoverInv /\ FinalInv
  BY DEF DriveInv
<1>2. w # Main /\ w \in Procs /\ Main \in Procs /\ Workers \subseteq Procs
  BY DriveAssumption DEF Procs
<1>3. /\ live \in Nat \ {0} /\ live' = live - 1
      /\ pc'[Main] = IF live = 1 /\ pc[Main] = "join" THEN "joined" ELSE pc[Main]
      /\ pc' = [pc EXCEPT ![w] = "gone", ![Main] = pc'[Main]]
  BY ExitCounts
<1>4. /\ pc[w] = "leaving"
      /\ UNCHANGED <<bearer, reply, item, attempt, refreshed, listed, next, abort,
                     fileId, mode, threw, closing, cancelled, result, session, stored,
                     cached, stale, minted, revoked>>
  BY DEF Exit, workVars, mainVars, tokenVars, googleVars
<1>5. pc'[w] = "gone" /\ \A v \in Workers \ {w} : pc'[v] = pc[v]
  BY <1>1, <1>2, <1>3, DriveAssumption DEF TypeOK
<1>6. TypeOK'
  <2>1. pc'[Main] \in Places
    BY <1>1, <1>2, <1>3 DEF TypeOK, Places
  <2>2. pc' \in [Procs -> Places]
    BY <1>1, <1>3, <2>1 DEF TypeOK, Places
  <2>3. live' \in 0..Cardinality(Workers)
    BY <1>1, <1>3, FS_CardinalityType, DriveAssumption DEF TypeOK
  <2> QED BY <1>1, <1>4, <2>2, <2>3 DEF TypeOK
<1>7. MainInv'
  BY <1>1, <1>3, <1>4 DEF MainInv, Asking, MainPlaces
<1>8. SentInv'
  BY <1>1, <1>4 DEF SentInv, OkMeansWhole
<1>9. ASSUME NEW v \in Workers PROVE WorkerInv(v)'
  <2>1. CASE v = w
    BY <1>1, <1>4, <1>5, <2>1 DEF WorkerInv, WorkerPlaces, Busy, Asking
  <2>2. CASE v # w
    BY <1>4, <1>5, <2>2 DEF DriveInv, WorkerInv
  <2> QED BY <2>1, <2>2
<1>10. CoverInv' /\ FinalInv'
  BY <1>1, <1>4 DEF CoverInv, FinalInv
<1> QED BY <1>6, <1>7, <1>8, <1>9, <1>10, ExitCounts DEF DriveInv

\* Every step of a worker keeps the invariant.
LEMMA WorkerKeeps ==
    ASSUME DriveInv, NEW w \in Workers, WorkerStep(w)
    PROVE  DriveInv'
<1>1. CASE Exit(w)
  BY <1>1, ExitKeeps
<1>2. CASE ~Exit(w)
  <2>1. TypeOK /\ WorkerInv(w)
    BY DEF DriveInv
  <2>2. Moves(w) /\ Elsewhere(w)
    BY <1>2, <2>1, WorkerMoves
  <2>3. TypeOK'
    BY <1>2, <2>1, WorkerTypes
  <2>4. PoolInv' /\ MainInv'
    BY <2>2, MovesKeepsPool
  <2>5. ASSUME NEW v \in Workers PROVE WorkerInv(v)'
    <3>1. CASE v = w
      BY <1>2, <3>1, ThisWorker
    <3>2. CASE v # w
      BY <2>1, <2>2, <3>2, OtherWorker DEF DriveInv
    <3> QED BY <3>1, <3>2
  <2>6. SentInv' /\ CoverInv' /\ FinalInv'
    BY <1>2, WorkerSent, WorkerCovers, WorkerFinal
  <2> QED BY <2>3, <2>4, <2>5, <2>6 DEF DriveInv
<1> QED BY <1>1, <1>2

-----------------------------------------------------------------------------
(***************************************************************************)
(* Main.                                                                   *)
(***************************************************************************)

\* Main moves; nothing is said of a worker, and only a multipart upload stores.
MainMoves ==
    /\ \A w \in Workers : pc'[w] = pc[w] /\ reply'[w] = reply[w]
    /\ UNCHANGED <<item, mode, threw, listed, next, abort, fileId>>
    /\ stored' = stored \/ (mode = "multipart" /\ stored' = Whole)

\* Every step of Main but the walk and the spawning is one of these.
MainSteps ==
    \/ Begin \/ Opened \/ Park \/ Joined \/ Closed \/ Interrupted
    \/ AcquireBearer(Main) \/ MintBearer(Main) \/ MintFails(Main)
    \/ StoreBearer(Main) \/ MainRequest \/ MainThrows

\* A step of Main leaves the workers alone.
LEMMA MainLeavesWorkers ==
    ASSUME TypeOK, MainSteps
    PROVE  MainMoves
<1> USE DriveAssumption DEF MainMoves, Procs, TypeOK, Go, Return, workVars,
        poolVars, mainVars, googleVars
<1>1. Main \notin Workers /\ Main \in Procs
  OBVIOUS
<1>2. CASE Begin \/ Park \/ Joined \/ Closed \/ Interrupted \/ MainThrows
  BY <1>1, <1>2 DEF Begin, Park, Joined, Closed, Interrupted, MainThrows
<1>3. CASE Opened
  BY <1>1, <1>3 DEF Opened
<1>4. CASE AcquireBearer(Main) \/ MintBearer(Main) \/ StoreBearer(Main)
  BY <1>1, <1>4 DEF AcquireBearer, MintBearer, StoreBearer
<1>5. CASE MintFails(Main)
  BY <1>1, <1>5 DEF MintFails
<1>6. CASE MainRequest
  BY <1>1, <1>6 DEF MainRequest, Answered
<1> QED BY <1>2, <1>3, <1>4, <1>5, <1>6 DEF MainSteps

\* Hence it keeps what is said of them.
LEMMA MainKeepsWorkers ==
    ASSUME DriveInv, MainMoves
    PROVE  /\ \A w \in Workers : WorkerInv(w)'
           /\ CoverInv' /\ FinalInv'
           /\ Spawned' = Spawned /\ Gone' = Gone
           /\ Parallelism(listed)' = Parallelism(listed)
<1>1. stored \subseteq Whole
  BY DEF DriveInv, TypeOK
<1>2. \A w \in Workers : WorkerInv(w)'
  BY <1>1 DEF DriveInv, MainMoves, WorkerInv
<1>3. CoverInv'
  BY <1>1 DEF DriveInv, MainMoves, CoverInv
<1>4. FinalInv'
  BY DEF DriveInv, MainMoves, FinalInv
<1>5. Spawned' = Spawned /\ Gone' = Gone
  BY DEF MainMoves, Spawned, Gone
<1>6. Parallelism(listed)' = Parallelism(listed)
  BY DEF MainMoves, Parallelism
<1> QED BY <1>2, <1>3, <1>4, <1>5, <1>6

\* The pool as Main's step leaves it: as before, or set up.
LEMMA MainPool ==
    ASSUME DriveInv, MainSteps
    PROVE  PoolInv'
<1>1. MainMoves /\ PoolInv /\ MainInv /\ Main \in Procs /\ pc \in [Procs -> Places]
  BY MainLeavesWorkers DEF DriveInv, TypeOK, Procs
<1>2. /\ Spawned' = Spawned /\ Gone' = Gone
      /\ Parallelism(listed)' = Parallelism(listed)
      /\ next' = next /\ mode' = mode
  BY <1>1, MainKeepsWorkers DEF MainMoves
<1> USE DEF PoolInv, NotBegun, Counted, MainInv, Go, Return, Asking, MainPlaces,
        poolVars, mainVars
<1>3. CASE Begin \/ Park
  BY <1>1, <1>2, <1>3 DEF Begin, Park
<1>4. CASE Joined \/ Closed \/ Interrupted \/ MainThrows
  BY <1>1, <1>2, <1>4 DEF Joined, Closed, Interrupted, MainThrows
<1>5. CASE AcquireBearer(Main) \/ MintBearer(Main) \/ StoreBearer(Main)
  BY <1>1, <1>2, <1>5 DEF AcquireBearer, MintBearer, StoreBearer
<1>6. CASE MintFails(Main)
  BY <1>1, <1>2, <1>6, DriveAssumption DEF MintFails
<1>7. CASE MainRequest
  BY <1>1, <1>2, <1>7 DEF MainRequest, Answered
<1>8. CASE Opened
  <2>1. NotBegun
    BY <1>1, <1>8 DEF Opened
  <2>2. CASE pc'[Main] # "spawn"
    BY <1>1, <1>2, <1>8, <2>1, <2>2 DEF Opened
  <2>3. CASE pc'[Main] = "spawn"
    <3>1. /\ live' = Parallelism(listed) /\ pc'[Main] = "spawn"
          /\ mode = "resumable" /\ listed' = listed
      BY <1>1, <1>8, <2>3 DEF Opened
    <3>2. Gone = {} /\ Spawned = {}
      BY <2>1 DEF Gone, Spawned
    <3>3. Cardinality(Gone') = 0 /\ Cardinality(Spawned') = 0
      BY <1>2, <3>2, FS_EmptySet
    <3>4. Parallelism(listed) \in Nat
      BY ParallelismRange, WholeFacts DEF DriveInv, TypeOK
    <3> QED BY <1>2, <3>1, <3>3, <3>4
  <2> QED BY <2>2, <2>3
<1> QED BY <1>3, <1>4, <1>5, <1>6, <1>7, <1>8 DEF MainSteps

\* Main gets to the DELETE only with the pool empty.
LEMMA MainOrder ==
    ASSUME DriveInv, MainSteps
    PROVE  MainInv'
<1>1. MainMoves /\ PoolInv /\ MainInv /\ Main \in Procs /\ pc \in [Procs -> Places]
  BY MainLeavesWorkers DEF DriveInv, TypeOK, Procs
<1>2. mode' = mode /\ listed' = listed /\ (pc[Main] = "done" => pc'[Main] = "done")
  <2>1. pc[Main] # "done"
    BY DEF MainSteps, Begin, Opened, Park, Joined, Closed, Interrupted, AcquireBearer,
           MintBearer, MintFails, StoreBearer, MainRequest, MainThrows
  <2> QED BY <1>1, <2>1 DEF MainMoves
<1>3. mode \in {"multipart", "resumable", "directory"}
  BY DEF DriveInv, TypeOK
<1> USE DEF MainInv, Go, Return, Asking, MainPlaces, poolVars, mainVars, googleVars
<1>4. CASE Begin
  BY <1>1, <1>2, <1>3, <1>4 DEF Begin
<1>5. CASE Park
  BY <1>1, <1>2, <1>5 DEF Park
<1>6. CASE Joined
  BY <1>1, <1>2, <1>3, <1>6 DEF Joined
<1>7. CASE Closed
  BY <1>1, <1>2, <1>7 DEF Closed
<1>8. CASE Interrupted \/ MainThrows
  BY <1>1, <1>2, <1>8 DEF Interrupted, MainThrows
<1>9. CASE AcquireBearer(Main)
  BY <1>1, <1>2, <1>9 DEF AcquireBearer
<1>10. CASE MintBearer(Main) \/ StoreBearer(Main)
  BY <1>1, <1>2, <1>10 DEF MintBearer, StoreBearer
<1>11. CASE MintFails(Main)
  BY <1>1, <1>2, <1>11, DriveAssumption DEF MintFails
<1>12. CASE MainRequest
  BY <1>1, <1>2, <1>12 DEF MainRequest, Answered
<1>13. CASE Opened
  <2>1. NotBegun
    BY <1>1, <1>13 DEF Opened, PoolInv, NotBegun, Counted
  <2>2. live = 0 /\ session # "deleted"
    BY <1>1, <1>13, <2>1 DEF NotBegun, Opened
  <2> QED BY <1>1, <1>2, <1>3, <1>13, <2>2 DEF Opened
<1> QED BY <1>4, <1>5, <1>6, <1>7, <1>8, <1>9, <1>10, <1>11, <1>12, <1>13 DEF MainSteps

\* Main reports a success that is one at Google.
LEMMA MainSent ==
    ASSUME DriveInv, MainSteps
    PROVE  SentInv'
<1>1. /\ MainMoves /\ PoolInv /\ MainInv /\ SentInv /\ Main \in Procs
      /\ pc \in [Procs -> Places] /\ reply \in [Procs -> Replies]
  BY MainLeavesWorkers DEF DriveInv, TypeOK, Procs
<1>2. /\ mode' = mode /\ listed' = listed /\ fileId' = fileId
      /\ stored \subseteq stored' /\ (stored = Whole => stored' = Whole)
  BY <1>1 DEF MainMoves, DriveInv, TypeOK
<1>3. fileId' => stored' = Whole
  BY <1>1, <1>2 DEF SentInv
<1>4. mode = "multipart" /\ reply'[Main] = "ok" => stored' = Whole
  <2>1. CASE MainRequest
    BY <1>1, <1>2, <2>1 DEF MainRequest, Answered, SentInv, MainInv
  <2>2. CASE ~MainRequest
    <3>1. reply'[Main] \in {reply[Main], "none"}
      BY <1>1, <2>2, DriveAssumption
         DEF MainSteps, Begin, Opened, Park, Joined, Closed, Interrupted, AcquireBearer,
             MintBearer, MintFails, StoreBearer, MainThrows
    <3> QED BY <1>1, <1>2, <3>1 DEF SentInv
  <2> QED BY <2>1, <2>2
<1>5. listed \in Nat /\ 1..listed \subseteq Whole
  BY WholeFacts DEF DriveInv, TypeOK
<1>6. result' = "ok" /\ (mode = "directory" => ~threw) => 1..listed \subseteq stored'
  <2>1. CASE Opened
    <3>1. result' = "ok" => result = "ok" \/ (mode = "multipart" /\ reply[Main] = "ok")
      BY <2>1 DEF Opened, Return
    <3> QED BY <1>1, <1>2, <1>5, <3>1 DEF SentInv, OkMeansWhole
  <2>2. CASE Joined
    <3>1. CASE mode = "directory" /\ ~abort /\ ~threw
      <4>1. live = 0 /\ Counted
        BY <1>1, <2>2, <3>1 DEF Joined, MainInv, PoolInv, NotBegun
      <4>2. Spawned # {}
        <5>1. Cardinality(Spawned) = Parallelism(listed)
          BY <2>2, <4>1 DEF Counted, Joined
        <5>2. Cardinality(Spawned) # 0
          BY <1>5, <5>1, ParallelismRange
        <5> QED BY <5>2, FS_EmptySet
      <4>3. PICK w \in Workers : pc[w] = "gone"
        BY <4>1, <4>2, EmptyPool DEF Spawned
      <4>4. next > listed /\ next \in Nat
        BY <3>1, <4>3 DEF DriveInv, WorkerInv, TypeOK
      <4>5. \A v \in Workers : item[v] = 0
        BY <4>1, EmptyPool DEF DriveInv, WorkerInv, Busy, Asking
      <4>6. \A i \in 1..listed : i < next /\ i # 0
        BY <1>5, <4>4
      <4>7. 1..listed \subseteq stored
        BY <3>1, <4>5, <4>6 DEF DriveInv, CoverInv
      <4> QED BY <1>2, <4>7
    <3>2. CASE ~(mode = "directory" /\ ~abort /\ ~threw)
      <4>1. CASE mode = "directory" /\ ~abort
        BY <3>2, <4>1
      <4>2. CASE ~(mode = "directory" /\ ~abort)
        <5>1. result' = "ok" => result = "ok" \/ fileId
          BY <2>2, <4>2 DEF Joined, Return
        <5> QED BY <1>1, <1>2, <1>5, <5>1 DEF SentInv, OkMeansWhole
      <4> QED BY <4>1, <4>2
    <3> QED BY <3>1, <3>2
  <2>3. CASE ~Opened /\ ~Joined
    <3>1. result' = "ok" => result = "ok"
      BY <2>3, DriveAssumption
         DEF MainSteps, Begin, Park, Closed, Interrupted, AcquireBearer, MintBearer,
             MintFails, StoreBearer, MainRequest, MainThrows, Return, mainVars
    <3> QED BY <1>1, <1>2, <3>1 DEF SentInv, OkMeansWhole
  <2> QED BY <2>1, <2>2, <2>3
<1>7. threw' = threw
  BY <1>1 DEF MainMoves
<1> QED BY <1>2, <1>3, <1>4, <1>6, <1>7 DEF SentInv, OkMeansWhole

\* A step of Main keeps the types.
LEMMA MainTypes ==
    ASSUME TypeOK, MainSteps
    PROVE  TypeOK'
<1> USE DEF TypeOK, workVars, poolVars, mainVars, googleVars, tokenVars
<1>1. Main \in Procs /\ Main \notin Workers
  BY DriveAssumption DEF Procs
<1>2. pc' \in [Procs -> Places]
  <2>1. PICK place \in Places : Go(Main, place)
    BY DriveAssumption
       DEF MainSteps, Begin, Opened, Park, Joined, Closed, Interrupted, AcquireBearer,
           MintBearer, MintFails, StoreBearer, MainRequest, MainThrows, Answered, Return, Places
  <2> QED BY <1>1, <2>1 DEF Go
<1>3. CASE Begin \/ Park \/ Joined \/ Interrupted \/ MainThrows
  <2>1. result' \in {"none", "ok", "error", "thrown", "cancelled"} /\ closing' \in BOOLEAN
    BY <1>3 DEF Begin, Park, Joined, Interrupted, MainThrows, Return
  <2>2. /\ UNCHANGED <<bearer, reply, workVars, poolVars, mode, threw, cancelled>>
        /\ UNCHANGED <<tokenVars, googleVars>>
    BY <1>3 DEF Begin, Park, Joined, Interrupted, MainThrows
  <2> QED BY <1>2, <2>1, <2>2
<1>4. CASE Closed \/ Opened
  <2>1. reply' \in [Procs -> Replies]
    BY <1>1, <1>4 DEF Closed, Opened, Replies
  <2>2. live' \in 0..Cardinality(Workers)
    <3>1. live' \in {live, Parallelism(listed)}
      BY <1>4 DEF Closed, Opened
    <3>2. listed \in Nat /\ Cardinality(Workers) \in Nat
      BY WholeFacts, FS_CardinalityType, DriveAssumption
    <3>3. Parallelism(listed) \in 0..Cardinality(Workers)
      BY <3>2, ParallelismRange
    <3> QED BY <3>1, <3>3
  <2>3. result' \in {"none", "ok", "error", "thrown", "cancelled"} /\ closing' \in BOOLEAN
    BY <1>4 DEF Closed, Opened, Return
  <2>4. /\ UNCHANGED <<bearer, workVars, listed, next, abort, fileId, mode, threw, cancelled>>
        /\ UNCHANGED <<tokenVars, googleVars>>
    BY <1>4 DEF Closed, Opened
  <2> QED BY <1>2, <2>1, <2>2, <2>3, <2>4
<1>5. CASE AcquireBearer(Main) \/ StoreBearer(Main)
  <2>a. bearer' \in [Procs -> 0..MaxTokens] /\ cached' \in 0..MaxTokens
    BY <1>1, <1>5 DEF AcquireBearer, StoreBearer
  <2>b. stale' = stale \/ stale' = FALSE
    BY <1>5 DEF AcquireBearer, StoreBearer
  <2>1. bearer' \in [Procs -> 0..MaxTokens] /\ cached' \in 0..MaxTokens /\ stale' \in BOOLEAN
    BY <2>a, <2>b
  <2>2. /\ UNCHANGED <<reply, workVars, poolVars, mainVars, minted, revoked>>
        /\ UNCHANGED googleVars
    BY <1>5 DEF AcquireBearer, StoreBearer
  <2> QED BY <1>2, <2>1, <2>2
<1>6. CASE MintBearer(Main)
  <2>1. minted' \in 0..MaxTokens
    BY <1>6, DriveAssumption DEF MintBearer
  <2> QED BY <1>1, <1>2, <1>6, <2>1 DEF MintBearer
<1>7. CASE MintFails(Main)
  BY <1>1, <1>2, <1>7 DEF MintFails, Return
<1>8. CASE MainRequest
  <2>1. reply' \in [Procs -> Replies] /\ bearer' \in [Procs -> 0..MaxTokens]
    <3>1. PICK r \in Replies : Answered(Main, r)
      BY <1>8 DEF MainRequest, Replies
    <3>2. 0 \in 0..MaxTokens
      BY DriveAssumption
    <3> QED BY <1>1, <3>1, <3>2 DEF Answered
  <2> QED BY <1>2, <1>8, <2>1 DEF MainRequest
<1> QED BY <1>3, <1>4, <1>5, <1>6, <1>7, <1>8 DEF MainSteps

\* The walk finds what it finds, before anything is claimed.
LEMMA WalkKeeps ==
    ASSUME DriveInv, Walk
    PROVE  DriveInv'
<1>1. /\ TypeOK /\ PoolInv /\ MainInv /\ SentInv /\ CoverInv /\ FinalInv
      /\ Main \in Procs /\ Main \notin Workers
  BY DriveAssumption DEF DriveInv, Procs
<1>2. NotBegun /\ mode = "directory" /\ result = "none" /\ ~closing /\ session # "deleted"
  BY <1>1, DriveAssumption DEF Walk, PoolInv, Counted, MainInv, TypeOK, Asking
<1>3. /\ UNCHANGED <<bearer, reply, item, attempt, refreshed, next, abort, fileId, mode,
                     threw, closing, cancelled, cached, stale, minted, revoked, session, stored>>
      /\ pc[Main] = "walk" /\ pc'[Main] \in {"spawn", "done"}
      /\ pc' = [pc EXCEPT ![Main] = pc'[Main]]
  BY <1>1 DEF Walk, TypeOK, Go, Return, workVars, tokenVars, googleVars
<1>4. \A w \in Workers : pc'[w] = pc[w] /\ pc[w] = "unborn"
  BY <1>1, <1>2, <1>3 DEF TypeOK, NotBegun, Spawned, Procs
<1>5. listed' \in 0..Items
  BY <1>1 DEF Walk, TypeOK
<1>6. Parallelism(listed') \in 1..Cardinality(Workers) /\ Cardinality(Workers) \in Nat
  BY <1>5, ParallelismRange, WholeFacts, FS_CardinalityType, DriveAssumption
<1>7. TypeOK'
  <2>1. pc' \in [Procs -> Places]
    BY <1>1, <1>3 DEF TypeOK, Places
  <2>2. live' \in 0..Cardinality(Workers) /\ result' \in {"none", "ok", "error", "thrown", "cancelled"}
    BY <1>1, <1>6 DEF Walk, TypeOK, Return
  <2> QED BY <1>1, <1>3, <1>5, <2>1, <2>2 DEF TypeOK
<1>8. PoolInv'
  <2>1. Spawned' = {} /\ Gone' = {}
    BY <1>4 DEF Spawned, Gone
  <2>2. CASE pc'[Main] = "spawn"
    <3>1. live' = Parallelism(listed')
      BY <1>1, <2>2 DEF Walk, Return, Go, TypeOK
    <3>2. Cardinality(Spawned') = 0 /\ Cardinality(Gone') = 0
      BY <2>1, FS_EmptySet
    <3>3. Counted'
      BY <1>2, <1>3, <1>6, <2>2, <3>1, <3>2 DEF Counted, Asking, Parallelism
    <3> QED BY <3>3 DEF PoolInv
  <2>3. CASE pc'[Main] = "done"
    <3>1. live' = live
      BY <1>1, <2>3 DEF Walk, Return, Go, TypeOK
    <3> QED BY <1>2, <1>3, <2>1, <2>3, <3>1 DEF PoolInv, NotBegun
  <2> QED BY <1>3, <2>2, <2>3
<1>9. MainInv'
  <2>1. result' # "none" => pc'[Main] = "done"
    BY <1>1, <1>2 DEF Walk, Return, Go, TypeOK
  <2> QED BY <1>1, <1>2, <1>3, <2>1 DEF MainInv, MainPlaces, Asking
<1>10. SentInv'
  <2>1. result' # "ok"
    BY <1>2 DEF Walk, Return
  <2> QED BY <1>1, <1>3, <2>1 DEF SentInv, OkMeansWhole
<1>11. \A w \in Workers : WorkerInv(w)'
  BY <1>3, <1>4 DEF DriveInv, WorkerInv
<1>12. CoverInv' /\ FinalInv'
  <2>1. next' = 1 /\ mode' = "directory"
    BY <1>2, <1>3 DEF NotBegun
  <2>2. \A i \in 1..listed' : ~(i < 1)
    BY <1>5
  <2> QED BY <2>1, <2>2 DEF CoverInv, FinalInv
<1> QED BY <1>7, <1>8, <1>9, <1>10, <1>11, <1>12 DEF DriveInv

\* A spawned worker was counted when the pool was set up.
LEMMA SpawnKeeps ==
    ASSUME DriveInv, NEW w \in Workers, Spawn(w)
    PROVE  DriveInv'
<1>1. /\ TypeOK /\ PoolInv /\ MainInv /\ SentInv /\ CoverInv /\ FinalInv
      /\ w # Main /\ w \in Procs /\ Main \in Procs /\ Workers \subseteq Procs
  BY DriveAssumption DEF DriveInv, Procs
<1>2. /\ UNCHANGED <<bearer, reply, item, attempt, refreshed, listed, next, live, abort,
                     fileId, mode, threw, closing, cancelled, result, cached, stale, minted,
                     revoked, session, stored>>
      /\ pc' = [pc EXCEPT ![w] = "new"] /\ pc[w] = "unborn" /\ pc[Main] = "spawn"
  BY DEF Spawn, Go, workVars, poolVars, mainVars, tokenVars, googleVars
<1>3. pc'[w] = "new" /\ \A p \in Procs \ {w} : pc'[p] = pc[p]
  BY <1>1, <1>2 DEF TypeOK
<1>4. TypeOK'
  BY <1>1, <1>2 DEF TypeOK, Places
<1>5. PoolInv'
  <2>1. Counted
    BY <1>1, <1>2 DEF PoolInv, NotBegun
  <2>2. Gone' = Gone /\ Spawned' = Spawned \union {w} /\ w \notin Spawned
    BY <1>1, <1>2, <1>3 DEF Gone, Spawned
  <2>3. Cardinality(Spawned') = Cardinality(Spawned) + 1
    BY <2>2, GoneFacts, FS_AddElement
  <2>4. Parallelism(listed) \in Nat /\ Parallelism(listed)' = Parallelism(listed)
    BY <1>1, <1>2, ParallelismRange, WholeFacts DEF TypeOK, Parallelism
  <2>5. Cardinality(Spawned') <= Parallelism(listed)
    BY <2>3, <2>4, GoneFacts DEF Spawn
  <2>6. Counted'
    BY <1>1, <1>2, <1>3, <2>1, <2>2, <2>4, <2>5 DEF Counted
  <2> QED BY <2>6 DEF PoolInv
<1>6. MainInv' /\ SentInv'
  BY <1>1, <1>2, <1>3 DEF MainInv, SentInv, OkMeansWhole
<1>7. ASSUME NEW v \in Workers PROVE WorkerInv(v)'
  <2>1. CASE v = w
    BY <1>2, <1>3, <2>1 DEF DriveInv, WorkerInv, WorkerPlaces, Active, Busy, Asking
  <2>2. CASE v # w
    BY <1>1, <1>2, <1>3, <2>2 DEF DriveInv, WorkerInv
  <2> QED BY <2>1, <2>2
<1>8. CoverInv' /\ FinalInv'
  BY <1>1, <1>2 DEF CoverInv, FinalInv
<1> QED BY <1>4, <1>5, <1>6, <1>7, <1>8 DEF DriveInv

\* The signal, and what becomes of tokens, disturb nothing.
LEMMA RestKeeps ==
    ASSUME DriveInv, CancelUpload \/ TokenAges \/ TokensRevoked \/ UNCHANGED vars
    PROVE  DriveInv'
<1>1. /\ UNCHANGED <<pc, bearer, reply, item, attempt, refreshed, listed, next, live,
                     abort, fileId, mode, threw, closing, result, cached, minted, session, stored>>
      /\ cancelled' = cancelled \/ (cancelled' = TRUE /\ mode # "directory")
      /\ stale' = stale \/ stale' = TRUE
      /\ revoked' = revoked \/ revoked' = minted
  BY DEF CancelUpload, TokenAges, TokensRevoked, vars, workVars, poolVars, mainVars,
         tokenVars, googleVars
<1>2. TypeOK'
  <2>1. stale' \in BOOLEAN /\ cancelled' \in BOOLEAN /\ revoked' \in 0..MaxTokens
    BY <1>1 DEF DriveInv, TypeOK
  <2> QED BY <1>1, <2>1 DEF DriveInv, TypeOK
<1>3. PoolInv'
  BY <1>1 DEF DriveInv, PoolInv, NotBegun, Counted, Spawned, Gone, Parallelism
<1>4. MainInv'
  BY <1>1 DEF DriveInv, MainInv
<1>5. SentInv' /\ CoverInv' /\ FinalInv'
  BY <1>1 DEF DriveInv, SentInv, OkMeansWhole, CoverInv, FinalInv
<1>6. \A w \in Workers : WorkerInv(w)'
  BY <1>1 DEF DriveInv, WorkerInv
<1> QED BY <1>2, <1>3, <1>4, <1>5, <1>6 DEF DriveInv

-----------------------------------------------------------------------------
(***************************************************************************)
(* The invariant, and what follows.                                        *)
(***************************************************************************)

\* Before the first await nothing has been claimed, sent or stored.
LEMMA DriveInit == Init => DriveInv
<1> SUFFICES ASSUME Init PROVE DriveInv
  OBVIOUS
<1>1. Main \in Procs /\ Main \notin Workers /\ Workers \subseteq Procs
  BY DriveAssumption DEF Procs
<1>2. pc[Main] = "begin" /\ \A w \in Workers : pc[w] = "unborn" /\ reply[w] = "none"
  BY <1>1 DEF Init
<1>3. 0 \in 0..Items /\ 0 \in 0..MaxTokens /\ 0 \in 0..MaxRetries
      /\ 0 \in 0..Cardinality(Workers) /\ Items \in 0..Items
  BY DriveAssumption, FS_CardinalityType
<1>4. TypeOK
  <2>1. pc \in [Procs -> Places]
    BY DEF Init, Places
  <2>2. /\ bearer \in [Procs -> 0..MaxTokens] /\ reply \in [Procs -> Replies]
        /\ item \in [Workers -> 0..Items] /\ attempt \in [Workers -> 0..MaxRetries]
        /\ refreshed \in [Workers -> BOOLEAN]
    BY <1>3 DEF Init, Replies
  <2>3. next \in Nat \ {0} /\ stored \in SUBSET Whole
    BY DEF Init
  <2>4. listed \in 0..Items /\ live \in 0..Cardinality(Workers)
    BY <1>3 DEF Init
  <2>5. cached \in 0..MaxTokens /\ minted \in 0..MaxTokens /\ revoked \in 0..MaxTokens
    BY <1>3 DEF Init
  <2> QED BY <2>1, <2>2, <2>3, <2>4, <2>5 DEF Init, TypeOK
<1>5. PoolInv /\ MainInv
  BY <1>2 DEF Init, PoolInv, NotBegun, Spawned, MainInv, MainPlaces, Asking
<1>6. SentInv
  BY <1>1 DEF Init, SentInv, OkMeansWhole
<1>7. \A w \in Workers : WorkerInv(w)
  BY <1>2 DEF Init, WorkerInv, WorkerPlaces, Busy, Asking
<1>8. CoverInv
  <2>1. \A i \in 1..Items : ~(i < 1)
    BY DriveAssumption
  <2> QED BY <2>1 DEF Init, CoverInv
<1>9. FinalInv
  BY WholeFacts DEF Init, FinalInv
<1> QED BY <1>4, <1>5, <1>6, <1>7, <1>8, <1>9 DEF DriveInv

\* DriveInv is inductive.
LEMMA DriveStep == DriveInv /\ [Next]_vars => DriveInv'
<1> SUFFICES ASSUME DriveInv, [Next]_vars PROVE DriveInv'
  OBVIOUS
<1>1. CASE \E w \in Workers : WorkerStep(w)
  BY <1>1, WorkerKeeps
<1>2. CASE MainSteps
  <2>1. TypeOK' /\ MainMoves
    BY <1>2, MainTypes, MainLeavesWorkers DEF DriveInv
  <2> QED BY <1>2, <2>1, MainKeepsWorkers, MainPool, MainOrder, MainSent DEF DriveInv
<1>3. CASE Walk
  BY <1>3, WalkKeeps
<1>4. CASE \E w \in Workers : Spawn(w)
  BY <1>4, SpawnKeeps
<1>5. CASE CancelUpload \/ TokenAges \/ TokensRevoked \/ UNCHANGED vars
  BY <1>5, RestKeeps
<1> QED BY <1>1, <1>2, <1>3, <1>4, <1>5 DEF Next, MainStep, MainSteps

\* The pool that has emptied without an error or an exception has left nothing
\* out, and for a file it has the id.
LEMMA NoGap == DriveInv => NoSilentGap
<1> SUFFICES ASSUME DriveInv, Spawned # {}, live = 0, ~abort, ~threw
             PROVE  1..listed \subseteq stored /\ (mode = "resumable" => fileId)
  BY DEF NoSilentGap
<1>1. \A w \in Workers : item[w] = 0
  BY EmptyPool DEF DriveInv, WorkerInv, Busy, Asking
<1>2. PICK w \in Workers : pc[w] = "gone"
  BY EmptyPool DEF Spawned
<1>3. next > listed /\ next \in Nat /\ listed \in Nat
  BY <1>2, WholeFacts DEF DriveInv, WorkerInv, TypeOK
<1>4. \A i \in 1..listed : i < next /\ i # 0
  BY <1>3
<1>5. 1..listed \subseteq stored
  BY <1>1, <1>4 DEF DriveInv, CoverInv
<1>6. mode = "resumable" => stored = Whole
  <2>1. mode = "resumable" => listed = Items
    BY DEF DriveInv, MainInv
  <2> QED BY <1>5, <2>1 DEF DriveInv, TypeOK, Whole
<1> QED BY <1>1, <1>5, <1>6 DEF DriveInv, FinalInv

\* Types, for every number of workers, items, retries and tokens
\* (google_drive_uploader.cpp).
THEOREM DriveTypes == Spec => []TypeOK
<1>1. DriveInv => TypeOK
  BY DEF DriveInv
<1> QED BY <1>1, DriveInit, DriveStep, PTL DEF Spec

\* A pool that has emptied without an error and without a worker that threw has
\* stored every item, and for a file one of its workers held the file id.
THEOREM NothingIsLeftOut == Spec => []NoSilentGap
  BY NoGap, DriveInit, DriveStep, PTL DEF Spec

\* upload_file reports success only of a whole file, whatever its workers throw,
\* and upload_directory only of everything it listed, unless a worker threw.
THEOREM SuccessIsWhole == Spec => []OkMeansWhole
<1>1. DriveInv => OkMeansWhole
  BY DEF DriveInv, SentInv
<1> QED BY <1>1, DriveInit, DriveStep, PTL DEF Spec

\* abort_resumable_session deletes the session under no worker.
THEOREM SessionIsKept == Spec => []SessionOutlivesPuts
<1>1. DriveInv => SessionOutlivesPuts
  BY EmptyPool DEF DriveInv, MainInv, SessionOutlivesPuts
<1> QED BY <1>1, DriveInit, DriveStep, PTL DEF Spec
=============================================================================
