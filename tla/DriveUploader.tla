---------------------------- MODULE DriveUploader ----------------------------
(***************************************************************************)
(* GoogleDriveUploader: one upload_file or upload_directory, the workers   *)
(* it spawns, the bearer token they share, and Google.                     *)
(*                                                                         *)
(* A file of at most 5 MiB goes up in one request ("multipart").  A larger *)
(* one opens a resumable session, and workers PUT its chunks; a directory  *)
(* is walked and workers upload its files.  Both pools have one shape:     *)
(* workers claim items by index, the first error stops everyone, and the   *)
(* last to leave cancels the timer on which the uploading coroutine, here  *)
(* Main, is parked.                                                        *)
(*                                                                         *)
(* Cancellation reaches Main alone: the workers are spawned detached and   *)
(* without a slot, so their look at the cancellation state never finds     *)
(* anything.  Hence `abort' is set with first_error and only then, and one *)
(* variable stands for the two.                                            *)
(***************************************************************************)
EXTENDS Naturals, FiniteSets

CONSTANTS Workers,     \* as many as parallel_chunks_per_file allows, or
                       \* parallel_files_per_directory
          Main,        \* the coroutine that runs upload_file or upload_directory
          Items,       \* chunks of the file, files of the directory
          MaxRetries,  \* max_retries
          MaxTokens    \* bound on the tokens that Google tells apart

ASSUME DriveAssumption ==
    /\ Main \notin Workers
    /\ IsFiniteSet(Workers)
    /\ Items \in Nat \ {0}
    /\ Workers # {}
    /\ MaxRetries \in Nat
    /\ MaxTokens \in Nat \ {0}

Procs == Workers \union {Main}
Whole == 1..Items

VARIABLES
    mode,       \* "multipart", "resumable" or "directory"
    threw,      \* the body of a worker has thrown
    pc,         \* where a coroutine is suspended
    bearer,     \* the token it puts in its next request
    reply,      \* the reply to it
    item,       \* the item a worker has claimed
    attempt,    \* retries of that item so far
    refreshed,  \* refreshed_bearer of the attempt
    listed,     \* length of the plan: chunks of the file, files the walk found
    next,       \* shared: next_index
    live,       \* shared: live_workers
    abort,      \* shared: abort, first_error
    fileId,     \* shared: a file id has been received
    closing,    \* Main is in abort_resumable_session
    cancelled,  \* the signal of this upload was emitted
    result,     \* what the caller of Main gets
    cached,     \* cached_token_, 0 when there is none
    stale,      \* ... which is less than 60 s from its expiry
    minted,     \* Google: tokens issued,
    revoked,    \* those up to this one are refused,
    session,    \* the resumable session,
    stored      \* and the items that have arrived

poolVars   == <<listed, next, live, abort, fileId>>
workVars   == <<item, attempt, refreshed>>
tokenVars  == <<cached, stale, minted, revoked>>
googleVars == <<session, stored>>
mainVars   == <<mode, threw, closing, cancelled, result>>
vars == <<pc, bearer, reply, workVars, poolVars, mainVars, tokenVars, googleVars>>

Places == {"unborn", "new", "top", "claim", "uploading", "backoff", "leaving",
           "gone", "bearer", "minting", "minted", "request", "answered",
           "begin", "walk", "spawn", "join", "joined", "done"}
Replies == {"none", "ok", "more", "unauthorised", "busy", "lost", "refused"}

TypeOK ==
    /\ mode \in {"multipart", "resumable", "directory"}
    /\ threw \in BOOLEAN
    /\ pc \in [Procs -> Places]
    /\ bearer \in [Procs -> 0..MaxTokens]
    /\ reply \in [Procs -> Replies]
    /\ item \in [Workers -> 0..Items]
    /\ attempt \in [Workers -> 0..MaxRetries]
    /\ refreshed \in [Workers -> BOOLEAN]
    /\ listed \in 0..Items
    /\ next \in Nat \ {0}
    /\ live \in 0..Cardinality(Workers)
    /\ abort \in BOOLEAN
    /\ fileId \in BOOLEAN
    /\ closing \in BOOLEAN
    /\ cancelled \in BOOLEAN
    /\ result \in {"none", "ok", "error", "thrown", "cancelled"}
    /\ cached \in 0..MaxTokens
    /\ stale \in BOOLEAN
    /\ minted \in 0..MaxTokens
    /\ revoked \in 0..MaxTokens
    /\ session \in {"none", "open", "deleted"}
    /\ stored \in SUBSET Whole

Init ==
    /\ mode \in {"multipart", "resumable", "directory"}
    /\ threw = FALSE
    /\ pc = [p \in Procs |-> IF p = Main THEN "begin" ELSE "unborn"]
    /\ bearer = [p \in Procs |-> 0]
    /\ reply = [p \in Procs |-> "none"]
    /\ item = [w \in Workers |-> 0]
    /\ attempt = [w \in Workers |-> 0]
    /\ refreshed = [w \in Workers |-> FALSE]
    /\ listed = Items
    /\ next = 1
    /\ live = 0
    /\ abort = FALSE
    /\ fileId = FALSE
    /\ closing = FALSE
    /\ cancelled = FALSE
    /\ result = "none"
    /\ cached = 0
    /\ stale = FALSE
    /\ minted = 0
    /\ revoked = 0
    /\ session = "none"
    /\ stored = {}

Go(p, place) == pc' = [pc EXCEPT ![p] = place]

\* The end of a turn of the worker's loop; what it knew of the item is gone.
Leave(w, place) ==
    /\ Go(w, place)
    /\ item' = [item EXCEPT ![w] = 0]
    /\ attempt' = [attempt EXCEPT ![w] = 0]
    /\ refreshed' = [refreshed EXCEPT ![w] = FALSE]

\* record_error, and out of the loop.
Bail(w) ==
    /\ abort' = TRUE
    /\ Leave(w, "leaving")
    /\ UNCHANGED <<listed, next, live, fileId>>

\* Main returns r to its caller, or throws ("thrown", "cancelled").
Return(r) ==
    /\ result' = r
    /\ Go(Main, "done")

-----------------------------------------------------------------------------
(***************************************************************************)
(* The bearer token.                                                       *)
(***************************************************************************)

\* acquire_bearer(): the cached token unless it is about to expire.  Nobody
\* waits for anybody else's exchange.
AcquireBearer(p) ==
    /\ pc[p] = "bearer"
    /\ p = Main => ~cancelled
    /\ \/ /\ cached # 0 /\ ~stale
          /\ bearer' = [bearer EXCEPT ![p] = cached]
          /\ Go(p, "request")
       \/ /\ cached = 0 \/ stale
          /\ Go(p, "minting")
          /\ UNCHANGED bearer
    /\ UNCHANGED <<reply, workVars, poolVars, mainVars, tokenVars, googleVars>>

\* Google answers the exchange of mint_bearer().
MintBearer(p) ==
    /\ pc[p] = "minting"
    /\ minted' = IF minted < MaxTokens THEN minted + 1 ELSE minted
    /\ bearer' = [bearer EXCEPT ![p] = minted']
    /\ Go(p, "minted")
    /\ UNCHANGED <<reply, workVars, poolVars, mainVars, cached, stale, revoked,
                   googleVars>>

\* The exchange fails: the chunk's error, or Main's; abort_resumable_session
\* sends its DELETE all the same.
MintFails(p) ==
    /\ pc[p] = "minting"
    /\ \/ p \in Workers /\ Bail(p) /\ UNCHANGED result
       \/ p = Main /\ ~closing /\ Return("error") /\ UNCHANGED <<workVars, poolVars>>
       \/ /\ p = Main /\ closing
          /\ Go(p, "request")
          /\ UNCHANGED <<workVars, poolVars, result>>
    /\ UNCHANGED <<bearer, reply, mode, threw, closing, cancelled, tokenVars,
                   googleVars>>

\* Under token_mutex_ again, the token replaces whatever is cached now.
StoreBearer(p) ==
    /\ pc[p] = "minted"
    /\ cached' = bearer[p]
    /\ stale' = FALSE
    /\ Go(p, "request")
    /\ UNCHANGED <<bearer, reply, workVars, poolVars, mainVars, minted, revoked,
                   googleVars>>

\* The cached token comes within 60 s of its expiry.
TokenAges ==
    /\ cached # 0
    /\ ~stale
    /\ stale' = TRUE
    /\ UNCHANGED <<pc, bearer, reply, workVars, poolVars, mainVars, cached,
                   minted, revoked, googleVars>>

\* Google stops accepting the tokens it has issued.  The last token of the
\* bound stands for all later ones and is always accepted.
TokensRevoked ==
    /\ revoked < minted
    /\ minted < MaxTokens
    /\ revoked' = minted
    /\ UNCHANGED <<pc, bearer, reply, workVars, poolVars, mainVars, cached, stale,
                   minted, googleVars>>

-----------------------------------------------------------------------------
(***************************************************************************)
(* Requests.  Each has a deadline, so each gets a reply, "lost" at worst.  *)
(***************************************************************************)

Answered(p, r) ==
    /\ reply' = [reply EXCEPT ![p] = r]
    /\ bearer' = [bearer EXCEPT ![p] = 0]
    /\ Go(p, "answered")

\* Google, a chunk: it takes chunks in any order, answers 308 ("more") until it
\* has all of them, and then 200 with the file id to whoever asks.  A body that
\* cannot be parsed counts as "refused".
PutChunk(w) ==
    /\ pc[w] = "request"
    /\ \/ /\ bearer[w] > revoked
          /\ session = "open"
          /\ stored' = stored \union {item[w]}
          /\ \E r \in {IF stored' = Whole THEN "ok" ELSE "more", "lost", "refused"} :
                Answered(w, r)
       \/ /\ bearer[w] <= revoked
          /\ Answered(w, "unauthorised")
          /\ UNCHANGED stored
       \/ /\ \E r \in {"busy", "lost", "refused"} : Answered(w, r)
          /\ UNCHANGED stored
    /\ UNCHANGED <<workVars, poolVars, mainVars, tokenVars, session>>

\* Google, Main's requests: the multipart upload, the session, its DELETE.
\* Every status other than a success is one to Main.
MainRequest ==
    /\ pc[Main] = "request"
    /\ \/ /\ ~closing /\ mode = "multipart" /\ bearer[Main] > revoked
          /\ stored' = Whole
          /\ \E r \in {"ok", "lost"} : Answered(Main, r)
          /\ UNCHANGED session
       \/ /\ ~closing /\ mode = "resumable" /\ bearer[Main] > revoked
          /\ session' = "open"
          /\ Answered(Main, "ok")
          /\ UNCHANGED stored
       \/ /\ closing /\ bearer[Main] > revoked
          /\ session' = "deleted"
          /\ \E r \in {"ok", "lost"} : Answered(Main, r)
          /\ UNCHANGED stored
       \/ /\ \E r \in {"lost", "refused"} : Answered(Main, r)
          /\ UNCHANGED <<session, stored>>
    /\ UNCHANGED <<workVars, poolVars, mainVars, tokenVars>>

-----------------------------------------------------------------------------
(***************************************************************************)
(* A worker.                                                               *)
(***************************************************************************)

\* A chunk worker opens the file; a file worker has nothing to open.
WorkerStarts(w) ==
    /\ pc[w] = "new"
    /\ \/ Go(w, "top") /\ UNCHANGED <<workVars, poolVars>>
       \/ mode = "resumable" /\ Bail(w)
    /\ UNCHANGED <<bearer, reply, mainVars, tokenVars, googleVars>>

CheckAbort(w) ==
    /\ pc[w] = "top"
    /\ Go(w, IF abort THEN "leaving" ELSE "claim")
    /\ UNCHANGED <<bearer, reply, workVars, poolVars, mainVars, tokenVars,
                   googleVars>>

\* next_index.fetch_add(1); a chunk is read from the file, in full or not.
Claim(w) ==
    /\ pc[w] = "claim"
    /\ next' = next + 1
    /\ \/ /\ next > listed
          /\ Go(w, "leaving")
          /\ UNCHANGED <<workVars, abort>>
       \/ /\ next <= listed
          /\ Go(w, IF mode = "resumable" THEN "bearer" ELSE "uploading")
          /\ item' = [item EXCEPT ![w] = next]
          /\ UNCHANGED <<attempt, refreshed, abort>>
       \/ /\ next <= listed
          /\ mode = "resumable"
          /\ abort' = TRUE
          /\ Go(w, "leaving")
          /\ UNCHANGED workVars
    /\ UNCHANGED <<bearer, reply, listed, live, fileId, mainVars, tokenVars, googleVars>>

\* upload_file() of one file of a directory.
FileUploaded(w) ==
    /\ pc[w] = "uploading"
    /\ \/ Leave(w, "top") /\ stored' = stored \union {item[w]} /\ UNCHANGED poolVars
       \/ Bail(w) /\ UNCHANGED stored
    /\ UNCHANGED <<bearer, reply, mainVars, tokenVars, session>>

\* The body of a worker throws: memory runs out while a chunk is read or copied
\* into its request, or upload_file() of one file throws, as meta.dump() does on
\* a name that is not UTF-8.  `detached' drops the exception, ExitGuard counts the
\* worker out, and nobody records an error.
WorkerThrows(w) ==
    /\ \/ pc[w] = "claim" /\ mode = "resumable" /\ next <= listed
       \/ pc[w] \in {"request", "uploading"}
    /\ next' = IF pc[w] = "claim" THEN next + 1 ELSE next
    /\ \/ UNCHANGED stored
       \/ pc[w] = "uploading" /\ stored' = stored \union {item[w]}
    /\ threw' = TRUE
    /\ bearer' = [bearer EXCEPT ![w] = 0]
    /\ Leave(w, "leaving")
    /\ UNCHANGED <<reply, listed, live, abort, fileId, mode, closing, cancelled,
                   result, tokenVars, session>>

\* A retry loop that goes on to the next chunk when its budget is spent.
RetryForgets(w) ==
    /\ pc[w] = "answered"
    /\ reply[w] \in {"busy", "lost"}
    /\ reply' = [reply EXCEPT ![w] = "none"]
    /\ \/ /\ attempt[w] < MaxRetries
          /\ attempt' = [attempt EXCEPT ![w] = @ + 1]
          /\ refreshed' = [refreshed EXCEPT ![w] = FALSE]
          /\ Go(w, "backoff")
          /\ UNCHANGED item
       \/ /\ attempt[w] = MaxRetries
          /\ Leave(w, "top")
    /\ UNCHANGED <<bearer, poolVars, mainVars, tokenVars, googleVars>>

\* 5xx, 429 or a transport error: back off, or give up after max_retries.
Retry(w) ==
    /\ pc[w] = "answered"
    /\ reply[w] \in {"busy", "lost"}
    /\ reply' = [reply EXCEPT ![w] = "none"]
    /\ \/ /\ attempt[w] < MaxRetries
          /\ attempt' = [attempt EXCEPT ![w] = @ + 1]
          /\ refreshed' = [refreshed EXCEPT ![w] = FALSE]
          /\ Go(w, "backoff")
          /\ UNCHANGED <<item, poolVars>>
       \/ /\ attempt[w] = MaxRetries
          /\ Bail(w)
    /\ UNCHANGED <<bearer, mainVars, tokenVars, googleVars>>

\* The backoff timer expires.
BackoffEnds(w) ==
    /\ pc[w] = "backoff"
    /\ \/ abort /\ Leave(w, "leaving")
       \/ ~abort /\ Go(w, "bearer") /\ UNCHANGED workVars
    /\ UNCHANGED <<bearer, reply, poolVars, mainVars, tokenVars, googleVars>>

\* 401: drop the cached token, whichever it is by now, and ask once more.
RefreshBearer(w) ==
    /\ pc[w] = "answered"
    /\ reply[w] = "unauthorised"
    /\ ~refreshed[w]
    /\ reply' = [reply EXCEPT ![w] = "none"]
    /\ refreshed' = [refreshed EXCEPT ![w] = TRUE]
    /\ cached' = 0
    /\ stale' = FALSE
    /\ Go(w, "bearer")
    /\ UNCHANGED <<bearer, item, attempt, poolVars, mainVars, minted, revoked,
                   googleVars>>

\* Any other status ends the chunk: unless the others have stopped meanwhile,
\* 200 brings the file id, 308 nothing, and the rest is an error.
ChunkDone(w) ==
    /\ pc[w] = "answered"
    /\ \/ reply[w] \in {"ok", "more", "refused"}
       \/ reply[w] = "unauthorised" /\ refreshed[w]
    /\ reply' = [reply EXCEPT ![w] = "none"]
    /\ \/ abort /\ Leave(w, "leaving") /\ UNCHANGED poolVars
       \/ /\ ~abort
          /\ reply[w] \in {"ok", "more"}
          /\ fileId' = (fileId \/ reply[w] = "ok")
          /\ Leave(w, "top")
          /\ UNCHANGED <<listed, next, live, abort>>
       \/ /\ ~abort
          /\ reply[w] \in {"refused", "unauthorised"}
          /\ Bail(w)
    /\ UNCHANGED <<bearer, mainVars, tokenVars, googleVars>>

\* An exit guard that compares the count after the decrement with one.
ExitWakesEarly(w) ==
    /\ pc[w] = "leaving"
    /\ live' = live - 1
    /\ pc' = [pc EXCEPT ![w] = "gone",
                        ![Main] = IF live' = 1 /\ @ = "join" THEN "joined" ELSE @]
    /\ UNCHANGED <<bearer, reply, workVars, listed, next, abort, fileId, mainVars,
                   tokenVars, googleVars>>

\* An exit guard that takes the old count for the new one.
ExitNeverWakes(w) ==
    /\ pc[w] = "leaving"
    /\ live' = live - 1
    /\ pc' = [pc EXCEPT ![w] = "gone",
                        ![Main] = IF live = 0 /\ @ = "join" THEN "joined" ELSE @]
    /\ UNCHANGED <<bearer, reply, workVars, listed, next, abort, fileId, mainVars,
                   tokenVars, googleVars>>

\* ~ExitGuard(): the last one out cancels the timer, which wakes Main if Main
\* is waiting on it by then.
Exit(w) ==
    /\ pc[w] = "leaving"
    /\ live' = live - 1
    /\ pc' = [pc EXCEPT ![w] = "gone",
                        ![Main] = IF live = 1 /\ @ = "join" THEN "joined" ELSE @]
    /\ UNCHANGED <<bearer, reply, workVars, listed, next, abort, fileId, mainVars,
                   tokenVars, googleVars>>

WorkerStep(w) ==
    \/ WorkerStarts(w) \/ CheckAbort(w) \/ Claim(w) \/ FileUploaded(w)
    \/ WorkerThrows(w)
    \/ AcquireBearer(w) \/ MintBearer(w) \/ MintFails(w) \/ StoreBearer(w)
    \/ PutChunk(w) \/ Retry(w) \/ BackoffEnds(w) \/ RefreshBearer(w)
    \/ ChunkDone(w) \/ Exit(w)

-----------------------------------------------------------------------------
(***************************************************************************)
(* Main.                                                                   *)
(***************************************************************************)

\* upload_file() and upload_directory() up to their first await: credentials,
\* the file or directory, the parent folder, the cancellation state.
Begin ==
    /\ pc[Main] = "begin"
    /\ \/ /\ ~cancelled
          /\ Go(Main, IF mode = "directory" THEN "walk" ELSE "bearer")
          /\ UNCHANGED result
       \/ Return("error")
    /\ UNCHANGED <<bearer, reply, workVars, poolVars, mode, threw, closing, cancelled,
                   tokenVars, googleVars>>

\* The clamp of the parallelism, for a plan of n items.
Parallelism(n) ==
    IF n = 0 THEN 1 ELSE IF n < Cardinality(Workers) THEN n ELSE Cardinality(Workers)

\* Main throws while it builds the body of its first request.
MainThrows ==
    /\ pc[Main] = "request"
    /\ ~closing
    /\ Return("thrown")
    /\ UNCHANGED <<bearer, reply, workVars, poolVars, mode, threw, closing, cancelled,
                   tokenVars, googleVars>>

\* The folders are created one after the other and the files listed.  The error
\* of a failed increment is looked at inside the loop, which such an increment
\* ends: what was found so far is all there is.
Walk ==
    /\ pc[Main] = "walk"
    /\ \/ /\ listed' \in 0..Items
          /\ live' = Parallelism(listed')
          /\ Go(Main, "spawn")
          /\ UNCHANGED result
       \/ /\ \E r \in {"error", "thrown"} : Return(r)
          /\ UNCHANGED <<listed, live>>
    /\ UNCHANGED <<bearer, reply, workVars, next, abort, fileId, mode, threw, closing,
                   cancelled, tokenVars, googleVars>>

\* The reply to the first request.  With a session the file is probed, and the
\* session given back when it cannot be read.
Opened ==
    /\ pc[Main] = "answered"
    /\ ~closing
    /\ reply' = [reply EXCEPT ![Main] = "none"]
    /\ \/ /\ mode = "multipart"
          /\ Return(IF reply[Main] = "ok" THEN "ok" ELSE "error")
          /\ UNCHANGED <<closing, live>>
       \/ /\ mode = "resumable" /\ reply[Main] # "ok"
          /\ Return("error")
          /\ UNCHANGED <<closing, live>>
       \/ /\ mode = "resumable" /\ reply[Main] = "ok"
          /\ live' = Parallelism(listed)
          /\ Go(Main, "spawn")
          /\ UNCHANGED <<result, closing>>
       \/ /\ mode = "resumable" /\ reply[Main] = "ok"
          /\ Go(Main, "bearer")
          /\ closing' = TRUE
          /\ UNCHANGED <<result, live>>
    /\ UNCHANGED <<bearer, workVars, listed, next, abort, fileId, mode, threw,
                   cancelled, tokenVars, googleVars>>

Spawned == {w \in Workers : pc[w] # "unborn"}

\* One co_spawn of the loop; which name the worker has does not matter.
Spawn(w) ==
    /\ pc[Main] = "spawn"
    /\ pc[w] = "unborn"
    /\ Cardinality(Spawned) < Parallelism(listed)
    /\ Go(w, "new")
    /\ UNCHANGED <<bearer, reply, workVars, poolVars, mainVars, tokenVars,
                   googleVars>>

\* Main waits on the join timer, or throws instead when it is cancelled.
Park ==
    /\ pc[Main] = "spawn"
    /\ Cardinality(Spawned) = Parallelism(listed)
    /\ \/ ~cancelled /\ Go(Main, "join") /\ UNCHANGED result
       \/ cancelled /\ Return("cancelled")
    /\ UNCHANGED <<bearer, reply, workVars, poolVars, mode, threw, closing, cancelled,
                   tokenVars, googleVars>>

\* A join that looks only at the results.
JoinedIgnoresError ==
    /\ pc[Main] = "joined"
    /\ Return(IF mode = "directory" \/ fileId THEN "ok" ELSE "error")
    /\ UNCHANGED <<bearer, reply, workVars, poolVars, mode, threw, closing, cancelled,
                   tokenVars, googleVars>>

\* After the join: the first error, with the session given back, or the result.
Joined ==
    /\ pc[Main] = "joined"
    /\ \/ /\ mode = "directory"
          /\ Return(IF abort THEN "error" ELSE "ok")
          /\ UNCHANGED closing
       \/ /\ mode = "resumable" /\ abort
          /\ Go(Main, "bearer")
          /\ closing' = TRUE
          /\ UNCHANGED result
       \/ /\ mode = "resumable" /\ ~abort
          /\ Return(IF fileId THEN "ok" ELSE "error")
          /\ UNCHANGED closing
    /\ UNCHANGED <<bearer, reply, workVars, poolVars, mode, threw, cancelled, tokenVars,
                   googleVars>>

\* abort_resumable_session() only logs how its DELETE went.
Closed ==
    /\ pc[Main] = "answered"
    /\ closing
    /\ reply' = [reply EXCEPT ![Main] = "none"]
    /\ Return("error")
    /\ UNCHANGED <<bearer, workVars, poolVars, mode, threw, closing, cancelled,
                   tokenVars, googleVars>>

\* The cancellation reaches the await Main is at: a request or its next await
\* fails, the timer of the join is cancelled.
Interrupted ==
    /\ cancelled
    /\ \/ /\ pc[Main] \in {"bearer", "minting", "request"}
          /\ Return("cancelled")
       \/ /\ pc[Main] = "join"
          /\ Go(Main, "joined")
          /\ UNCHANGED result
    /\ UNCHANGED <<bearer, reply, workVars, poolVars, mode, threw, closing, cancelled,
                   tokenVars, googleVars>>

MainStep ==
    \/ Begin \/ Walk \/ Opened \/ Park \/ Joined \/ Closed \/ Interrupted
    \/ AcquireBearer(Main) \/ MintBearer(Main) \/ MintFails(Main)
    \/ StoreBearer(Main) \/ MainRequest \/ MainThrows
    \/ \E w \in Workers : Spawn(w)

\* The pipeline emits the signal of a file's upload; an upload_directory runs
\* in the use case itself, which has none.
CancelUpload ==
    /\ ~cancelled
    /\ mode # "directory"
    /\ pc[Main] # "done"
    /\ cancelled' = TRUE
    /\ UNCHANGED <<pc, bearer, reply, workVars, poolVars, mode, threw, closing, result,
                   tokenVars, googleVars>>

Next ==
    \/ \E w \in Workers : WorkerStep(w)
    \/ MainStep
    \/ CancelUpload \/ TokenAges \/ TokensRevoked

Spec == Init /\ [][Next]_vars

\* Every coroutine is resumed on a thread pool that does not starve, timers
\* expire and requests have deadlines.  Nothing is assumed of the upload_file()
\* of one file of a directory, which has a join of its own.
FairSpec ==
    /\ Spec
    /\ WF_vars(MainStep)
    /\ \A w \in Workers : WF_vars(pc[w] # "uploading" /\ WorkerStep(w))

-----------------------------------------------------------------------------
(***************************************************************************)
(* Properties.                                                             *)
(***************************************************************************)

\* When the last worker has left, nobody recorded an error and none threw,
\* everything that was planned is at Google and, for a file, somebody holds its
\* id: although chunks complete in any order, replies are lost and repeated and
\* tokens are refused under way, "no chunk returned final response" is never what
\* a finished pool reports.  A worker that throws leaves its item out without a
\* word, and the formula has to say so.
NoSilentGap ==
    Spawned # {} /\ live = 0 /\ ~abort /\ ~threw =>
        1..listed \subseteq stored /\ (mode = "resumable" => fileId)

\* An upload that reports success has put everything it planned on Google,
\* cancelled or not, and for a file also when workers threw: the id comes with
\* the last chunk only.  An upload_directory() one of whose workers threw may
\* report success of what the others sent.
OkMeansWhole ==
    result = "ok" /\ (mode = "directory" => ~threw) => 1..listed \subseteq stored

\* The session is deleted only when no worker can use it any more.
SessionOutlivesPuts ==
    session = "deleted" => \A w \in Workers : pc[w] \in {"unborn", "gone"}

\* Main, parked before the last worker has left, returns, also when workers throw
\* ("the use-case coroutine no longer deadlocks on async_wait"), provided that
\* the upload_file() of each file returns or throws.
JoinEnds ==
    (\A w \in Workers : []<>(pc[w] # "uploading"))
        => (pc[Main] = "join" /\ live > 0 ~> pc[Main] = "done")
=============================================================================
