--------------------------- MODULE TelegramUploader ---------------------------
(***************************************************************************)
(* TelegramUploader: a file that is too large for one message is split     *)
(* into parts on disk, which a pool of detached workers sends; a directory *)
(* is sent by such a pool too, file by file.  The last worker to leave     *)
(* cancels the timer on which the uploading coroutine waits.               *)
(***************************************************************************)
EXTENDS Naturals, FiniteSets

CONSTANTS Workers,   \* upload_parallelism, upload_files_parallelism
          MaxItems   \* parts of a file, or files of a directory

ASSUME TelegramAssumption == MaxItems \in Nat \ {0} /\ Workers # {} /\ IsFiniteSet(Workers)

VARIABLES
    mode,       \* what is uploaded: a file in one message, in parts, a directory
    main,       \* where the uploading coroutine is,
    verdict,    \* and what it returned
    asked,      \* whether its cancellation was asked for
    held,       \* the number of items that there are,
    total,      \* and of those that are to be sent
    disk,       \* the parts on disk
    next,       \* next_index
    abort,      \* abort, set together with first_error
    live,       \* workers that have not left
    worker,     \* where each worker is, and its item
    accepted,   \* how often TDLib has accepted a message with each item
    filled,     \* the items with a result
    threw,      \* a worker has left by an exception
    fired       \* the timer was cancelled: with main waiting, or in vain

poolVars == <<next, abort, live, worker, accepted, filled, threw>>
telegramVars == <<mode, main, verdict, asked, held, total, disk, poolVars, fired>>

Items == 1..MaxItems
Idle == [at |-> "idle", item |-> 0]

TelegramTypes ==
    /\ mode \in {"none", "whole", "parts", "directory"}
    /\ main \in {"idle", "sends", "splits", "spawns", "joins", "waits", "over"}
    /\ verdict \in {"none", "ok", "error", "thrown"}
    /\ asked \in BOOLEAN
    /\ held \in 0..MaxItems /\ total \in 0..MaxItems
    /\ disk \subseteq Items
    /\ next \in Nat \ {0}
    /\ abort \in BOOLEAN
    /\ live \in 0..Cardinality(Workers)
    /\ worker \in [Workers -> [at : {"idle", "ready", "sends", "left"}, item : 0..MaxItems]]
    /\ accepted \in [Items -> 0..2]
    /\ filled \subseteq Items
    /\ threw \in BOOLEAN
    /\ fired \in {"no", "woke", "missed"}

TelegramInit ==
    /\ mode = "none" /\ main = "idle" /\ verdict = "none" /\ asked = FALSE
    /\ held = 0 /\ total = 0 /\ disk = {}
    /\ next = 1 /\ abort = FALSE /\ live = 0
    /\ worker = [w \in Workers |-> Idle]
    /\ accepted = [i \in Items |-> 0]
    /\ filled = {} /\ threw = FALSE
    /\ fired = "no"

-----------------------------------------------------------------------------
(***************************************************************************)
(* The uploading coroutine.                                                *)
(***************************************************************************)
MainEnds(v) == main' = "over" /\ verdict' = v

\* upload_file(): the file is looked at, and a cancellation that came already.
FileBegins ==
    /\ main = "idle"
    /\ \/ /\ ~asked
          /\ UNCHANGED verdict
          /\ \/ mode' = "whole" /\ total' = 1 /\ main' = "sends"
             \/ mode' = "parts" /\ total' \in Items \ {1} /\ main' = "splits"
          /\ held' = total'
       \/ MainEnds("error") /\ UNCHANGED <<mode, held, total>>
    /\ UNCHANGED <<asked, disk, poolVars, fired>>

\* upload_directory(): its files are listed.  An increment of the iterator that
\* fails makes it the end iterator, so the walk stops there without an error.
DirectoryBegins ==
    /\ main = "idle"
    /\ ~asked
    /\ mode' = "directory"
    /\ held' \in 0..MaxItems
    /\ \/ /\ total' \in 0..held'
          /\ IF total' = 0 THEN MainEnds("ok") ELSE main' = "spawns" /\ UNCHANGED verdict
       \/ total' = 0 /\ MainEnds("error")
    /\ UNCHANGED <<asked, disk, poolVars, fired>>

\* A file of moderate size is one message.  TDLib answers with a message that is
\* still pending, and the gateway ignores the update that tells how that ends.  A
\* message that is reported as failed may have been accepted; the wait for it
\* throws when the coroutine was cancelled.
SendsWhole ==
    /\ main = "sends"
    /\ \/ accepted' = [accepted EXCEPT ![1] = @ + 1] /\ MainEnds("ok")
       \/ /\ MainEnds("error") \/ (asked /\ MainEnds("thrown"))
          /\ accepted' \in {accepted, [accepted EXCEPT ![1] = @ + 1]}
    /\ UNCHANGED <<mode, asked, held, total, disk, next, abort, live, worker, filled, threw, fired>>

\* split_file(), which leaves the parts it has written when it fails.
Splits ==
    /\ main = "splits"
    /\ \/ disk' = 1..total /\ main' = "spawns" /\ UNCHANGED verdict
       \/ /\ \E n \in 0..total : disk' = 1..n
          /\ MainEnds("error")
    /\ UNCHANGED <<mode, asked, held, total, poolVars, fired>>

\* The workers there may be, no more than there are items.
Crews ==
    LET size == IF Cardinality(Workers) < total THEN Cardinality(Workers) ELSE total
    IN {crew \in SUBSET Workers : Cardinality(crew) = size}

Hired(crew) ==
    [w \in Workers |-> IF w \in crew THEN [at |-> "ready", item |-> 0] ELSE Idle]

Spawns ==
    /\ main = "spawns"
    /\ main' = "joins"
    /\ \E crew \in Crews :
          /\ live' = Cardinality(crew)
          /\ worker' = Hired(crew)
    /\ UNCHANGED <<mode, verdict, asked, held, total, disk, next, abort, accepted, filled, threw, fired>>

\* PartsCleanup, on every way out of the scope of the pool.
RemovesParts == disk' = {}

\* async_wait on the timer, which throws when the coroutine was cancelled before.
Joins ==
    /\ main = "joins"
    /\ \/ /\ asked
          /\ MainEnds("thrown")
          /\ RemovesParts
       \/ /\ ~asked
          /\ main' = "waits"
          /\ UNCHANGED <<verdict, disk>>
    /\ UNCHANGED <<mode, asked, held, total, poolVars, fired>>

\* A file that does not look for a missing result.
FileVerdictUnlooked == IF abort THEN "error" ELSE "ok"

\* Only a file looks for a missing result.
FileVerdict == IF abort \/ filled # 1..total THEN "error" ELSE "ok"
DirectoryVerdict == IF abort THEN "error" ELSE "ok"

\* The wait is over: the last worker has left, or the coroutine was cancelled,
\* which it takes for the same.
Joined ==
    /\ main = "waits"
    /\ fired = "woke" \/ asked
    /\ MainEnds(IF mode = "parts" THEN FileVerdict ELSE DirectoryVerdict)
    /\ RemovesParts
    /\ UNCHANGED <<mode, asked, held, total, poolVars, fired>>

\* The signal of an upload of one file is emitted; nothing cancels the upload of
\* a directory.
TelegramCancel ==
    /\ ~asked
    /\ mode # "directory"
    /\ asked' = TRUE
    /\ UNCHANGED <<mode, main, verdict, held, total, disk, poolVars, fired>>

MainStep == FileBegins \/ DirectoryBegins \/ SendsWhole \/ Splits \/ Spawns \/ Joins \/ Joined

-----------------------------------------------------------------------------
(***************************************************************************)
(* A worker.  It has no slot, so it is not cancelled with the upload.      *)
(***************************************************************************)

\* ExitGuard: the last one cancels the timer, which wakes who waits by then.
Leaves(w) ==
    /\ worker' = [worker EXCEPT ![w] = [at |-> "left", item |-> 0]]
    /\ live' = live - 1
    /\ fired' = IF live = 1 THEN (IF main = "waits" THEN "woke" ELSE "missed") ELSE fired

\* The next item is taken, or the worker leaves: the upload was aborted, there is
\* none, or the part is not there any more.
Takes(w) ==
    /\ worker[w].at = "ready"
    /\ \/ /\ abort
          /\ Leaves(w)
          /\ UNCHANGED <<next, abort>>
       \/ /\ ~abort
          /\ next' = next + 1
          /\ \/ /\ next > total
                /\ Leaves(w)
                /\ UNCHANGED abort
             \/ /\ next <= total
                /\ mode = "parts" => next \in disk
                /\ worker' = [worker EXCEPT ![w] = [at |-> "sends", item |-> next]]
                /\ UNCHANGED <<live, fired, abort>>
             \/ /\ next <= total
                /\ mode = "parts"
                /\ abort' = TRUE
                /\ Leaves(w)
    /\ UNCHANGED <<mode, main, verdict, asked, held, total, disk, accepted, filled, threw>>

\* send_file(), or upload_file() of a file of the directory, with a pool of its own
\* when that is sent in parts.
Sends(w) ==
    /\ worker[w].at = "sends"
    /\ LET i == worker[w].item
           more == [accepted EXCEPT ![i] = @ + 1]
       IN \/ /\ accepted' = more
             /\ filled' = filled \union {i}
             /\ worker' = [worker EXCEPT ![w] = [at |-> "ready", item |-> 0]]
             /\ UNCHANGED <<abort, live, fired>>
          \/ /\ abort' = TRUE
             /\ accepted' \in {accepted, more}
             /\ Leaves(w)
             /\ UNCHANGED filled
    /\ UNCHANGED <<mode, main, verdict, asked, held, total, disk, next, threw>>

\* The body of a worker throws, which detached swallows: it leaves, and there is no
\* error.  A part may have its result by then.
Throws(w) ==
    /\ worker[w].at = "sends"
    /\ LET i == worker[w].item
           more == [accepted EXCEPT ![i] = @ + 1]
       IN \/ accepted' \in {accepted, more} /\ UNCHANGED filled
          \/ mode = "parts" /\ accepted' = more /\ filled' = filled \union {i}
    /\ threw' = TRUE
    /\ Leaves(w)
    /\ UNCHANGED <<mode, main, verdict, asked, held, total, disk, next, abort>>

PoolStep(w) == Takes(w) \/ Sends(w) \/ Throws(w)

\* A worker in an upload_file() of its own, which need not end.
InFile(w) == mode = "directory" /\ worker[w].at = "sends"

-----------------------------------------------------------------------------
\* An upload that reports success has had every item accepted by TDLib, and nothing
\* is sent twice.  A file in parts looks for its results, so that also holds when a
\* worker threw; a directory does not, nor does it notice that its walk ended early.
AllAccepted ==
    /\ \A i \in Items : accepted[i] <= 1
    /\ verdict = "ok" /\ (mode = "directory" => ~threw /\ total = held) =>
          \A i \in 1..held : accepted[i] = 1

\* Parts do not stay on disk once an upload that had workers is over, however it
\* ended (parts that could not all be written do stay); and without a cancellation
\* none is removed under a worker that sends it.
PartsRemoved ==
    /\ main = "over" /\ (\E w \in Workers : worker[w] # Idle) => disk = {}
    /\ ~asked /\ mode = "parts" =>
          \A w \in Workers : worker[w].at = "sends" => worker[w].item \in disk
=============================================================================
