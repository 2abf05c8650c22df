---------------------------- MODULE UploadsProofs ----------------------------
(***************************************************************************)
(* Proofs about the uploaders, for any number of uploads, workers, parts   *)
(* and files: an upload that reports success has delivered, one that is    *)
(* over has left nothing behind, and a late cancellation signals nobody.   *)
(* A behaviour is about one of the two uploaders, so each has an inductive *)
(* invariant of its own, which the steps of the other leave alone.         *)
(***************************************************************************)
EXTENDS Uploads, FiniteSetTheorems, TLAPS

(***************************************************************************)
(* rclone.                                                                 *)
(***************************************************************************)

\* The worker thread, its child and the published pid; and what run() and the
\* upload that awaits it know of them.
ThreadOf(r) ==
    /\ wp[r] \in {"none", "starts"} => child[r] = "none"
    /\ wp[r] \in {"forked", "drains", "waits", "grace"} => child[r] \in {"runs", "zombie"}
    /\ wp[r] \in {"reaped", "finished"} => child[r] = "reaped"
    /\ wp[r] = "failed" => child[r] \in {"none", "reaped"}
    /\ wp[r] = "threw" => child[r] \in {"runs", "zombie"}
    /\ r \in pid => wp[r] \in {"drains", "waits", "grace", "reaped", "threw"}

UploadOf(r) ==
    /\ rp[r] = "none" => wp[r] \in {"none", "finished", "failed", "threw"}
    /\ rp[r] # "none" <=> up[r] \in {"probing", "copying"}
    /\ up[r] \in {"probed", "copying"} => readiness # "unprobed"
    /\ up[r] # "over" => outcome[r] = "none"
    /\ outcome[r] = "ok" => ExitedWell(r) /\ readiness # "unprobed"

RcloneInv ==
    /\ SubprocessTypes
    /\ RcloneTypes
    /\ \A r \in Runs : ThreadOf(r) /\ UploadOf(r)

\* A step of one upload, its thread or its child leaves the others alone.
LEMMA OneRun ==
    ASSUME RcloneInv, NEW r \in Runs, SubprocessTypes', RcloneTypes',
           ThreadOf(r)', UploadOf(r)',
           readiness' = readiness \/ readiness' # "unprobed",
           \A q \in Runs \ {r} :
              /\ wp'[q] = wp[q] /\ child'[q] = child[q] /\ code'[q] = code[q]
              /\ rp'[q] = rp[q] /\ up'[q] = up[q] /\ outcome'[q] = outcome[q]
              /\ (q \in pid') = (q \in pid)
    PROVE  RcloneInv'
<1> SUFFICES ASSUME NEW q \in Runs, q # r PROVE ThreadOf(q)' /\ UploadOf(q)'
  BY DEF RcloneInv
<1>1. ThreadOf(q) /\ UploadOf(q)
  BY DEF RcloneInv
<1> QED BY <1>1 DEF ThreadOf, UploadOf, ExitedWell

\* The thread that attends to a child.
LEMMA AttendantKeeps == ASSUME RcloneInv, NEW r \in Runs, Attendant(r) PROVE RcloneInv'
<1>1. /\ WorkerStep(r) /\ UNCHANGED <<readiness, up, outcome>>
      /\ SubprocessTypes /\ RcloneTypes /\ ThreadOf(r) /\ UploadOf(r)
      /\ UNCHANGED <<rp, flag, aim, cancelled, down>>
  BY DEF Attendant, Rclone, rcloneVars, RcloneInv, WorkerStep, Fork, Publish, Drained,
         Deadline, SeesFlag, DrainThrows, Reap, GraceOver, Detach
<1>2. wp[r] \notin {"none", "finished", "failed", "threw"} /\ rp[r] # "none"
  BY <1>1 DEF UploadOf, WorkerStep, Fork, Publish, Drained, Deadline, SeesFlag, DrainThrows, Reap,
              GraceOver, Detach
<1>3. PICK place \in {"forked", "drains", "waits", "grace", "reaped", "finished", "failed", "threw"} :
         wp' = [wp EXCEPT ![r] = place]
  BY <1>1 DEF WorkerStep, Fork, Publish, Drained, Deadline, SeesFlag, DrainThrows, Reap, GraceOver,
              Detach, Worker
<1>4. PICK c \in {"none", "runs", "zombie", "reaped"}, k \in Codes :
         child' = [child EXCEPT ![r] = c] /\ code' = [code EXCEPT ![r] = k]
  <2>1. child = [child EXCEPT ![r] = child[r]] /\ code = [code EXCEPT ![r] = code[r]]
        /\ child[r] \in {"none", "runs", "zombie", "reaped"} /\ code[r] \in Codes
    BY <1>1 DEF SubprocessTypes
  <2>2. CASE GraceOver(r)
    <3>1. (IF child[r] = "runs" THEN "failure" ELSE code[r]) \in Codes
      BY <2>1 DEF Codes
    <3> QED BY <2>1, <2>2, <3>1 DEF GraceOver
  <2> QED BY <1>1, <2>1, <2>2 DEF WorkerStep, Fork, Publish, Drained, Deadline, SeesFlag, DrainThrows, Reap,
                                Detach
<1>5. \/ pid' = pid
      \/ pid' = pid \union {r} /\ place = "drains"
      \/ pid' = pid \ {r} /\ place \in {"finished", "failed"}
  <2>1. wp'[r] = place
    BY <1>1, <1>3 DEF SubprocessTypes
  <2> QED BY <1>1, <1>3, <2>1 DEF WorkerStep, Fork, Publish, Drained, Deadline, SeesFlag, DrainThrows, Reap, GraceOver,
                Detach, Worker, SubprocessTypes
<1>6. timedOut' \subseteq Runs
  BY <1>1 DEF WorkerStep, Fork, Publish, Drained, Deadline, SeesFlag, DrainThrows, Reap, GraceOver,
              Detach, SubprocessTypes
<1>7. SubprocessTypes'
  BY <1>1, <1>3, <1>4, <1>5, <1>6 DEF SubprocessTypes
<1>8. wp'[r] = place /\ child'[r] = c /\ code'[r] = k
  BY <1>1, <1>3, <1>4 DEF SubprocessTypes
<1>9. ThreadOf(r)'
  BY <1>1, <1>5, <1>8 DEF ThreadOf, WorkerStep, Fork, Publish, Drained, Deadline, SeesFlag, DrainThrows, Reap,
                    GraceOver, Detach, Worker, SubprocessTypes
<1>10. UploadOf(r)'
  BY <1>1, <1>2 DEF UploadOf, ExitedWell
<1>11. RcloneTypes'
  BY <1>1 DEF RcloneTypes
<1> QED BY <1>1, <1>3, <1>4, <1>5, <1>7, <1>9, <1>10, <1>11, OneRun DEF RcloneInv, SubprocessTypes

\* A cancellation, its signal, and the exit of the child.
LEMMA AroundKeeps == ASSUME RcloneInv, NEW r \in Runs, Around(r) PROVE RcloneInv'
<1>1. /\ EmitCancel(r) \/ KillNow(r) \/ ChildExits(r)
      /\ UNCHANGED <<readiness, up, outcome, rp, wp, pid, timedOut, down>>
      /\ SubprocessTypes /\ RcloneTypes /\ ThreadOf(r) /\ UploadOf(r)
  BY DEF Around, Rclone, rcloneVars, RcloneInv, EmitCancel, KillNow, ChildExits
<1>2. cancelled' \subseteq Runs /\ flag' \subseteq Runs /\ aim' \subseteq Runs
  BY <1>1 DEF EmitCancel, KillNow, ChildExits, SubprocessTypes
<1>3. RcloneTypes'
  BY <1>1 DEF RcloneTypes
<1>4. CASE UNCHANGED <<child, code>>
  BY <1>1, <1>2, <1>3, <1>4, OneRun
     DEF RcloneInv, SubprocessTypes, ThreadOf, UploadOf, ExitedWell
<1>5. CASE ChildExits(r)
  <2>a. PICK k \in Codes : code' = [code EXCEPT ![r] = k]
    BY <1>5 DEF ChildExits, Codes
  <2>1. SubprocessTypes'
    BY <1>1, <1>2, <1>5, <2>a DEF ChildExits, SubprocessTypes
  <2>2. wp[r] \in {"forked", "drains", "waits", "grace", "threw"} /\ child'[r] = "zombie"
    BY <1>1, <1>5 DEF ChildExits, SubprocessTypes, ThreadOf
  <2>3. ThreadOf(r)' /\ UploadOf(r)'
    BY <1>1, <2>2 DEF ThreadOf, UploadOf, ExitedWell
  <2>4. \A q \in Runs \ {r} : child'[q] = child[q] /\ code'[q] = code[q]
    BY <1>1, <1>5 DEF ChildExits, SubprocessTypes
  <2> QED BY <1>1, <1>3, <2>1, <2>3, <2>4, OneRun
<1> QED BY <1>1, <1>4, <1>5 DEF EmitCancel, KillNow

\* The upload of a task.
LEMMA UploaderKeeps == ASSUME RcloneInv, NEW r \in Runs, Uploader(r) PROVE RcloneInv'
<1>1. /\ UploadStep(r) \/ RunStep(r)
      /\ SubprocessTypes /\ RcloneTypes /\ ThreadOf(r) /\ UploadOf(r)
  BY DEF Uploader, Rclone, RcloneInv
<1>2. CASE RunStep(r)
  <2>1. /\ UNCHANGED <<readiness, up, outcome, wp, child, code, pid, flag, aim, timedOut, cancelled>>
        /\ down' \in BOOLEAN /\ rp[r] # "none"
        /\ rp' = rp \/ rp' = [rp EXCEPT ![r] = "polls"]
    BY <1>1, <1>2 DEF RunStep, RunAssigns, RunTerminates, Unwinds, rcloneVars, runVars, SubprocessTypes
  <2>2. SubprocessTypes' /\ RcloneTypes' /\ rp'[r] # "none" /\ \A q \in Runs \ {r} : rp'[q] = rp[q]
    BY <1>1, <2>1 DEF SubprocessTypes, RcloneTypes
  <2>3. ThreadOf(r)' /\ UploadOf(r)'
    BY <1>1, <2>1, <2>2 DEF ThreadOf, UploadOf, ExitedWell
  <2> QED BY <2>1, <2>2, <2>3, OneRun
<1>3. ASSUME NEW place \in {"begun", "probing", "probed", "copying", "over"},
             NEW o \in {"none", "ok", "error", "cancelled", "thrown"},
             up' = [up EXCEPT ![r] = place], outcome' = [outcome EXCEPT ![r] = o],
             readiness' \in {"unprobed", "missing", "ready"}
      PROVE  /\ RcloneTypes' /\ up'[r] = place /\ outcome'[r] = o
             /\ \A q \in Runs \ {r} : up'[q] = up[q] /\ outcome'[q] = outcome[q]
  BY <1>1, <1>3 DEF RcloneTypes
<1>4. /\ outcome = [outcome EXCEPT ![r] = outcome[r]]
      /\ outcome[r] \in {"none", "ok", "error", "cancelled", "thrown"}
      /\ readiness \in {"unprobed", "missing", "ready"}
  BY <1>1 DEF RcloneTypes
<1>5. ASSUME UNCHANGED <<subprocessVars, readiness>>,
             up[r] \in {"idle", "begun", "probed"},
             \/ Over(r, "error") \/ Over(r, "cancelled") \/ Over(r, "thrown")
             \/ Goes(r, "begun")
             \/ Goes(r, "probed") /\ readiness = "ready"
      PROVE  RcloneInv'
  <2>1. PICK place \in {"begun", "probed", "over"},
             o \in {"none", "error", "cancelled", "thrown"} :
           /\ up' = [up EXCEPT ![r] = place] /\ outcome' = [outcome EXCEPT ![r] = o]
           /\ place # "over" => o = "none"
           /\ place = "probed" => readiness = "ready"
    BY <1>1, <1>4, <1>5 DEF Over, Goes, UploadOf
  <2>2. /\ RcloneTypes' /\ up'[r] = place /\ outcome'[r] = o
        /\ \A q \in Runs \ {r} : up'[q] = up[q] /\ outcome'[q] = outcome[q]
    BY <1>3, <1>4, <1>5, <2>1
  <2>3. UNCHANGED <<cancelled, rp, wp, child, code, pid, flag, aim, timedOut, down, readiness>>
    BY <1>5 DEF subprocessVars, runVars
  <2>4. SubprocessTypes' /\ ThreadOf(r)'
    BY <1>1, <2>3 DEF SubprocessTypes, ThreadOf
  <2>5. UploadOf(r)'
    BY <1>1, <1>5, <2>1, <2>2, <2>3 DEF UploadOf, ExitedWell
  <2> QED BY <2>2, <2>3, <2>4, <2>5, OneRun
<1>6. ASSUME RunSpawns(r), UNCHANGED readiness,
             \/ Goes(r, "probing") /\ up[r] = "begun"
             \/ Goes(r, "copying") /\ up[r] = "probed"
      PROVE  RcloneInv'
  <2>1. PICK place \in {"probing", "copying"} :
           /\ up' = [up EXCEPT ![r] = place] /\ outcome' = [outcome EXCEPT ![r] = "none"]
           /\ place = "copying" => readiness # "unprobed"
    BY <1>1, <1>4, <1>6 DEF Goes, UploadOf
  <2>2. /\ RcloneTypes' /\ up'[r] = place /\ outcome'[r] = "none"
        /\ \A q \in Runs \ {r} : up'[q] = up[q] /\ outcome'[q] = outcome[q]
    BY <1>3, <1>4, <1>6, <2>1
  <2>a. "none" \in Codes
    BY DEF Codes
  <2>3. /\ SubprocessTypes'
        /\ wp'[r] = "starts" /\ child'[r] = "none" /\ rp'[r] = "spawned" /\ r \notin pid'
        /\ \A q \in Runs \ {r} :
              /\ wp'[q] = wp[q] /\ child'[q] = child[q] /\ code'[q] = code[q]
              /\ rp'[q] = rp[q] /\ (q \in pid') = (q \in pid)
    BY <1>1, <1>6, <2>a DEF RunSpawns, Worker, SubprocessTypes
  <2>4. ThreadOf(r)' /\ UploadOf(r)'
    BY <1>6, <2>1, <2>2, <2>3 DEF ThreadOf, UploadOf
  <2> QED BY <1>6, <2>2, <2>3, <2>4, OneRun
<1>7. ASSUME RunReturns(r), readiness' \in {"ready", "missing"},
             \/ Goes(r, "probed") /\ up[r] = "probing"
             \/ Over(r, "error")
             \/ Over(r, "ok") /\ ExitedWell(r)
      PROVE  RcloneInv'
  <2>1. PICK place \in {"probed", "over"}, o \in {"none", "error", "ok"} :
           /\ up' = [up EXCEPT ![r] = place] /\ outcome' = [outcome EXCEPT ![r] = o]
           /\ place # "over" => o = "none"
           /\ o = "ok" => ExitedWell(r)
    BY <1>1, <1>4, <1>7 DEF Over, Goes, UploadOf
  <2>2. /\ RcloneTypes' /\ up'[r] = place /\ outcome'[r] = o
        /\ \A q \in Runs \ {r} : up'[q] = up[q] /\ outcome'[q] = outcome[q]
    BY <1>3, <1>4, <1>7, <2>1
  <2>3. /\ wp[r] \in Done /\ rp' = [rp EXCEPT ![r] = "none"]
        /\ UNCHANGED <<wp, child, code, pid, flag, aim, timedOut, cancelled, down>>
    BY <1>7 DEF RunReturns
  <2>a. wp[r] \in {"finished", "failed", "threw"}
    BY <2>3 DEF Done
  <2>4. SubprocessTypes' /\ ThreadOf(r)' /\ rp'[r] = "none" /\ \A q \in Runs \ {r} : rp'[q] = rp[q]
    BY <1>1, <2>3 DEF SubprocessTypes, ThreadOf
  <2>5. UploadOf(r)'
    BY <1>7, <2>1, <2>2, <2>3, <2>4, <2>a DEF UploadOf, ExitedWell
  <2> QED BY <1>7, <2>2, <2>3, <2>4, <2>5, OneRun
<1>8. CASE Upload(r)
  BY <1>5, <1>8 DEF Upload
<1>9. CASE Probe(r)
  BY <1>5, <1>6, <1>9 DEF Probe
<1>10. CASE ProbeReturns(r)
  BY <1>7, <1>10 DEF ProbeReturns
<1>11. CASE Copy(r)
  BY <1>5, <1>6, <1>11 DEF Copy
<1>12. CASE CopyReturns(r)
  BY <1>1, <1>4, <1>7, <1>12 DEF CopyReturns, UploadOf
<1> QED BY <1>1, <1>2, <1>8, <1>9, <1>10, <1>11, <1>12 DEF UploadStep

LEMMA RcloneInvStep == RcloneInv /\ [Next]_vars => RcloneInv'
<1> SUFFICES ASSUME RcloneInv, [Next]_vars PROVE RcloneInv'
  OBVIOUS
<1>1. CASE UNCHANGED <<subprocessVars, rcloneVars>>
  <2>1. UNCHANGED <<cancelled, rp, wp, child, code, pid, flag, aim, timedOut, down,
                    readiness, up, outcome>>
    BY <1>1 DEF subprocessVars, runVars, rcloneVars
  <2> QED BY <2>1 DEF RcloneInv, SubprocessTypes, RcloneTypes, ThreadOf, UploadOf, ExitedWell
<1> QED BY <1>1, UploaderKeeps, AttendantKeeps, AroundKeeps DEF Next, Telegram, vars

LEMMA RcloneInvHolds == Spec => []RcloneInv
<1>1. Init => RcloneInv
  <2>1. "none" \in Codes
    BY DEF Codes
  <2> SUFFICES ASSUME Init PROVE RcloneInv
    OBVIOUS
  <2>2. SubprocessTypes
    BY <2>1 DEF Init, SubprocessInit, SubprocessTypes
  <2>3. RcloneTypes
    BY DEF Init, RcloneInit, RcloneTypes
  <2>4. \A r \in Runs : ThreadOf(r) /\ UploadOf(r)
    BY DEF Init, SubprocessInit, RcloneInit, ThreadOf, UploadOf
  <2> QED BY <2>2, <2>3, <2>4 DEF RcloneInv
<1> QED BY <1>1, RcloneInvStep, PTL DEF Spec

\* CancelHandle: a cancellation that comes when the pid of a child was withdrawn
\* signals nobody, for any number of uploads and however often they run a child.
THEOREM LateCancelIsHarmless == Spec => LateCancelHarmless
<1>1. RcloneInv /\ [Next]_vars =>
         [\A r \in Runs : r \in aim' \ aim => wp[r] \notin {"finished", "failed"}]_aim
  <2> SUFFICES ASSUME RcloneInv, [Next]_vars, NEW r \in Runs, r \in aim', r \notin aim
               PROVE  wp[r] \notin {"finished", "failed"}
    OBVIOUS
  <2>1. EmitCancel(r) \/ \E q \in Runs : q # r /\ EmitCancel(q)
    BY DEF Next, vars, subprocessVars, runVars, Rclone, Telegram, Uploader, Attendant, Around,
           UploadStep, RunStep, Upload, Probe, ProbeReturns, Copy, CopyReturns,
           RunSpawns, RunAssigns, RunTerminates, RunReturns, KillNow, ChildExits,
           WorkerStep, Fork, Publish, Drained, Deadline, SeesFlag, DrainThrows, Reap, GraceOver, Detach
  <2>2. r \in pid
    BY <2>1 DEF EmitCancel
  <2> QED BY <2>2 DEF RcloneInv, ThreadOf
<1> QED BY <1>1, RcloneInvHolds, PTL DEF Spec, LateCancelHarmless

(***************************************************************************)
(* Telegram.                                                               *)
(***************************************************************************)
Active == {w \in Workers : worker[w].at \in {"ready", "sends"}}
NobodyHired == \A w \in Workers : worker[w] = Idle

\* The uploading coroutine: what it has before there are workers, what is on disk,
\* and that it outlives its workers unless it was cancelled.
MainInv ==
    /\ main \in {"idle", "sends", "splits", "spawns"} =>
          /\ NobodyHired /\ fired = "no" /\ next = 1 /\ ~abort /\ ~threw /\ filled = {}
          /\ \A i \in Items : accepted[i] = 0
    /\ main = "idle" => mode = "none"
    /\ main = "sends" => mode = "whole" /\ total = 1
    /\ main = "splits" => mode = "parts" /\ total # 0
    /\ main \in {"spawns", "joins", "waits"} => mode \in {"parts", "directory"} /\ total # 0
    /\ main # "over" => verdict = "none"
    /\ mode = "whole" => NobodyHired
    /\ mode # "directory" => held = total
    /\ mode = "directory" => ~asked
    /\ mode = "parts" /\ main \in {"spawns", "joins", "waits"} => disk = 1..total
    /\ main = "over" => NobodyHired \/ disk = {}
    /\ main = "over" /\ ~asked => Active = {}

\* The workers are counted, and only the last one fires the timer.
CountInv ==
    /\ live = Cardinality(Active)
    /\ fired # "no" => Active = {} /\ \E w \in Workers : worker[w].at = "left"

\* An item is below next_index, with a result or in the hands of one worker, who
\* has not sent it; unless the upload was aborted or a worker threw.
ItemInv ==
    /\ \A i \in Items : i \in filled => accepted[i] = 1
    /\ filled \subseteq 1..total
    /\ mode # "whole" => \A i \in Items : i >= next => accepted[i] = 0 /\ i \notin filled
    /\ \A w \in Workers : worker[w].at = "sends" =>
          /\ worker[w].item \in 1..total /\ worker[w].item < next
          /\ accepted[worker[w].item] = 0 /\ worker[w].item \notin filled
    /\ \A v, w \in Workers :
          worker[v].at = "sends" /\ worker[w].at = "sends" /\ worker[v].item = worker[w].item
          => v = w
    /\ (\E w \in Workers : worker[w].at = "left") => abort \/ threw \/ next > total
    /\ ~abort /\ ~threw => \A i \in 1..total : i < next =>
          i \in filled \/ \E w \in Workers : worker[w].at = "sends" /\ worker[w].item = i

TelegramInv == TelegramTypes /\ AllAccepted /\ MainInv /\ CountInv /\ ItemInv

LEMMA ActiveFinite == IsFiniteSet(Active) /\ Cardinality(Active) \in Nat
BY TelegramAssumption, FS_Subset, FS_CardinalityType DEF Active

\* The steps of the uploading coroutine, but for the one that starts the workers,
\* leave the pool alone.
LEMMA PoolKept ==
    ASSUME TelegramInv, UNCHANGED <<next, abort, live, worker, filled, threw, fired>>
    PROVE  /\ CountInv' /\ Active' = Active /\ NobodyHired' = NobodyHired
           /\ (UNCHANGED <<accepted, total, mode>> => ItemInv')
<1>1. Active' = Active
  BY DEF Active
<1> QED BY <1>1 DEF TelegramInv, CountInv, NobodyHired, ItemInv

LEMMA BeginsKeep ==
    ASSUME TelegramInv, FileBegins \/ DirectoryBegins
    PROVE  TelegramInv'
<1> USE TelegramAssumption DEF Items
<1>1. /\ main = "idle" /\ UNCHANGED <<asked, disk, next, abort, live, worker, accepted, filled, threw, fired>>
      /\ held' \in 0..MaxItems /\ total' \in 0..MaxItems
      /\ TelegramTypes /\ MainInv /\ NobodyHired /\ verdict = "none" /\ filled = {} /\ next = 1
      /\ \A i \in Items : accepted[i] = 0
  BY DEF FileBegins, DirectoryBegins, poolVars, TelegramInv, TelegramTypes, MainInv, MainEnds
<1>2. /\ CountInv' /\ Active' = Active /\ NobodyHired' = NobodyHired /\ Active = {}
  BY <1>1, PoolKept DEF Active, NobodyHired, Idle
<1>3. TelegramTypes'
  BY <1>1 DEF FileBegins, DirectoryBegins, MainEnds, TelegramTypes
<1>4. AllAccepted'
  BY <1>1 DEF FileBegins, DirectoryBegins, MainEnds, AllAccepted
<1>5. MainInv'
  BY <1>1, <1>2 DEF FileBegins, DirectoryBegins, MainEnds, MainInv
<1>6. ItemInv'
  BY <1>1, <1>2 DEF ItemInv, NobodyHired, Idle
<1> QED BY <1>2, <1>3, <1>4, <1>5, <1>6 DEF TelegramInv

LEMMA SendsWholeKeeps == ASSUME TelegramInv, SendsWhole PROVE TelegramInv'
<1> USE TelegramAssumption DEF Items
<1>1. /\ main = "sends" /\ UNCHANGED <<mode, asked, held, total, disk, next, abort, live, worker, filled, threw, fired>>
      /\ main' = "over" /\ mode = "whole" /\ total = 1
      /\ TelegramTypes /\ MainInv /\ NobodyHired /\ verdict = "none" /\ filled = {} /\ next = 1
      /\ \A i \in Items : accepted[i] = 0
  BY DEF SendsWhole, TelegramInv, MainInv, MainEnds
<1>2. /\ CountInv' /\ Active' = Active /\ NobodyHired' = NobodyHired /\ Active = {}
  BY <1>1, PoolKept DEF Active, NobodyHired, Idle
<1>3. /\ accepted' = accepted \/ accepted' = [accepted EXCEPT ![1] = 1]
      /\ verdict' \in {"ok", "error", "thrown"}
      /\ verdict' = "ok" => accepted' = [accepted EXCEPT ![1] = 1]
  BY <1>1 DEF SendsWhole, MainEnds, TelegramTypes
<1>4. TelegramTypes' /\ AllAccepted'
  BY <1>1, <1>3 DEF TelegramTypes, AllAccepted, MainInv
<1>5. MainInv' /\ ItemInv'
  BY <1>1, <1>2 DEF MainInv, ItemInv, NobodyHired, Idle
<1> QED BY <1>2, <1>4, <1>5 DEF TelegramInv

LEMMA SplitsKeeps == ASSUME TelegramInv, Splits PROVE TelegramInv'
<1> USE TelegramAssumption DEF Items
<1>1. /\ main = "splits" /\ UNCHANGED <<mode, asked, held, total, next, abort, live, worker, accepted, filled, threw, fired>>
      /\ mode = "parts" /\ total # 0 /\ TelegramTypes /\ MainInv /\ NobodyHired /\ ItemInv /\ AllAccepted
      /\ \/ disk' = 1..total /\ main' = "spawns" /\ verdict' = verdict
         \/ /\ \E n \in 0..total : disk' = 1..n
            /\ main' = "over" /\ verdict' = "error"
  BY DEF Splits, TelegramInv, MainInv, MainEnds, poolVars
<1>2. /\ CountInv' /\ ItemInv' /\ Active' = Active /\ NobodyHired' = NobodyHired /\ Active = {}
  BY <1>1, PoolKept DEF Active, NobodyHired, Idle
<1>3. disk' \subseteq 1..MaxItems
  BY <1>1 DEF TelegramTypes
<1>4. TelegramTypes' /\ AllAccepted'
  BY <1>1, <1>3 DEF TelegramTypes, AllAccepted
<1>5. MainInv'
  BY <1>1, <1>2 DEF MainInv
<1> QED BY <1>2, <1>4, <1>5 DEF TelegramInv

\* As many workers are counted as are hired.
LEMMA SpawnsKeeps == ASSUME TelegramInv, Spawns PROVE TelegramInv'
<1> USE TelegramAssumption DEF Items
<1>1. PICK crew \in Crews : live' = Cardinality(crew) /\ worker' = Hired(crew)
  BY DEF Spawns
<1>2. /\ main = "spawns" /\ main' = "joins"
      /\ UNCHANGED <<mode, verdict, asked, held, total, disk, next, abort, accepted, filled, threw, fired>>
      /\ TelegramTypes /\ MainInv /\ AllAccepted /\ crew \in SUBSET Workers
      /\ fired = "no" /\ next = 1 /\ filled = {} /\ mode \in {"parts", "directory"} /\ total # 0
      /\ \A i \in Items : accepted[i] = 0
  BY DEF Spawns, TelegramInv, MainInv, Crews
<1>3. /\ \A w \in Workers : worker'[w] \in {[at |-> "ready", item |-> 0], Idle}
      /\ worker' \in [Workers -> {[at |-> "ready", item |-> 0], Idle}]
      /\ \A w \in Workers : worker'[w].at = IF w \in crew THEN "ready" ELSE "idle"
  BY <1>1 DEF Hired, Idle
<1>4. Active' = crew
  BY <1>2, <1>3 DEF Active
<1>5. Cardinality(crew) \in 0..Cardinality(Workers)
  BY <1>2, FS_Subset, FS_CardinalityType
<1>6. TelegramTypes'
  <2>1. {[at |-> "ready", item |-> 0], Idle}
          \subseteq [at : {"idle", "ready", "sends", "left"}, item : 0..MaxItems]
    BY DEF Idle
  <2> QED BY <1>1, <1>2, <1>3, <1>5, <2>1 DEF TelegramTypes
<1>7. AllAccepted' /\ CountInv'
  BY <1>1, <1>2, <1>4 DEF AllAccepted, CountInv
<1>8. MainInv'
  BY <1>2 DEF MainInv
<1>9. ItemInv'
  BY <1>2, <1>3 DEF ItemInv
<1> QED BY <1>6, <1>7, <1>8, <1>9 DEF TelegramInv

\* Without abort, and if no worker threw, once every worker has left, every item has its result.
LEMMA LastOneOut ==
    ASSUME TelegramInv, Active = {}, \E w \in Workers : worker[w].at = "left", ~abort, ~threw
    PROVE  \A i \in 1..total : i \in filled
<1>1. next > total /\ \A w \in Workers : worker[w].at # "sends"
  BY DEF TelegramInv, ItemInv, Active
<1> QED BY <1>1, TelegramAssumption DEF TelegramInv, ItemInv, TelegramTypes

LEMMA JoinsKeep == ASSUME TelegramInv, Joins \/ Joined PROVE TelegramInv'
<1> USE TelegramAssumption DEF Items
<1>1. /\ main \in {"joins", "waits"}
      /\ UNCHANGED <<mode, asked, held, total, next, abort, live, worker, accepted, filled, threw, fired>>
      /\ TelegramTypes /\ MainInv /\ ItemInv /\ AllAccepted /\ CountInv /\ total # 0
      /\ mode \in {"parts", "directory"} /\ (mode = "directory" => ~asked)
  BY DEF Joins, Joined, TelegramInv, MainInv, poolVars
<1>2. \/ main' = "waits" /\ UNCHANGED <<verdict, disk>>
      \/ /\ main' = "over" /\ disk' = {} /\ verdict' \in {"error", "thrown", "ok"}
         /\ ~asked => fired = "woke"
         /\ verdict' = "ok" => /\ ~abort
                               /\ filled = 1..total \/ (mode = "directory" /\ fired = "woke" /\ mode' = "directory")
  BY <1>1 DEF Joins, Joined, MainEnds, RemovesParts, FileVerdict, DirectoryVerdict
<1>3. /\ CountInv' /\ ItemInv' /\ Active' = Active /\ NobodyHired' = NobodyHired
  BY <1>1, PoolKept
<1>4. TelegramTypes'
  BY <1>1, <1>2 DEF TelegramTypes
<1>5. AllAccepted'
  <2>1. verdict' = "ok" /\ main' = "over" /\ (mode = "directory" => ~threw) =>
           \A i \in 1..total : i \in filled
    BY <1>1, <1>2, LastOneOut DEF CountInv
  <2>2. \A i \in 1..total : i \in Items
    BY <1>1 DEF TelegramTypes
  <2>3. main' = "waits" => verdict' # "ok"
    BY <1>1, <1>2 DEF MainInv
  <2> QED BY <1>1, <1>2, <2>1, <2>2, <2>3 DEF AllAccepted, ItemInv, MainInv
<1>6. MainInv'
  BY <1>1, <1>2, <1>3 DEF MainInv, CountInv
<1> QED BY <1>3, <1>4, <1>5, <1>6 DEF TelegramInv

LEMMA CancelKeeps == ASSUME TelegramInv, TelegramCancel PROVE TelegramInv'
<1>1. /\ asked' = TRUE /\ mode # "directory"
      /\ UNCHANGED <<mode, main, verdict, held, total, disk, next, abort, live, worker, accepted, filled, threw, fired>>
  BY DEF TelegramCancel, poolVars
<1>2. /\ CountInv' /\ ItemInv' /\ Active' = Active /\ NobodyHired' = NobodyHired
  BY <1>1, PoolKept
<1>3. TelegramTypes' /\ AllAccepted' /\ MainInv'
  BY <1>1, <1>2 DEF TelegramInv, TelegramTypes, AllAccepted, MainInv
<1> QED BY <1>2, <1>3 DEF TelegramInv

-----------------------------------------------------------------------------
\* ExitGuard: the count goes down with the worker, and the timer fires when the
\* last one leaves and not before.
LEMMA LeavesCounted ==
    ASSUME TelegramInv, NEW w \in Workers, w \in Active, Leaves(w)
    PROVE  /\ CountInv' /\ live' \in 0..Cardinality(Workers)
           /\ fired' \in {"no", "woke", "missed"}
           /\ worker' \in [Workers -> [at : {"idle", "ready", "sends", "left"}, item : 0..MaxItems]]
           /\ worker'[w].at = "left" /\ \A v \in Workers \ {w} : worker'[v] = worker[v]
           /\ Active' = Active \ {w}
<1> USE TelegramAssumption
<1>1. TelegramTypes /\ CountInv
  BY DEF TelegramInv
<1>2. /\ worker'[w].at = "left" /\ \A v \in Workers \ {w} : worker'[v] = worker[v]
      /\ worker' \in [Workers -> [at : {"idle", "ready", "sends", "left"}, item : 0..MaxItems]]
  BY <1>1 DEF Leaves, TelegramTypes
<1>3. Active' = Active \ {w}
  BY <1>2 DEF Active
<1>4. /\ IsFiniteSet(Active) /\ IsFiniteSet(Active') /\ Cardinality(Active) \in Nat
      /\ Cardinality(Active') = Cardinality(Active) - 1 /\ Cardinality(Active') \in Nat
  BY <1>3, ActiveFinite, FS_RemoveElement, FS_CardinalityType
<1>5. live' = Cardinality(Active')
  BY <1>1, <1>4 DEF Leaves, CountInv
<1>6. live = 1 => Active' = {}
  BY <1>1, <1>4, FS_EmptySet DEF CountInv
<1>7. live # 1 => fired' = "no"
  BY <1>1 DEF Leaves, CountInv
<1>8. CountInv'
  BY <1>2, <1>5, <1>6, <1>7 DEF CountInv
<1>9. live' \in 0..Cardinality(Workers)
  BY <1>1, <1>4, <1>5, FS_CardinalityType DEF TelegramTypes, CountInv
<1>10. fired' \in {"no", "woke", "missed"}
  BY <1>1 DEF Leaves, TelegramTypes
<1> QED BY <1>2, <1>3, <1>8, <1>9, <1>10

\* What a worker does is no business of the uploading coroutine.
LEMMA MainKept ==
    ASSUME TelegramInv, NEW w \in Active,
           UNCHANGED <<mode, main, verdict, asked, held, total, disk>>, Active' \subseteq Active
    PROVE  MainInv'
<1>1. ~NobodyHired /\ Active # {}
  BY DEF NobodyHired, Idle, Active
<1> QED BY <1>1 DEF TelegramInv, MainInv

LEMMA TakesKeeps == ASSUME TelegramInv, NEW w \in Workers, Takes(w) PROVE TelegramInv'
<1> USE TelegramAssumption DEF Items
<1>1. /\ w \in Active /\ worker[w].at = "ready"
      /\ UNCHANGED <<mode, main, verdict, asked, held, total, disk, accepted, filled, threw>>
      /\ TelegramTypes /\ AllAccepted /\ CountInv /\ ItemInv
      /\ next \in Nat \ {0} /\ total \in 0..MaxItems /\ mode # "whole"
  BY DEF Takes, Active, TelegramInv, TelegramTypes, MainInv, NobodyHired, Idle
<1>2. AllAccepted'
  BY <1>1 DEF AllAccepted
<1>3. CASE Leaves(w)
  <2>1. /\ CountInv' /\ live' \in 0..Cardinality(Workers)
        /\ fired' \in {"no", "woke", "missed"}
        /\ worker' \in [Workers -> [at : {"idle", "ready", "sends", "left"}, item : 0..MaxItems]]
        /\ worker'[w].at = "left" /\ \A v \in Workers \ {w} : worker'[v] = worker[v]
        /\ Active' = Active \ {w}
    BY <1>1, <1>3, LeavesCounted
  <2>2. /\ next' \in {next, next + 1} /\ abort' \in BOOLEAN
        /\ (abort' \/ next > total) /\ (abort => abort')
    <3>1. CASE abort
      BY <1>1, <3>1 DEF Takes, TelegramTypes
    <3>2. CASE ~abort
      <4>1. [worker EXCEPT ![w] = [at |-> "sends", item |-> next]][w].at # "left"
        BY <1>1 DEF TelegramTypes
      <4>2. \/ next > total /\ abort' = abort
            \/ abort' = TRUE
        BY <2>1, <3>2, <4>1 DEF Takes
      <4> QED BY <1>1, <3>2, <4>2 DEF Takes, TelegramTypes
    <3> QED BY <3>1, <3>2
  <2>3. TelegramTypes'
    BY <1>1, <2>1, <2>2 DEF TelegramTypes
  <2>4. MainInv'
    BY <1>1, <2>1, MainKept
  <2>5. ItemInv'
    BY <1>1, <2>1, <2>2 DEF ItemInv
  <2> QED BY <1>2, <2>1, <2>3, <2>4, <2>5 DEF TelegramInv
<1>4. CASE ~Leaves(w)
  <2>1. /\ next' = next + 1 /\ next <= total /\ ~abort
        /\ worker' = [worker EXCEPT ![w] = [at |-> "sends", item |-> next]]
        /\ UNCHANGED <<live, fired, abort>>
    BY <1>4 DEF Takes
  <2>2. /\ worker'[w].at = "sends" /\ worker'[w].item = next
        /\ \A v \in Workers \ {w} : worker'[v] = worker[v]
        /\ worker' \in [Workers -> [at : {"idle", "ready", "sends", "left"}, item : 0..MaxItems]]
    BY <1>1, <2>1 DEF TelegramTypes
  <2>3. Active' = Active
    BY <1>1, <2>2 DEF Active
  <2>4. CountInv'
    BY <1>1, <2>1, <2>3 DEF CountInv
  <2>5. TelegramTypes'
    BY <1>1, <2>1, <2>2 DEF TelegramTypes
  <2>6. MainInv'
    BY <1>1, <2>3, MainKept
  <2>7. accepted[next] = 0 /\ next \notin filled /\ next \in 1..total
    BY <1>1, <2>1 DEF ItemInv
  <2>8. ItemInv'
    <3>1. \A v \in Workers : worker[v].at = "sends" => worker[v].item < next
      BY <1>1 DEF ItemInv
    <3>2. \A u, v \in Workers :
             worker'[u].at = "sends" /\ worker'[v].at = "sends" /\ worker'[u].item = worker'[v].item
             => u = v
      <4> SUFFICES ASSUME NEW u \in Workers, NEW v \in Workers,
                          worker'[u].at = "sends", worker'[v].at = "sends",
                          worker'[u].item = worker'[v].item
                   PROVE  u = v
        OBVIOUS
      <4>1. CASE u # w /\ v # w
        BY <1>1, <2>2, <4>1 DEF ItemInv
      <4>2. CASE (u = w) # (v = w)
        BY <1>1, <2>2, <3>1, <4>2
      <4> QED BY <4>1, <4>2
    <3>3. ~threw => \A i \in 1..total : i < next + 1 =>
             i \in filled \/ \E v \in Workers : worker'[v].at = "sends" /\ worker'[v].item = i
      <4> SUFFICES ASSUME ~threw, NEW i \in 1..total, i < next + 1, i \notin filled
                   PROVE  \E v \in Workers : worker'[v].at = "sends" /\ worker'[v].item = i
        OBVIOUS
      <4>1. CASE i = next
        BY <2>2, <4>1
      <4>2. CASE i < next
        <5>1. PICK v \in Workers : worker[v].at = "sends" /\ worker[v].item = i
          BY <1>1, <2>1, <4>2 DEF ItemInv
        <5> QED BY <1>1, <2>2, <5>1
      <4> QED BY <1>1, <4>1, <4>2
    <3>4. \A v \in Workers : worker'[v].at = "sends" =>
             /\ worker'[v].item \in 1..total /\ worker'[v].item < next + 1
             /\ accepted[worker'[v].item] = 0 /\ worker'[v].item \notin filled
      BY <1>1, <2>2, <2>7 DEF ItemInv, TelegramTypes
    <3>5. (\E v \in Workers : worker'[v].at = "left") => abort \/ threw \/ next > total
      BY <1>1, <2>2 DEF ItemInv
    <3> QED BY <1>1, <2>1, <3>2, <3>3, <3>4, <3>5 DEF ItemInv
  <2> QED BY <1>2, <2>4, <2>5, <2>6, <2>8 DEF TelegramInv
<1> QED BY <1>3, <1>4

LEMMA SendsKeeps ==
    ASSUME TelegramInv, NEW w \in Workers, Sends(w) \/ Throws(w)
    PROVE  TelegramInv'
<1> USE TelegramAssumption DEF Items
<1> DEFINE i == worker[w].item
<1>1. /\ w \in Active /\ worker[w].at = "sends"
      /\ UNCHANGED <<mode, main, verdict, asked, held, total, disk, next>>
      /\ TelegramTypes /\ AllAccepted /\ CountInv /\ ItemInv /\ MainInv
      /\ next \in Nat \ {0} /\ total \in 0..MaxItems /\ mode # "whole"
      /\ i \in 1..total /\ i < next /\ accepted[i] = 0 /\ i \notin filled
  BY DEF Sends, Throws, Active, TelegramInv, TelegramTypes, MainInv, ItemInv, NobodyHired, Idle
<1>2. verdict # "ok" /\ \A v \in Workers \ {w} : worker[v].at = "sends" => worker[v].item # i
  BY <1>1 DEF AllAccepted, ItemInv, MainInv
<1>3. CASE Leaves(w)
  <2>1. /\ CountInv' /\ live' \in 0..Cardinality(Workers)
        /\ fired' \in {"no", "woke", "missed"}
        /\ worker' \in [Workers -> [at : {"idle", "ready", "sends", "left"}, item : 0..MaxItems]]
        /\ worker'[w].at = "left" /\ \A v \in Workers \ {w} : worker'[v] = worker[v]
        /\ Active' = Active \ {w}
    BY <1>1, <1>3, LeavesCounted
  <2>2. /\ abort' \/ threw'
        /\ abort' \in BOOLEAN /\ threw' \in BOOLEAN
        /\ \/ filled' = filled /\ accepted' \in {accepted, [accepted EXCEPT ![i] = 1]}
           \/ filled' = filled \union {i} /\ accepted' = [accepted EXCEPT ![i] = 1]
    <3>1. [worker EXCEPT ![w] = [at |-> "ready", item |-> 0]][w].at # "left"
      BY <1>1 DEF TelegramTypes
    <3>2. CASE Sends(w)
      <4>1. abort' = TRUE /\ threw' = threw /\ filled' = filled
        BY <2>1, <3>1, <3>2 DEF Sends
      <4>2. accepted' \in {accepted, [accepted EXCEPT ![i] = 1]}
        BY <1>1, <2>1, <3>1, <3>2 DEF Sends
      <4>3. threw' \in BOOLEAN
        BY <1>1, <4>1 DEF TelegramTypes
      <4> QED BY <4>1, <4>2, <4>3
    <3>3. CASE Throws(w)
      BY <1>1, <3>3 DEF Throws, TelegramTypes
    <3> QED BY <3>2, <3>3
  <2>a. /\ accepted' \in [Items -> 0..2] /\ accepted'[i] \in {0, 1}
        /\ \A j \in Items \ {i} : accepted'[j] = accepted[j]
        /\ filled \subseteq filled' /\ filled' \subseteq filled \union {i}
        /\ i \in filled' => accepted'[i] = 1
    BY <1>1, <2>2 DEF TelegramTypes
  <2>3. TelegramTypes' /\ AllAccepted'
    <3> HIDE DEF i
    <3>1. TelegramTypes'
      BY <1>1, <2>1, <2>2, <2>a DEF TelegramTypes
    <3>2. AllAccepted'
      BY <1>1, <1>2, <2>a DEF AllAccepted
    <3> QED BY <3>1, <3>2
  <2>4. MainInv'
    BY <1>1, <2>1, MainKept
  <2>5. ItemInv'
    <3>1. \A v \in Workers : worker'[v].at = "sends" =>
             v # w /\ worker'[v] = worker[v] /\ worker'[v].item # i
      BY <1>2, <2>1
    <3>2. \A v \in Workers : worker'[v].at = "sends" =>
             /\ worker'[v].item \in 1..total /\ worker'[v].item < next
             /\ accepted'[worker'[v].item] = 0 /\ worker'[v].item \notin filled'
      <4> HIDE DEF i
      <4> QED BY <1>1, <2>a, <3>1 DEF ItemInv
    <3>3. \A u, v \in Workers :
             worker'[u].at = "sends" /\ worker'[v].at = "sends" /\ worker'[u].item = worker'[v].item
             => u = v
      BY <1>1, <3>1 DEF ItemInv
    <3> HIDE DEF i
    <3>4. i \in 1..total /\ i < next /\ \A j \in Items : j \in filled' => j \in filled \/ j = i
      BY <1>1, <2>a
    <3>5. filled' \subseteq 1..total /\ \A j \in Items : j \in filled' => accepted'[j] = 1
      BY <1>1, <2>a, <3>4 DEF ItemInv
    <3>6. mode # "whole" => \A j \in Items : j >= next => accepted'[j] = 0 /\ j \notin filled'
      BY <1>1, <2>a, <3>4 DEF ItemInv
    <3> QED BY <1>1, <2>2, <3>2, <3>3, <3>5, <3>6 DEF ItemInv
  <2> QED BY <2>1, <2>3, <2>4, <2>5 DEF TelegramInv
<1>4. CASE ~Leaves(w)
  <2>1. /\ accepted' = [accepted EXCEPT ![i] = 1] /\ filled' = filled \union {i}
        /\ worker' = [worker EXCEPT ![w] = [at |-> "ready", item |-> 0]]
        /\ UNCHANGED <<live, fired, abort, threw>>
    BY <1>1, <1>4 DEF Sends, Throws
  <2>2. /\ worker'[w].at = "ready"
        /\ \A v \in Workers \ {w} : worker'[v] = worker[v]
        /\ worker' \in [Workers -> [at : {"idle", "ready", "sends", "left"}, item : 0..MaxItems]]
    BY <1>1, <2>1 DEF TelegramTypes
  <2>3. Active' = Active
    BY <1>1, <2>2 DEF Active
  <2>4. CountInv'
    BY <1>1, <2>1, <2>2, <2>3 DEF CountInv
  <2>a. /\ accepted' \in [Items -> 0..2] /\ accepted'[i] = 1
        /\ \A j \in Items \ {i} : accepted'[j] = accepted[j]
    BY <1>1, <2>1 DEF TelegramTypes
  <2>5. TelegramTypes' /\ AllAccepted'
    <3>0. i \in Items /\ filled \subseteq Items
      BY <1>1 DEF TelegramTypes
    <3>1. filled' \subseteq Items
      <4> HIDE DEF i, Items
      <4> QED BY <2>1, <3>0
    <3> HIDE DEF i
    <3>2. TelegramTypes'
      BY <1>1, <2>1, <2>2, <2>a, <3>1 DEF TelegramTypes
    <3>3. AllAccepted'
      BY <1>1, <1>2, <2>a DEF AllAccepted
    <3> QED BY <3>2, <3>3
  <2>6. MainInv'
    BY <1>1, <2>3, MainKept
  <2>7. ItemInv'
    <3>1. \A v \in Workers \ {w} : worker'[v].at = "sends" => worker'[v].item # i
      BY <1>2, <2>2
    <3>2. ~abort /\ ~threw => \A j \in 1..total : j < next =>
             j \in filled' \/ \E v \in Workers : worker'[v].at = "sends" /\ worker'[v].item = j
      <4> SUFFICES ASSUME ~abort, ~threw, NEW j \in 1..total, j < next, j \notin filled'
                   PROVE  \E v \in Workers : worker'[v].at = "sends" /\ worker'[v].item = j
        OBVIOUS
      <4>1. PICK v \in Workers : worker[v].at = "sends" /\ worker[v].item = j
        BY <1>1, <2>1 DEF ItemInv
      <4> QED BY <2>1, <2>2, <4>1
    <3>3. \A v \in Workers : worker'[v].at = "sends" =>
             /\ worker'[v].item \in 1..total /\ worker'[v].item < next
             /\ accepted'[worker'[v].item] = 0 /\ worker'[v].item \notin filled'
      BY <1>1, <2>1, <2>2, <3>1 DEF ItemInv, TelegramTypes
    <3> HIDE DEF i
    <3> QED BY <1>1, <2>1, <2>2, <3>2, <3>3 DEF ItemInv, TelegramTypes
  <2> QED BY <2>4, <2>5, <2>6, <2>7 DEF TelegramInv
<1> QED BY <1>3, <1>4

LEMMA TelegramInvStep == TelegramInv /\ [Next]_vars => TelegramInv'
<1> SUFFICES ASSUME TelegramInv, [Next]_vars PROVE TelegramInv'
  OBVIOUS
<1>1. CASE UNCHANGED telegramVars
  <2>1. /\ UNCHANGED <<mode, main, verdict, asked, held, total, disk, next, abort, live, worker,
                       accepted, filled, threw, fired>>
    BY <1>1 DEF telegramVars, poolVars
  <2>2. CountInv' /\ ItemInv' /\ Active' = Active /\ NobodyHired' = NobodyHired
    BY <2>1, PoolKept
  <2> QED BY <2>1, <2>2 DEF TelegramInv, TelegramTypes, AllAccepted, MainInv
<1>2. CASE MainStep
  BY <1>2, BeginsKeep, SendsWholeKeeps, SplitsKeeps, SpawnsKeeps, JoinsKeep DEF MainStep
<1> QED BY <1>1, <1>2, TakesKeeps, SendsKeeps, CancelKeeps
        DEF Next, Telegram, Rclone, Uploader, Attendant, Around, PoolStep, vars

LEMMA TelegramInvHolds == Spec => []TelegramInv
<1>1. Init => TelegramInv
  <2> SUFFICES ASSUME Init PROVE TelegramInv
    OBVIOUS
  <2> USE TelegramAssumption DEF Items, Init, TelegramInit
  <2>1. Active = {} /\ NobodyHired
    BY DEF Active, NobodyHired, Idle
  <2>2. TelegramTypes
    <3>1. Idle \in [at : {"idle", "ready", "sends", "left"}, item : 0..MaxItems]
      BY DEF Idle
    <3>2. Cardinality(Workers) \in Nat
      BY FS_CardinalityType
    <3>3. worker \in [Workers -> [at : {"idle", "ready", "sends", "left"}, item : 0..MaxItems]]
      BY <3>1
    <3>4. accepted \in [Items -> 0..2] /\ live \in 0..Cardinality(Workers)
      BY <3>2
    <3>5. next \in Nat \ {0} /\ total \in 0..MaxItems /\ disk \subseteq Items /\ filled \subseteq Items
      OBVIOUS
    <3>6. asked \in BOOLEAN /\ abort \in BOOLEAN
      OBVIOUS
    <3> QED BY <3>3, <3>4, <3>5, <3>6 DEF TelegramTypes
  <2>3. MainInv /\ CountInv /\ AllAccepted
    BY <2>1, FS_EmptySet DEF MainInv, CountInv, AllAccepted
  <2>4. ItemInv
    BY DEF ItemInv, Idle
  <2> QED BY <2>2, <2>3, <2>4 DEF TelegramInv
<1> QED BY <1>1, TelegramInvStep, PTL DEF Spec

-----------------------------------------------------------------------------
\* RcloneUploader and TelegramUploader: an upload that reports success has been taken
\* over in full, by rclone or by TDLib, and nothing twice, for any number of uploads,
\* of workers and of parts or files, however it is cancelled, fails or throws on the
\* way; for a directory as long as no worker threw and its walk came to the end.
THEOREM SuccessIsAcceptance == Spec => []OkMeansAccepted
<1>1. RcloneInv /\ TelegramInv => OkMeansAccepted
  BY DEF RcloneInv, TelegramInv, OkMeansAccepted, OkMeansCopied, ThreadOf, UploadOf, ExitedWell
<1> QED BY <1>1, RcloneInvHolds, TelegramInvHolds, PTL

\* Subprocess::run() and PartsCleanup: whatever the child does and however an upload
\* ends, no child is left behind, no part of a file stays on disk, and none is removed
\* under a worker of an upload that nobody cancelled.
THEOREM NothingIsLeft == Spec => []NothingLeft
<1>1. RcloneInv => ChildReaped
  BY DEF RcloneInv, ChildReaped, ThreadOf
<1>2. TelegramInv => PartsRemoved
  <2> SUFFICES ASSUME TelegramInv PROVE PartsRemoved
    OBVIOUS
  <2>1. ASSUME ~asked, mode = "parts", NEW w \in Workers, worker[w].at = "sends"
        PROVE  worker[w].item \in disk
    <3>1. w \in Active /\ ~NobodyHired
      BY <2>1 DEF Active, NobodyHired, Idle
    <3>2. main \in {"joins", "waits"}
      BY <2>1, <3>1 DEF TelegramInv, TelegramTypes, MainInv
    <3> QED BY <2>1, <3>2 DEF TelegramInv, MainInv, ItemInv
  <2> QED BY <2>1 DEF TelegramInv, MainInv, PartsRemoved, NobodyHired
<1> QED BY <1>1, <1>2, RcloneInvHolds, TelegramInvHolds, PTL DEF NothingLeft

\* Every variable of the uploaders keeps its type, for every value of the constants.
THEOREM UploadTypes == Spec => []TypeOK
<1> DEFINE Kind == backend \in {"rclone", "telegram"}
<1>1. RcloneInv /\ TelegramInv /\ Kind => TypeOK
  BY DEF RcloneInv, TelegramInv, TypeOK
<1>2. Init => Kind
  BY DEF Init
<1>3. Kind /\ [Next]_vars => Kind'
  BY DEF Next, vars, Rclone, Telegram, Uploader, Attendant, Around
<1> HIDE DEF Kind
<1> QED BY <1>1, <1>2, <1>3, RcloneInvHolds, TelegramInvHolds, PTL DEF Spec
=============================================================================
