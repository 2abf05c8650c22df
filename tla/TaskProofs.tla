------------------------------ MODULE TaskProofs ------------------------------
(***************************************************************************)
(* Proofs about transfers and the commands on them, for every set of tasks *)
(* and commands, every number of files and every pool size.                *)
(*                                                                         *)
(* First, every step keeps the types.  Two steps need more than the types: *)
(* spawn_upload must be handed a file of the list, and an upload that      *)
(* reports its result must find in_flight positive.  Both come from        *)
(* PoolInv.  Then TransferInv is inductive, and with it: type correctness, *)
(* the accounting and the bound of the upload pool, that no upload         *)
(* outlives its task, that no file is sent twice, that Completed tasks are *)
(* clean, and that the aggregate implements TaskLifecycle.                 *)
(***************************************************************************)
EXTENDS TaskInvariants, FiniteSetTheorems, TLAPS

\* The transitions of the Task class stay within its states (task.cpp).
LEMMA TransitionTypes ==
    ASSUME NEW s \in TaskStates
    PROVE  /\ StartDownload(s) \in TaskStates
           /\ BeginUpload(s) \in TaskStates
           /\ MarkCompleted(s) \in TaskStates
           /\ MarkFailed(s) \in TaskStates
           /\ MarkCancelled(s) \in TaskStates
  BY DEF StartDownload, BeginUpload, MarkCompleted, MarkFailed, MarkCancelled,
         TaskStates

\* persist_best_effort and drain_uploads return to places of execute.
LEMMA ReturnPoints ==
    /\ \A l \in PersistPoints : AfterPersist[l] \in Locations
    /\ \A a \in {"cancel", "fail", "failUpload"} : AfterDrain[a] \in Locations
  BY DEF PersistPoints, AfterPersist, AfterDrain, Locations

\* cancel_all_uploads leaves every upload in a state of UploadStates.
LEMMA CancelTypes ==
    ASSUME NEW t \in Tasks, upload \in [Tasks -> [Files -> UploadStates]],
           CancelAllUploads(t)
    PROVE  upload' \in [Tasks -> [Files -> UploadStates]]
<1> DEFINE new == [f \in Files |->
                     IF upload[t][f] = "running" THEN "cancelling" ELSE upload[t][f]]
<1>1. new \in [Files -> UploadStates]
  BY DEF UploadStates
<1>2. upload' = [upload EXCEPT ![t] = new]
  BY DEF CancelAllUploads
<1> QED BY <1>1, <1>2

\* A remove call leaves the backend's state well typed.
LEMMA RemoveTypes ==
    ASSUME NEW t \in Tasks, NEW b \in BOOLEAN,
           dl \in [Tasks -> DownloadStates],
           listed \in [Tasks -> BOOLEAN],
           landed \in [Tasks -> SUBSET Files],
           BackendRemove(t, b)
    PROVE  /\ dl' \in [Tasks -> DownloadStates]
           /\ listed' \in [Tasks -> BOOLEAN]
           /\ landed' \in [Tasks -> SUBSET Files]
<1>1. CASE UNCHANGED backend
  BY <1>1 DEF backend
<1>2. CASE /\ dl' = [dl EXCEPT ![t] = "removed"]
           /\ landed' \in {landed, [landed EXCEPT ![t] = {}]}
           /\ UNCHANGED listed
  <2>1. dl' \in [Tasks -> DownloadStates]
    BY <1>2 DEF DownloadStates
  <2>2. landed' \in [Tasks -> SUBSET Files]
    BY <1>2
  <2> QED BY <1>2, <2>1, <2>2
<1> QED BY <1>1, <1>2 DEF BackendRemove

\* mark_completed, or fail_task when it is refused, ends at a save.
LEMMA FinishTypes ==
    ASSUME NEW t \in Tasks, pc \in [Tasks -> Locations],
           mem \in [Tasks -> TaskStates], Finish(t)
    PROVE  /\ pc' \in [Tasks -> Locations]
           /\ mem' \in [Tasks -> TaskStates]
<1> DEFINE s == IF trans[t] THEN mem[t] ELSE BeginUpload(mem[t])
           new == IF MarkCompleted(s) = s THEN MarkFailed(s) ELSE MarkCompleted(s)
           to == IF MarkCompleted(s) = s THEN "persistFailed" ELSE "persistCompleted"
<1>1. s \in TaskStates
  BY TransitionTypes
<1>2. new \in TaskStates
  BY <1>1, TransitionTypes
<1>3. to \in Locations
  BY DEF Locations, PersistPoints
<1>4. mem' = [mem EXCEPT ![t] = new] /\ pc' = [pc EXCEPT ![t] = to]
  BY DEF Finish, Goto
<1> HIDE DEF new, to
<1> QED BY <1>2, <1>3, <1>4

\* The same for a transition that may be refused.
LEMMA ChangeTypes ==
    ASSUME NEW t \in Tasks, pc \in [Tasks -> Locations],
           mem \in [Tasks -> TaskStates],
           NEW s \in TaskStates, NEW l \in Locations, Transition(t, s, l)
    PROVE  /\ pc' \in [Tasks -> Locations]
           /\ mem' \in [Tasks -> TaskStates]
<1> DEFINE new == IF s = mem[t] THEN MarkFailed(s) ELSE s
           to == IF s = mem[t] THEN "persistFailed" ELSE l
<1>1. new \in TaskStates
  BY TransitionTypes
<1>2. to \in Locations
  BY DEF Locations, PersistPoints
<1>3. mem' = [mem EXCEPT ![t] = new] /\ pc' = [pc EXCEPT ![t] = to]
  BY DEF Transition, Goto
<1> HIDE DEF new, to
<1> QED BY <1>1, <1>2, <1>3

\* Initially every variable has its type.
LEMMA TypeInit == Init => SystemTypeOK
  BY ConstantsAssumption
     DEF Init, TransferInit, CommandInit, SystemTypeOK, TypeOK, CommandTypeOK,
         Locations, PersistPoints, BackendKinds, TaskStates,
         UploadStates, DownloadStates, CommandKinds, Files, Running

-----------------------------------------------------------------------------
\* Steps of execute before the poll loop keep the types.
LEMMA TypePrologue ==
    ASSUME TypeOK, NEW t \in Tasks,
           \/ Begin(t) \/ SaveQueued(t) \/ SaveQueuedFails(t) \/ Register(t)
           \/ Persist(t) \/ AddUriAccepted(t) \/ AddUriFails(t)
    PROVE  TypeOK'
<1> USE DEF TypeOK
<1>1. CASE Begin(t)
  <2>1. kind' \in [Tasks -> {"mirror", "leech"}] /\ via' \in [Tasks -> BackendKinds]
    BY <1>1, ConstantsAssumption DEF Begin
  <2>2. pc' \in [Tasks -> Locations]
    BY <1>1 DEF Begin, Goto, Locations
  <2> QED BY <1>1, <2>1, <2>2 DEF Begin, pool, table, active, backend
<1>2. CASE SaveQueued(t)
  BY <1>2 DEF SaveQueued, SaveTask, Goto, Locations, pool, active, backend
<1>3. CASE SaveQueuedFails(t)
  BY <1>3 DEF SaveQueuedFails, Goto, Locations, pool, table, active, backend
<1>4. CASE Register(t)
  <2>1. pc' \in [Tasks -> Locations] /\ mem' \in [Tasks -> TaskStates]
    <3>1. StartDownload(mem[t]) \in TaskStates
      BY TransitionTypes
    <3>2. "persistDownloading" \in Locations
      BY DEF Locations, PersistPoints
    <3>3. Transition(t, StartDownload(mem[t]), "persistDownloading")
      BY <1>4 DEF Register
    <3> QED BY <3>1, <3>2, <3>3, ChangeTypes
  <2> QED BY <1>4, <2>1 DEF Register, pool, table, active, backend
<1>5. CASE Persist(t)
  <2>1. pc' \in [Tasks -> Locations]
    <3>1. AfterPersist[pc[t]] \in Locations
      BY <1>5, ReturnPoints DEF Persist
    <3> QED BY <1>5, <3>1 DEF Persist, Goto
  <2>2. /\ rowState' \in [Tasks -> TaskStates \union {"absent"}]
        /\ rowBound' \in [Tasks -> BOOLEAN]
    <3>1. CASE SaveTask(t)
      BY <3>1 DEF SaveTask
    <3>2. CASE UNCHANGED table
      BY <3>2 DEF table
    <3> QED BY <1>5, <3>1, <3>2 DEF Persist
  <2> QED BY <1>5, <2>1, <2>2 DEF Persist, pool, active, backend
<1>6. CASE AddUriAccepted(t)
  BY <1>6 DEF AddUriAccepted, Goto, Locations, PersistPoints, DownloadStates,
              Running, pool, table, active
<1>7. CASE AddUriFails(t)
  <2>1. dl' \in [Tasks -> DownloadStates]
    BY <1>7 DEF AddUriFails, DownloadStates, Running
  <2>2. pc' \in [Tasks -> Locations] /\ mem' \in [Tasks -> TaskStates]
    BY <1>7, TransitionTypes DEF AddUriFails, Fail, Goto, Locations, PersistPoints
  <2> QED BY <1>7, <2>1, <2>2 DEF AddUriFails, pool, table, active
<1> QED BY <1>1, <1>2, <1>3, <1>4, <1>5, <1>6, <1>7

\* An early exit keeps the types.
LEMMA TeardownTypes ==
    ASSUME TypeOK, NEW t \in Tasks, NEW a \in {"cancel", "fail", "failUpload"},
           Teardown(t, a)
    PROVE  /\ pc' \in [Tasks -> Locations]
           /\ mem' \in [Tasks -> TaskStates]
           /\ after' \in [Tasks -> {"cancel", "fail", "failUpload"}]
           /\ upload' \in [Tasks -> [Files -> UploadStates]]
  BY CancelTypes DEF TypeOK, Teardown, Goto, Locations

\* Steps of the poll loop keep the types.
LEMMA TypeLoop ==
    ASSUME TypeOK, NEW t \in Tasks, PoolInv(t),
           \/ ObserveCancel(t) \/ PollAgain(t) \/ StatusReply(t) \/ StatusBad(t)
           \/ PipelineEnd(t) \/ PipelineSkip(t) \/ PipelineFirst(t)
           \/ PipelineNext(t) \/ PipelineSpawn(t)
    PROVE  TypeOK'
<1> USE ConstantsAssumption
<1> USE DEF TypeOK, pool, table, active, backend
<1>1. CASE ObserveCancel(t)
  BY <1>1, TeardownTypes DEF ObserveCancel
<1>2. CASE PollAgain(t)
  BY <1>2 DEF PollAgain, Goto, Locations
<1>3. CASE StatusReply(t)
  <2>1. StatusFiles(t) \in SUBSET Files
    BY DEF StatusFiles
  <2>2. idx' \in [Tasks -> 1..(NumFiles + 1)]
    BY <1>3 DEF StatusReply
  <2> QED BY <1>3, <2>1, <2>2 DEF StatusReply, Goto, Locations
<1>4. CASE StatusBad(t)
  BY <1>4, TeardownTypes DEF StatusBad
<1>5. CASE PipelineEnd(t)
  BY <1>5 DEF PipelineEnd, Goto, Locations
<1>6. CASE PipelineSkip(t)
  BY <1>6 DEF PipelineSkip, AtEnd
<1>7. CASE PipelineFirst(t)
  BY <1>7, TransitionTypes DEF PipelineFirst, Goto, Locations, PersistPoints
<1>8. CASE PipelineNext(t)
  BY <1>8 DEF PipelineNext, Goto, Locations
<1>9. CASE PipelineSpawn(t)
  <2>1. idx[t] \in Files
    BY <1>9 DEF PipelineSpawn, PoolInv, Spawning
  <2>2. idx' \in [Tasks -> 1..(NumFiles + 1)]
    BY <1>9, <2>1 DEF PipelineSpawn, Files
  <2>3. /\ upload' \in [Tasks -> [Files -> UploadStates]]
        /\ inFlight' \in [Tasks -> Nat]
    <3>1. CASE UNCHANGED <<upload, inFlight>>
      BY <3>1
    <3>2. CASE /\ upload' = [upload EXCEPT ![t][idx[t]] = "running"]
               /\ inFlight' = [inFlight EXCEPT ![t] = @ + 1]
      BY <3>2, <2>1 DEF UploadStates
    <3> QED BY <1>9, <3>1, <3>2 DEF PipelineSpawn, SpawnUpload
  <2> QED BY <1>9, <2>2, <2>3 DEF PipelineSpawn, Goto, Locations
<1> QED BY <1>1, <1>2, <1>3, <1>4, <1>5, <1>6, <1>7, <1>8, <1>9

\* Steps that leave the loop and wind the task up keep the types.
LEMMA TypeEpilogue ==
    ASSUME TypeOK, NEW t \in Tasks,
           \/ TerminateFailed(t) \/ LeaveUploaded(t) \/ LeaveFallback(t) \/ Tick(t)
           \/ Drained(t) \/ EditUploading(t) \/ NoProducedFiles(t)
           \/ UploadAllOk(t) \/ UploadAllEmpty(t) \/ UploadAllFails(t)
           \/ RemoveCancelled(t) \/ RemoveFailed(t) \/ RemoveCompleted(t) \/ Return(t)
    PROVE  TypeOK'
<1> USE DEF TypeOK, pool, table, active, backend
<1>1. CASE TerminateFailed(t)
  BY <1>1, TeardownTypes DEF TerminateFailed
<1>2. CASE LeaveUploaded(t)
  BY <1>2, FinishTypes DEF LeaveUploaded
<1>3. CASE LeaveFallback(t)
  <2>1. BeginUpload(mem[t]) \in TaskStates /\ "persistFallback" \in Locations
    BY TransitionTypes DEF Locations, PersistPoints
  <2>2. pc' \in [Tasks -> Locations] /\ mem' \in [Tasks -> TaskStates]
    BY <1>3, <2>1, ChangeTypes DEF LeaveFallback
  <2> QED BY <1>3, <2>2 DEF LeaveFallback
<1>4. CASE Tick(t)
  BY <1>4 DEF Tick, Goto, Locations
<1>5. CASE Drained(t)
  <2>1. AfterDrain[after[t]] \in Locations
    BY ReturnPoints
  <2>2. pc' \in [Tasks -> Locations] /\ mem' \in [Tasks -> TaskStates]
    BY <1>5, <2>1, TransitionTypes DEF Drained, Goto
  <2> QED BY <1>5, <2>2 DEF Drained
<1>6. CASE EditUploading(t)
  BY <1>6 DEF EditUploading, Goto, Locations
<1>7. CASE NoProducedFiles(t)
  BY <1>7, TransitionTypes DEF NoProducedFiles, Fail, Goto, Locations, PersistPoints
<1>8. CASE UploadAllOk(t)
  <2>1. PICK S \in {Files, {1}} :
          sent' = [sent EXCEPT ![t] = [f \in Files |->
                      IF f \in S THEN sent[t][f] + 1 ELSE sent[t][f]]]
    BY <1>8 DEF UploadAllOk
  <2>2. [f \in Files |-> IF f \in S THEN sent[t][f] + 1 ELSE sent[t][f]]
          \in [Files -> Nat]
    OBVIOUS
  <2>3. sent' \in [Tasks -> [Files -> Nat]]
    BY <2>1, <2>2
  <2> QED BY <1>8, <2>3, FinishTypes DEF UploadAllOk
<1>9. CASE UploadAllEmpty(t)
  BY <1>9, FinishTypes DEF UploadAllEmpty
<1>10. CASE UploadAllFails(t)
  BY <1>10, TransitionTypes DEF UploadAllFails, Fail, Goto, Locations, PersistPoints
<1>11. CASE RemoveCancelled(t)
  <2>1. pc' \in [Tasks -> Locations] /\ mem' \in [Tasks -> TaskStates]
    BY <1>11, TransitionTypes DEF RemoveCancelled, Goto, Locations, PersistPoints
  <2> QED BY <1>11, <2>1, RemoveTypes DEF RemoveCancelled
<1>12. CASE RemoveFailed(t)
  <2>1. pc' \in [Tasks -> Locations] /\ mem' \in [Tasks -> TaskStates]
    BY <1>12, TransitionTypes DEF RemoveFailed, Fail, Goto, Locations, PersistPoints
  <2> QED BY <1>12, <2>1, RemoveTypes DEF RemoveFailed
<1>13. CASE RemoveCompleted(t)
  BY <1>13, RemoveTypes DEF RemoveCompleted, Goto, Locations
<1>14. CASE Return(t)
  BY <1>14 DEF Return, Goto, Locations
<1> QED BY <1>1, <1>2, <1>3, <1>4, <1>5, <1>6, <1>7, <1>8, <1>9, <1>10, <1>11,
           <1>12, <1>13, <1>14

-----------------------------------------------------------------------------
\* The files of a task, and so its uploads in any state, are finitely many.
LEMMA UncountedFinite ==
    ASSUME NEW t \in Tasks
    PROVE  IsFiniteSet(Files) /\ IsFiniteSet(Uncounted(t))
<1>1. IsFiniteSet(Files)
  BY ConstantsAssumption, FS_Interval DEF Files
<1>2. Uncounted(t) \subseteq Files
  BY DEF Uncounted
<1> QED BY <1>1, <1>2, FS_Subset

\* An upload that has still to report its result holds a slot of the pool.
LEMMA SlotHeld ==
    ASSUME NEW t \in Tasks, PoolInv(t), NEW f \in Uncounted(t)
    PROVE  inFlight[t] \in Nat /\ inFlight[t] >= 1
<1>1. IsFiniteSet(Uncounted(t)) /\ Uncounted(t) # {}
  BY UncountedFinite
<1>2. Cardinality(Uncounted(t)) \in Nat /\ Cardinality(Uncounted(t)) # 0
  BY <1>1, FS_CardinalityType, FS_EmptySet
<1> QED BY <1>2 DEF PoolInv

\* Steps of the upload coroutines keep the types.
LEMMA TypeUpload ==
    ASSUME TypeOK, NEW t \in Tasks, PoolInv(t), NEW f \in Files, UploadStep(t, f)
    PROVE  TypeOK'
<1> USE DEF TypeOK, coroutine, table, active, backend
<1>1. f \in Uncounted(t)
  BY DEF UploadStep, UploadSucceeds, UploadFails, UploadThrows, Live, Uncounted
<1>2. inFlight[t] - 1 \in Nat
  BY <1>1, SlotHeld
<1>3. CASE UploadSucceeds(t, f)
  <2>1. /\ upload' \in [Tasks -> [Files -> UploadStates]]
        /\ sent' \in [Tasks -> [Files -> Nat]]
    BY <1>3 DEF UploadSucceeds, UploadStates
  <2> QED BY <1>2, <1>3, <2>1 DEF UploadSucceeds
<1>4. CASE UploadFails(t, f)
  <2>1. upload' \in [Tasks -> [Files -> UploadStates]]
    BY <1>4 DEF UploadFails, UploadStates
  <2> QED BY <1>2, <1>4, <2>1 DEF UploadFails
<1>5. CASE UploadThrows(t, f)
  BY <1>5 DEF UploadThrows, UploadStates
<1> QED BY <1>3, <1>4, <1>5 DEF UploadStep

\* Steps of a download at the backend keep the types.
LEMMA TypeDownload ==
    ASSUME TypeOK, NEW t \in Tasks, DownloadProgress(t) \/ DownloadBreaks(t) \/ DownloadHalts(t)
    PROVE  TypeOK'
<1> USE DEF TypeOK, coroutine, pool, table, active
<1>1. CASE DownloadListed(t)
  BY <1>1 DEF DownloadListed
<1>2. ASSUME NEW f \in Files, DownloadLands(t, f) PROVE TypeOK'
  BY <1>2 DEF DownloadLands
<1>3. CASE DownloadFinishes(t)
  BY <1>3 DEF DownloadFinishes, DownloadStates, Running
<1>4. CASE DownloadBreaks(t)
  <2>1. dl' \in [Tasks -> DownloadStates]
    BY <1>4 DEF DownloadBreaks, DownloadStates
  <2> QED BY <1>4, <2>1 DEF DownloadBreaks
<1>5. CASE DownloadHalts(t)
  BY <1>5 DEF DownloadHalts, DownloadStates, Running
<1> QED BY <1>1, <1>2, <1>3, <1>4, <1>5 DEF DownloadProgress

\* Every step of a transfer keeps the types.
LEMMA TypeTransfer ==
    ASSUME SystemTypeOK, NEW t \in Tasks, PoolInv(t), Transfer(t)
    PROVE  SystemTypeOK'
<1>1. TypeOK'
  BY TypePrologue, TypeLoop, TypeEpilogue, TypeUpload, TypeDownload
     DEF Transfer, TransferStep, CoroutineStep, SystemTypeOK
<1>2. CommandTypeOK'
  BY DEF SystemTypeOK, CommandTypeOK, Transfer, commandVars
<1> QED BY <1>1, <1>2 DEF SystemTypeOK

-----------------------------------------------------------------------------
\* Every step of a command keeps the types.
LEMMA TypeCommand ==
    ASSUME SystemTypeOK, NEW c \in Commands, Request(c) \/ CommandStep(c)
    PROVE  SystemTypeOK'
<1> USE DEF SystemTypeOK, CommandTypeOK
<1> USE DEF transferVars, coroutine, pool, table, active, backend
<1>1. CASE Request(c)
  <2>1. PICK op \in Operations, chat \in Chats :
          /\ cop' = [cop EXCEPT ![c] = op]
          /\ cchat' = [cchat EXCEPT ![c] = chat]
          /\ \/ /\ op = "cancel_all"
                /\ cwork' = [cwork EXCEPT ![c] =
                                {t \in Incomplete : ChatOf[t] = chat}]
             \/ /\ op # "cancel_all"
                /\ \E t \in Tasks : cwork' = [cwork EXCEPT ![c] = {t}]
    BY <1>1 DEF Request
  <2>2. op \in CommandKinds
    BY CommandsAssumption
  <2>3. cwork' \in [Commands -> SUBSET Tasks]
    BY <2>1 DEF Incomplete
  <2>4. TypeOK'
    BY <1>1 DEF Request, TypeOK
  <2> QED BY <1>1, <2>1, <2>2, <2>3, <2>4 DEF Request
<1>2. CASE Find(c)
  <2>1. PICK t \in cwork[c] :
          /\ Accepts(c, t)
          /\ cwork' = [cwork EXCEPT ![c] = @ \ {t}]
          /\ ctask' = [ctask EXCEPT ![c] = t]
          /\ cstate' = [cstate EXCEPT ![c] = rowState[t]]
          /\ cbound' = [cbound EXCEPT ![c] = rowBound[t]]
    BY <1>2 DEF Find
  <2>2. t \in Tasks /\ rowState[t] \in TaskStates /\ rowBound[t] \in BOOLEAN
    BY <2>1 DEF Accepts, TypeOK
  <2>3. TypeOK'
    BY <1>2 DEF Find, TypeOK
  <2> QED BY <1>2, <2>1, <2>2, <2>3 DEF Find
<1>3. CASE Refuse(c)
  <2>1. TypeOK'
    BY <1>3 DEF Refuse, TypeOK
  <2> QED BY <1>3, <2>1 DEF Refuse
<1>4. CASE Signal(c)
  <2>1. TypeOK'
    BY <1>4 DEF Signal, TypeOK
  <2>2. told' \in [Tasks -> SUBSET Replies]
    BY <1>4 DEF Signal, Replies
  <2> QED BY <1>4, <2>1, <2>2 DEF Signal
<1>5. CASE TakeOver(c)
  <2>1. TypeOK'
    BY <1>5 DEF TakeOver, TypeOK
  <2> QED BY <1>5, <2>1 DEF TakeOver
<1>6. CASE RemoveDownload(c)
  <2>1. TypeOK'
    BY <1>6, RemoveTypes DEF RemoveDownload, TypeOK
  <2> QED BY <1>6, <2>1 DEF RemoveDownload
<1>7. CASE SaveCancelled(c)
  <2>1. CASE /\ rowState' = [rowState EXCEPT ![ctask[c]] = MarkCancelled(cstate[c])]
             /\ rowBound' = [rowBound EXCEPT ![ctask[c]] = cbound[c]]
             /\ told' = [told EXCEPT ![ctask[c]] = @ \union {"stopped"}]
    <3>1. TypeOK'
      BY <1>7, <2>1, TransitionTypes DEF SaveCancelled, TypeOK
    <3>2. told' \in [Tasks -> SUBSET Replies]
      BY <2>1 DEF Replies
    <3> QED BY <1>7, <3>1, <3>2 DEF SaveCancelled
  <2>2. CASE UNCHANGED <<table, told>>
    <3>1. TypeOK'
      BY <1>7, <2>2 DEF SaveCancelled, TypeOK
    <3> QED BY <1>7, <2>2, <3>1 DEF SaveCancelled
  <2> QED BY <1>7, <2>1, <2>2 DEF SaveCancelled
<1>8. CASE CallBackend(c)
  <2>1. dl' \in [Tasks -> DownloadStates]
    <3>1. \/ \E s \in Running : dl' = [dl EXCEPT ![ctask[c]] = s]
          \/ dl' = dl
      BY <1>8 DEF CallBackend, Paused, Resumed, Running
    <3> QED BY <3>1 DEF TypeOK, DownloadStates
  <2>2. TypeOK'
    BY <1>8, <2>1 DEF CallBackend, TypeOK
  <2> QED BY <1>8, <2>2 DEF CallBackend
<1> QED BY <1>1, <1>2, <1>3, <1>4, <1>5, <1>6, <1>7, <1>8 DEF CommandStep

\* A crash keeps the types.
LEMMA TypeCrash == SystemTypeOK /\ Crash => SystemTypeOK'
<1> SUFFICES ASSUME SystemTypeOK, Crash PROVE SystemTypeOK'
  OBVIOUS
<1> USE DEF SystemTypeOK, CommandTypeOK, TypeOK, table, backend
<1>1. pc' \in [Tasks -> Locations]
  BY DEF Crash, Locations
<1>2. upload' \in [Tasks -> [Files -> UploadStates]]
  BY DEF Crash, UploadStates
<1>3. /\ cpc' \in [Commands -> {"idle", "find", "signal", "remove", "save", "call"}]
      /\ cwork' \in [Commands -> SUBSET Tasks]
  BY DEF Crash
<1> QED BY <1>1, <1>2, <1>3 DEF Crash

\* Every step of the system keeps the types, given the invariant of the pool.
LEMMA TypeNext == SystemTypeOK /\ TransferInv /\ [Next]_vars => SystemTypeOK'
<1> SUFFICES ASSUME SystemTypeOK, TransferInv, [Next]_vars PROVE SystemTypeOK'
  OBVIOUS
<1>1. CASE UNCHANGED vars
  BY <1>1 DEF vars, transferVars, coroutine, pool, table, active, backend,
              commandVars, SystemTypeOK, TypeOK, CommandTypeOK
<1>2. CASE Next
  BY <1>1, <1>2, TypeTransfer, TypeCommand, TypeCrash DEF Next, Quiescent, TransferInv
<1> QED BY <1>1, <1>2

-----------------------------------------------------------------------------
(***************************************************************************)
(* TransferInv is inductive.                                               *)
(***************************************************************************)

TaskInv(t) == MemoryInv(t) /\ PoolInv(t) /\ SendInv(t)

\* The pool of t is as before.
SamePool(t) ==
    /\ upload'[t] = upload[t]
    /\ inFlight'[t] = inFlight[t]
    /\ completed'[t] = completed[t]
    /\ failed'[t] = failed[t]
    /\ sent'[t] = sent[t]

\* Everything the invariant of t speaks of is as before.
SameTask(t) ==
    /\ pc'[t] = pc[t] /\ kind'[t] = kind[t] /\ mem'[t] = mem[t]
    /\ trans'[t] = trans[t] /\ idx'[t] = idx[t]
    /\ SamePool(t)

\* The invariant of a task only depends on that task.
LEMMA FrameTask ==
    ASSUME NEW t \in Tasks, TaskInv(t), SameTask(t)
    PROVE  TaskInv(t)'
<1>1. MemoryInv(t)'
  BY DEF TaskInv, SameTask, MemoryInv
<1>2. Uncounted(t)' = Uncounted(t) /\ Live(t)' = Live(t)
  BY DEF SameTask, SamePool, Uncounted, Live
<1>3. PoolInv(t)'
  BY <1>2 DEF TaskInv, SameTask, SamePool, PoolInv
<1>4. SendInv(t)'
  BY DEF TaskInv, SameTask, SamePool, SendInv
<1> QED BY <1>1, <1>3, <1>4 DEF TaskInv

\* An in_flight of zero means that no spawned upload is left.
LEMMA NothingInFlight ==
    ASSUME NEW t \in Tasks, PoolInv(t), inFlight[t] = 0
    PROVE  Uncounted(t) = {} /\ Live(t) = {}
<1>1. Uncounted(t) = {}
  BY UncountedFinite, FS_EmptySet DEF PoolInv
<1> QED BY <1>1 DEF Uncounted, Live

\* A step of execute that leaves the pool alone, does not start to spawn, leaves
\* Busy only when nothing is in flight, and neither returns to a place before
\* delivery nor completes the task.
PlainMove(t) ==
    /\ SamePool(t) /\ kind'[t] = kind[t] /\ trans'[t] = trans[t]
    /\ pc'[t] \in Spawning => pc[t] \in Spawning /\ idx'[t] = idx[t]
    /\ pc'[t] \notin Busy => pc[t] \notin Busy \/ inFlight[t] = 0
    /\ pc'[t] \notin Delivered => pc[t] \notin Delivered
    /\ mem'[t] = "Completed" => mem[t] = "Completed"

\* The pool's own invariant, for the steps that do not touch the pool.
LEMMA PoolMove ==
    ASSUME NEW t \in Tasks, PoolInv(t), SamePool(t),
           pc'[t] \in Spawning => pc[t] \in Spawning /\ idx'[t] = idx[t],
           pc'[t] \notin Busy => pc[t] \notin Busy \/ inFlight[t] = 0
    PROVE  PoolInv(t)'
<1>1. Uncounted(t)' = Uncounted(t) /\ Live(t)' = Live(t)
  BY DEF SamePool, Uncounted, Live
<1>2. pc'[t] \notin Busy => Live(t) = {}
  BY NothingInFlight DEF PoolInv
<1> QED BY <1>1, <1>2 DEF PoolInv, SamePool

\* A plain move can only disturb the agreement of the aggregate with pc.
LEMMA PlainMoveInv ==
    ASSUME NEW t \in Tasks, TaskInv(t), PlainMove(t), MemoryInv(t)'
    PROVE  TaskInv(t)'
<1>1. PoolInv(t)'
  BY PoolMove DEF TaskInv, PlainMove
<1>2. SendInv(t)'
  BY DEF TaskInv, PlainMove, SamePool, SendInv
<1> QED BY <1>1, <1>2 DEF TaskInv

-----------------------------------------------------------------------------
\* Steps of execute that pass from one await to the next before the loop, with
\* the pool untouched, keep the invariant of their task.
LEMMA MovePrologue ==
    ASSUME TypeOK, NEW t \in Tasks, TaskInv(t),
           \/ SaveQueued(t) \/ SaveQueuedFails(t) \/ Register(t)
           \/ Persist(t) \/ AddUriAccepted(t) \/ AddUriFails(t)
    PROVE  TaskInv(t)'
<1> USE DEF TypeOK, TaskInv, MemoryInv, PlainMove, SamePool, pool, Goto,
        Busy, Spawning, OneShot, Delivered, Gone, TerminalStates
<1>1. CASE SaveQueued(t)
  BY <1>1, PlainMoveInv DEF SaveQueued
<1>2. CASE SaveQueuedFails(t)
  BY <1>2, PlainMoveInv DEF SaveQueuedFails
<1>3. CASE Register(t)
  BY <1>3, PlainMoveInv DEF Register, Transition, StartDownload, MarkFailed
<1>4. CASE Persist(t)
  <2>1. PlainMove(t)
    BY <1>4 DEF Persist, AfterPersist, PersistPoints
  <2>2. MemoryInv(t)'
    BY <1>4 DEF Persist, AfterPersist, PersistPoints
  <2> QED BY <2>1, <2>2, PlainMoveInv
<1>5. CASE AddUriAccepted(t)
  BY <1>5, PlainMoveInv DEF AddUriAccepted
<1>6. CASE AddUriFails(t)
  BY <1>6, PlainMoveInv DEF AddUriFails, Fail, MarkFailed
<1> QED BY <1>1, <1>2, <1>3, <1>4, <1>5, <1>6

\* So do those of the poll loop,
LEMMA MoveLoop ==
    ASSUME TypeOK, NEW t \in Tasks, TaskInv(t),
           \/ PollAgain(t) \/ StatusReply(t) \/ PipelineEnd(t)
           \/ PipelineSkip(t) \/ Tick(t)
    PROVE  TaskInv(t)'
<1> USE DEF TypeOK, TaskInv, MemoryInv, PlainMove, SamePool, pool, Goto,
        Busy, Spawning, OneShot, Delivered, Gone, TerminalStates
<1>1. CASE PollAgain(t)
  BY <1>1, PlainMoveInv DEF PollAgain
<1>2. CASE StatusReply(t)
  BY <1>2, PlainMoveInv DEF StatusReply
<1>3. CASE PipelineEnd(t)
  BY <1>3, PlainMoveInv DEF PipelineEnd
<1>4. CASE PipelineSkip(t)
  BY <1>4, PlainMoveInv DEF PipelineSkip
<1>5. CASE Tick(t)
  BY <1>5, PlainMoveInv DEF Tick
<1> QED BY <1>1, <1>2, <1>3, <1>4, <1>5

\* and those after it.
LEMMA MoveEpilogue ==
    ASSUME TypeOK, NEW t \in Tasks, TaskInv(t),
           \/ Drained(t) \/ EditUploading(t) \/ NoProducedFiles(t)
           \/ UploadAllFails(t) \/ RemoveCancelled(t) \/ RemoveFailed(t)
           \/ RemoveCompleted(t) \/ Return(t)
    PROVE  TaskInv(t)'
<1> USE DEF TypeOK, TaskInv, MemoryInv, PlainMove, SamePool, pool, Goto,
        Busy, Spawning, OneShot, Delivered, Gone, TerminalStates
<1>1. CASE Drained(t)
  <2>1. PlainMove(t)
    BY <1>1 DEF Drained, AfterDrain, MarkFailed
  <2>2. MemoryInv(t)'
    BY <1>1 DEF Drained, AfterDrain, MarkFailed
  <2> QED BY <2>1, <2>2, PlainMoveInv
<1>2. CASE EditUploading(t)
  BY <1>2, PlainMoveInv DEF EditUploading
<1>3. CASE NoProducedFiles(t)
  BY <1>3, PlainMoveInv DEF NoProducedFiles, Fail, MarkFailed
<1>4. CASE UploadAllFails(t)
  BY <1>4, PlainMoveInv DEF UploadAllFails, Fail, MarkFailed
<1>5. CASE RemoveCancelled(t)
  BY <1>5, PlainMoveInv DEF RemoveCancelled, MarkCancelled
<1>6. CASE RemoveFailed(t)
  BY <1>6, PlainMoveInv DEF RemoveFailed, Fail, MarkFailed
<1>7. CASE RemoveCompleted(t)
  BY <1>7, PlainMoveInv DEF RemoveCompleted
<1>8. CASE Return(t)
  BY <1>8, PlainMoveInv DEF Return
<1> QED BY <1>1, <1>2, <1>3, <1>4, <1>5, <1>6, <1>7, <1>8

\* A request that arrives chooses the kind of the task.
LEMMA BeginInv ==
    ASSUME TypeOK, NEW t \in Tasks, TaskInv(t), Begin(t)
    PROVE  TaskInv(t)'
<1>1. /\ pc[t] = "idle" /\ pc'[t] \in {"saveQueued", "returned"}
      /\ mem'[t] = mem[t] /\ trans'[t] = trans[t] /\ SamePool(t)
  BY DEF TypeOK, Begin, Goto, SamePool, pool
<1>2. mem[t] = "Queued"
  BY <1>1 DEF TaskInv, MemoryInv
<1>3. MemoryInv(t)'
  BY <1>1 DEF TaskInv, MemoryInv, Busy, Spawning, OneShot
<1>4. PoolInv(t)'
  BY <1>1, PoolMove DEF TaskInv, Busy, Spawning
<1>5. SendInv(t)'
  BY <1>1, <1>2 DEF TaskInv, SendInv, SamePool, OneShot, Delivered, Gone
<1> QED BY <1>3, <1>4, <1>5 DEF TaskInv

\* cancel_all_uploads and the wait that follows it keep the invariant: a
\* cancelled upload still holds its slot.
LEMMA TeardownInv ==
    ASSUME TypeOK, NEW t \in Tasks, TaskInv(t),
           \/ ObserveCancel(t) \/ StatusBad(t) \/ TerminateFailed(t)
    PROVE  TaskInv(t)'
<1>1. /\ pc[t] \in {"check", "status", "terminate"} /\ pc'[t] = "drain"
      /\ mem'[t] = mem[t] /\ trans'[t] = trans[t]
      /\ inFlight'[t] = inFlight[t] /\ completed'[t] = completed[t]
      /\ failed'[t] = failed[t] /\ sent'[t] = sent[t]
  BY DEF TypeOK, ObserveCancel, StatusBad, TerminateFailed, Teardown, Goto
<1>2. upload'[t] = [f \in Files |->
                      IF upload[t][f] = "running" THEN "cancelling" ELSE upload[t][f]]
  BY DEF TypeOK, ObserveCancel, StatusBad, TerminateFailed, Teardown, CancelAllUploads
<1>3. MemoryInv(t)'
  BY <1>1 DEF TaskInv, MemoryInv, Busy, Spawning, OneShot
<1>4. PoolInv(t)'
  <2>1. Uncounted(t)' = Uncounted(t)
    BY <1>2 DEF Uncounted
  <2> QED BY <1>1, <2>1 DEF TaskInv, PoolInv, Busy, Spawning
<1>5. SendInv(t)'
  BY <1>1, <1>2, <1>3 DEF TaskInv, SendInv, MemoryInv, Busy, Spawning, OneShot,
                          Delivered, Gone
<1> QED BY <1>3, <1>4, <1>5 DEF TaskInv

\* A new file is about to be spawned: the slot can_spawn_more saw is free, and
\* the aggregate is Uploading.
LEMMA NewFileInv ==
    ASSUME TypeOK, NEW t \in Tasks, TaskInv(t), PipelineFirst(t) \/ PipelineNext(t)
    PROVE  TaskInv(t)'
<1>1. /\ pc[t] = "pipeline" /\ pc'[t] \in Spawning
      /\ idx'[t] = idx[t] /\ kind'[t] = kind[t] /\ SamePool(t)
  BY DEF TypeOK, PipelineFirst, PipelineNext, NewFile, Goto, SamePool, pool, Spawning
<1>2. mem'[t] = "Uploading" /\ trans'[t] = TRUE
  BY <1>1 DEF TypeOK, TaskInv, MemoryInv, PipelineFirst, PipelineNext, BeginUpload,
              Busy, Spawning
<1>3. idx[t] \in Files /\ inFlight[t] < PoolSize /\ upload[t][idx[t]] = "none"
  BY DEF TypeOK, PipelineFirst, PipelineNext, NewFile, CanSpawnMore, Queued
<1>4. MemoryInv(t)'
  BY <1>1, <1>2 DEF MemoryInv, Busy, Spawning, OneShot
<1>5. PoolInv(t)'
  <2>1. Uncounted(t)' = Uncounted(t)
    BY <1>1 DEF SamePool, Uncounted
  <2> QED BY <1>1, <1>3, <2>1 DEF TaskInv, PoolInv, SamePool, Busy, Spawning
<1>6. SendInv(t)'
  BY <1>1, <1>2 DEF TaskInv, SendInv, SamePool, Spawning, OneShot, Delivered, Gone
<1> QED BY <1>4, <1>5, <1>6 DEF TaskInv

\* spawn_upload takes one slot, for a file that was never queued.
LEMMA SpawnInv ==
    ASSUME TypeOK, NEW t \in Tasks, TaskInv(t), PipelineSpawn(t)
    PROVE  TaskInv(t)'
<1> DEFINE g == idx[t]
<1>1. g \in Files /\ inFlight[t] < PoolSize /\ upload[t][g] = "none"
  BY DEF PipelineSpawn, TaskInv, PoolInv, Spawning
<1>2. /\ upload'[t] = [upload[t] EXCEPT ![g] = "running"]
      /\ inFlight'[t] = inFlight[t] + 1
  BY <1>1 DEF TypeOK, PipelineSpawn, SpawnUpload, Queued
<1>3. /\ pc[t] = "spawn" /\ pc'[t] = "pipeline"
      /\ mem'[t] = mem[t] /\ trans'[t] = trans[t] /\ completed'[t] = completed[t]
      /\ failed'[t] = failed[t] /\ sent'[t] = sent[t]
  BY DEF TypeOK, PipelineSpawn, Goto
<1> HIDE DEF g
<1>4. MemoryInv(t)'
  BY <1>3 DEF TaskInv, MemoryInv, Busy, Spawning, OneShot
<1>5. PoolInv(t)'
  <2>1. g \notin Uncounted(t) /\ Uncounted(t)' = Uncounted(t) \union {g}
    BY <1>1, <1>2 DEF TypeOK, Uncounted
  <2>2. Cardinality(Uncounted(t)') = Cardinality(Uncounted(t)) + 1
    BY <2>1, UncountedFinite, FS_AddElement
  <2> QED BY <1>1, <1>2, <1>3, <2>2, ConstantsAssumption
          DEF TypeOK, TaskInv, PoolInv, Busy, Spawning
<1>6. SendInv(t)'
  BY <1>1, <1>2, <1>3 DEF TypeOK, TaskInv, SendInv, MemoryInv, Spawning, OneShot,
                          Delivered, Gone
<1> QED BY <1>4, <1>5, <1>6 DEF TaskInv

\* The loop is left with nothing in flight and nothing failed: every upload that
\* was spawned ended well.
LEMMA LeaveInv ==
    ASSUME TypeOK, NEW t \in Tasks, TaskInv(t), LeaveUploaded(t) \/ LeaveFallback(t)
    PROVE  TaskInv(t)'
<1>1. /\ pc[t] = "terminate" /\ failed[t] = 0 /\ inFlight[t] = 0
      /\ trans'[t] = trans[t] /\ kind'[t] = kind[t] /\ SamePool(t)
  BY DEF TypeOK, LeaveUploaded, LeaveFallback, SamePool, pool
<1>2. mem[t] = IF trans[t] THEN "Uploading" ELSE "Downloading"
  BY <1>1 DEF TaskInv, MemoryInv, Busy, Spawning
<1>3. \A f \in Files : upload[t][f] \in {"none", "ok"}
  <2>1. Uncounted(t) = {}
    BY <1>1, NothingInFlight DEF TaskInv
  <2> QED BY <1>1, <2>1 DEF TypeOK, TaskInv, SendInv, Uncounted, UploadStates
<1>4. CASE LeaveUploaded(t)
  <2>1. pc'[t] = "persistCompleted" /\ mem'[t] = "Completed"
    BY <1>2, <1>4 DEF TypeOK, LeaveUploaded, Finish, Goto, BeginUpload, MarkCompleted
  <2>2. \E f \in Files : sent[t][f] > 0
    BY <1>4 DEF LeaveUploaded, TaskInv, SendInv
  <2>3. MemoryInv(t)'
    BY <2>1 DEF MemoryInv, Busy, Spawning, OneShot
  <2>4. PoolInv(t)'
    BY <1>1, <2>1, PoolMove DEF TaskInv, Spawning
  <2>5. SendInv(t)'
    BY <1>1, <1>3, <2>1, <2>2 DEF TaskInv, SendInv, SamePool, OneShot, Delivered
  <2> QED BY <2>3, <2>4, <2>5 DEF TaskInv
<1>5. CASE LeaveFallback(t)
  <2>1. \A f \in Files : upload[t][f] = "none"
    BY <1>3, <1>5 DEF LeaveFallback, TaskInv, SendInv
  <2>2. \/ pc'[t] = "persistFallback" /\ mem'[t] = "Uploading" /\ ~trans[t]
        \/ pc'[t] = "persistFailed" /\ mem'[t] = "Failed"
    BY <1>2, <1>5 DEF TypeOK, LeaveFallback, Transition, Goto, BeginUpload,
                      MarkFailed, TerminalStates
  <2>3. MemoryInv(t)'
    BY <1>1, <2>2 DEF MemoryInv, Busy, Spawning, OneShot
  <2>4. PoolInv(t)'
    BY <1>1, <2>2, PoolMove DEF TaskInv, Spawning
  <2>5. SendInv(t)'
    BY <1>1, <2>1, <2>2 DEF TaskInv, SendInv, SamePool, OneShot, Delivered, Gone
  <2> QED BY <2>3, <2>4, <2>5 DEF TaskInv
<1> QED BY <1>4, <1>5

\* The one-shot upload completes the task: it ran without a pooled upload, so
\* every file is sent at most once.
LEMMA OneShotInv ==
    ASSUME TypeOK, NEW t \in Tasks, TaskInv(t), UploadAllOk(t) \/ UploadAllEmpty(t)
    PROVE  TaskInv(t)'
<1>1. /\ pc[t] = "uploadAll" /\ trans'[t] = trans[t] /\ kind'[t] = kind[t]
      /\ upload'[t] = upload[t] /\ inFlight'[t] = inFlight[t]
      /\ completed'[t] = completed[t] /\ failed'[t] = failed[t]
  BY DEF TypeOK, UploadAllOk, UploadAllEmpty, pool
<1>2. mem[t] = "Uploading" /\ ~trans[t]
  BY <1>1 DEF TaskInv, MemoryInv, OneShot
<1>3. \A f \in Files : upload[t][f] = "none"
  BY <1>2 DEF TaskInv, SendInv
<1>4. pc'[t] = "persistCompleted" /\ mem'[t] = "Completed"
  BY <1>2 DEF TypeOK, UploadAllOk, UploadAllEmpty, Finish, Goto, BeginUpload, MarkCompleted
<1>5. \A f \in Files : sent[t][f] = 0
  BY <1>1, <1>3 DEF TypeOK, TaskInv, SendInv, Delivered, Gone
<1>6. /\ \A f \in Files : sent'[t][f] <= 1
      /\ \/ kind[t] = "mirror"
         \/ \E f \in Files : sent'[t][f] > 0
      /\ completed[t] = 0 \/ \E f \in Files : sent'[t][f] > 0
  <2>1. CASE UploadAllOk(t)
    <3>1. PICK S \in {Files, {1}} :
            sent' = [sent EXCEPT ![t] = [f \in Files |->
                        IF f \in S THEN sent[t][f] + 1 ELSE sent[t][f]]]
      BY <2>1 DEF UploadAllOk
    <3>2. sent'[t] = [f \in Files |-> IF f \in S THEN 1 ELSE 0]
      BY <1>5, <3>1 DEF TypeOK
    <3>3. 1 \in Files /\ 1 \in S
      BY ConstantsAssumption DEF Files
    <3>4. sent'[t][1] > 0 /\ \A f \in Files : sent'[t][f] <= 1
      BY <3>2, <3>3
    <3> QED BY <3>3, <3>4
  <2>2. CASE UploadAllEmpty(t)
    BY <2>2, <1>5 DEF UploadAllEmpty, pool, TypeOK, TaskInv, SendInv
  <2> QED BY <2>1, <2>2
<1>7. MemoryInv(t)'
  BY <1>4 DEF MemoryInv, Busy, Spawning, OneShot
<1>8. PoolInv(t)'
  <2>1. Uncounted(t)' = Uncounted(t) /\ Live(t)' = {}
    BY <1>1, <1>3 DEF Uncounted, Live
  <2> QED BY <1>1, <1>4, <2>1 DEF TaskInv, PoolInv, Spawning
<1>9. SendInv(t)'
  BY <1>1, <1>3, <1>4, <1>6 DEF TypeOK, TaskInv, SendInv, OneShot, Delivered
<1> QED BY <1>7, <1>8, <1>9 DEF TaskInv

-----------------------------------------------------------------------------
\* An upload coroutine that ends gives its slot back exactly once, and runs only
\* while its task is still waiting for it.
LEMMA UploadInv ==
    ASSUME TypeOK, NEW t \in Tasks, TaskInv(t), NEW f \in Files, UploadStep(t, f)
    PROVE  TaskInv(t)'
<1>1. f \in Live(t) /\ f \in Uncounted(t)
  BY DEF UploadStep, UploadSucceeds, UploadFails, UploadThrows, Live, Uncounted
<1>2. /\ pc'[t] = pc[t] /\ mem'[t] = mem[t] /\ trans'[t] = trans[t]
      /\ kind'[t] = kind[t] /\ idx'[t] = idx[t]
  BY DEF UploadStep, UploadSucceeds, UploadFails, UploadThrows, coroutine
<1>3. pc[t] \in Busy /\ upload[t][f] \in {"running", "cancelling"}
  BY <1>1 DEF TaskInv, PoolInv, Live
<1>4. MemoryInv(t)'
  BY <1>2 DEF TaskInv, MemoryInv
<1>5. PICK r \in {"ok", "failed", "lost"} :
        upload'[t] = [upload[t] EXCEPT ![f] = r]
  BY DEF TypeOK, UploadStep, UploadSucceeds, UploadFails, UploadThrows
<1>6. PoolInv(t)'
  <2>1. inFlight'[t] <= inFlight[t]
        /\ inFlight'[t] = Cardinality(Uncounted(t)')
    <3>1. CASE UploadThrows(t, f)
      <4>1. upload'[t] = [upload[t] EXCEPT ![f] = "lost"] /\ inFlight'[t] = inFlight[t]
        BY <3>1 DEF TypeOK, UploadThrows
      <4>2. Uncounted(t)' = Uncounted(t)
        BY <1>3, <4>1 DEF TypeOK, Uncounted
      <4> QED BY <4>1, <4>2 DEF TypeOK, TaskInv, PoolInv
    <3>2. CASE UploadSucceeds(t, f) \/ UploadFails(t, f)
      <4>1. \/ upload'[t] = [upload[t] EXCEPT ![f] = "ok"]
            \/ upload'[t] = [upload[t] EXCEPT ![f] = "failed"]
        BY <3>2 DEF TypeOK, UploadSucceeds, UploadFails
      <4>2. inFlight'[t] = inFlight[t] - 1
        BY <3>2 DEF TypeOK, UploadSucceeds, UploadFails
      <4>3. Uncounted(t)' = Uncounted(t) \ {f}
        <5>1. upload[t] \in [Files -> UploadStates]
          BY DEF TypeOK
        <5>2. \A g \in Files : g # f => upload'[t][g] = upload[t][g]
          BY <4>1, <5>1
        <5>3. upload'[t][f] \in {"ok", "failed"}
          BY <4>1, <5>1
        <5> QED BY <5>2, <5>3 DEF Uncounted
      <4>4. Cardinality(Uncounted(t)') = Cardinality(Uncounted(t)) - 1
        BY <1>1, <4>3, UncountedFinite, FS_RemoveElement
      <4> QED BY <4>2, <4>4 DEF TypeOK, TaskInv, PoolInv
    <3> QED BY <3>1, <3>2 DEF UploadStep
  <2>2. inFlight'[t] \in Int
    BY DEF TypeOK, UploadStep, UploadSucceeds, UploadFails, UploadThrows
  <2>3. pc[t] \in Spawning => upload'[t][idx[t]] = "none"
    BY <1>3, <1>5 DEF TypeOK, TaskInv, PoolInv
  <2> QED BY <1>2, <1>3, <2>1, <2>2, <2>3, ConstantsAssumption
          DEF TypeOK, TaskInv, PoolInv
<1>7. SendInv(t)'
  <2>1. pc[t] \notin Delivered /\ mem[t] # "Completed" /\ trans[t]
    BY <1>3 DEF TaskInv, MemoryInv, SendInv, Busy, Spawning, Delivered, Gone
  <2>2. sent[t][f] = 0
    BY <1>3, <2>1 DEF TypeOK, TaskInv, SendInv
  <2>3. CASE UploadSucceeds(t, f)
    <3>1. /\ upload'[t] = [upload[t] EXCEPT ![f] = "ok"]
          /\ sent'[t] = [sent[t] EXCEPT ![f] = 1]
          /\ completed'[t] = completed[t] + 1 /\ failed'[t] = failed[t]
      BY <2>2, <2>3 DEF TypeOK, UploadSucceeds
    <3> QED BY <1>2, <1>3, <2>1, <3>1 DEF TypeOK, TaskInv, SendInv
  <2>4. CASE UploadFails(t, f)
    <3>1. /\ upload'[t] = [upload[t] EXCEPT ![f] = "failed"]
          /\ failed'[t] = failed[t] + 1
          /\ sent'[t] = sent[t] /\ completed'[t] = completed[t]
      BY <2>4 DEF TypeOK, UploadFails
    <3> QED BY <1>2, <1>3, <2>1, <2>2, <3>1 DEF TypeOK, TaskInv, SendInv
  <2>5. CASE UploadThrows(t, f)
    <3>1. /\ upload'[t] = [upload[t] EXCEPT ![f] = "lost"]
          /\ failed'[t] = failed[t]
          /\ sent'[t] = sent[t] /\ completed'[t] = completed[t]
      BY <2>5 DEF TypeOK, UploadThrows
    <3> QED BY <1>2, <1>3, <2>1, <2>2, <3>1 DEF TypeOK, TaskInv, SendInv
  <2> QED BY <2>3, <2>4, <2>5 DEF UploadStep
<1> QED BY <1>4, <1>6, <1>7 DEF TaskInv

\* A transfer step of one task does not touch any other task.
LEMMA FrameTransfer ==
    ASSUME TypeOK, NEW t \in Tasks, NEW u \in Tasks, u # t, TransferStep(t)
    PROVE  SameTask(u)
<1> USE DEF SameTask, SamePool, TypeOK, pool, Goto
<1>1. CASE \/ Begin(t) \/ SaveQueued(t) \/ SaveQueuedFails(t) \/ Register(t)
           \/ Persist(t) \/ AddUriAccepted(t) \/ AddUriFails(t)
  BY <1>1 DEF Begin, SaveQueued, SaveQueuedFails, Register, Transition, Persist,
              AddUriAccepted, AddUriFails, Fail
<1>2. CASE \/ ObserveCancel(t) \/ StatusBad(t) \/ TerminateFailed(t)
  BY <1>2 DEF ObserveCancel, StatusBad, TerminateFailed, Teardown, CancelAllUploads
<1>3. CASE \/ PollAgain(t) \/ StatusReply(t) \/ PipelineEnd(t) \/ PipelineSkip(t)
           \/ PipelineFirst(t) \/ PipelineNext(t) \/ Tick(t)
  BY <1>3 DEF PollAgain, StatusReply, PipelineEnd, PipelineSkip, PipelineFirst,
              PipelineNext, Tick
<1>4. CASE PipelineSpawn(t)
  BY <1>4 DEF PipelineSpawn, SpawnUpload
<1>5. CASE \/ LeaveUploaded(t) \/ LeaveFallback(t) \/ Drained(t) \/ EditUploading(t)
           \/ NoProducedFiles(t)
  BY <1>5 DEF LeaveUploaded, LeaveFallback, Finish, Transition, Drained,
              EditUploading, NoProducedFiles, Fail
<1>6. CASE \/ UploadAllOk(t) \/ UploadAllEmpty(t) \/ UploadAllFails(t)
  BY <1>6 DEF UploadAllOk, UploadAllEmpty, UploadAllFails, Finish, Fail
<1>7. CASE \/ RemoveCancelled(t) \/ RemoveFailed(t) \/ RemoveCompleted(t) \/ Return(t)
  BY <1>7 DEF RemoveCancelled, RemoveFailed, RemoveCompleted, Return, Fail
<1>8. ASSUME NEW f \in Files, UploadStep(t, f) PROVE SameTask(u)
  BY <1>8 DEF UploadStep, UploadSucceeds, UploadFails, UploadThrows, coroutine
<1>9. CASE DownloadProgress(t) \/ DownloadBreaks(t) \/ DownloadHalts(t)
  BY <1>9 DEF DownloadProgress, DownloadListed, DownloadLands, DownloadFinishes,
              DownloadBreaks, DownloadHalts, coroutine
<1> QED BY <1>1, <1>2, <1>3, <1>4, <1>5, <1>6, <1>7, <1>8, <1>9
        DEF TransferStep, CoroutineStep

\* Every step of a transfer keeps the invariant of every task.
LEMMA TransferStepInv ==
    ASSUME TypeOK, TransferInv, NEW t \in Tasks, TransferStep(t)
    PROVE  TransferInv'
<1>1. \A u \in Tasks : TaskInv(u)
  BY DEF TransferInv, TaskInv
<1>2. TaskInv(t)'
  <2>1. CASE DownloadProgress(t) \/ DownloadBreaks(t) \/ DownloadHalts(t)
    <3>1. SameTask(t)
      BY <2>1 DEF DownloadProgress, DownloadListed, DownloadLands, DownloadFinishes,
                  DownloadBreaks, DownloadHalts, coroutine, pool, SameTask, SamePool
    <3> QED BY <1>1, <3>1, FrameTask
  <2>2. CASE \E f \in Files : UploadStep(t, f)
    BY <1>1, <2>2, UploadInv
  <2>3. CASE Begin(t)
    BY <1>1, <2>3, BeginInv
  <2>4. CASE CoroutineStep(t)
    BY <1>1, <2>4, MovePrologue, MoveLoop, MoveEpilogue, TeardownInv, NewFileInv,
       SpawnInv, LeaveInv, OneShotInv DEF CoroutineStep
  <2> QED BY <2>1, <2>2, <2>3, <2>4 DEF TransferStep
<1>3. ASSUME NEW u \in Tasks, u # t PROVE TaskInv(u)'
  BY <1>1, <1>3, FrameTransfer, FrameTask
<1> QED BY <1>2, <1>3 DEF TransferInv, TaskInv

\* A crash ends every coroutine, the uploads of the pool included.
LEMMA CrashInv ==
    ASSUME TypeOK, TransferInv, Crash
    PROVE  TransferInv'
<1> SUFFICES ASSUME NEW t \in Tasks PROVE TaskInv(t)'
  BY DEF TransferInv, TaskInv
<1>1. MemoryInv(t) /\ PoolInv(t) /\ SendInv(t)
  BY DEF TransferInv
<1>2. /\ pc'[t] = IF pc[t] \in Gone \union {"idle"} THEN pc[t] ELSE "crashed"
      /\ upload'[t] = [f \in Files |-> IF f \in Live(t) THEN "lost" ELSE upload[t][f]]
      /\ mem'[t] = mem[t] /\ trans'[t] = trans[t] /\ kind'[t] = kind[t]
      /\ inFlight'[t] = inFlight[t] /\ completed'[t] = completed[t]
      /\ failed'[t] = failed[t] /\ sent'[t] = sent[t]
  BY DEF Crash
<1>3. MemoryInv(t)'
  BY <1>1, <1>2 DEF MemoryInv, Gone, Busy, Spawning, OneShot
<1>4. PoolInv(t)'
  <2>1. Uncounted(t)' = Uncounted(t) /\ Live(t)' = {}
    BY <1>2 DEF Uncounted, Live
  <2> QED BY <1>1, <1>2, <2>1 DEF PoolInv, Spawning, Gone
<1>5. SendInv(t)'
  <2>1. mem[t] = "Completed" => Live(t) = {}
    BY <1>1 DEF MemoryInv, PoolInv, Busy, Spawning
  <2>2. \A f \in Files : \/ upload'[t][f] = upload[t][f]
                         \/ upload'[t][f] = "lost" /\ f \in Live(t)
    BY <1>2
  <2>3. pc[t] = "idle" \/ ~trans[t] => Live(t) = {}
    BY <1>1 DEF PoolInv, SendInv, Busy, Live
  <2>4. pc'[t] \notin Delivered => pc[t] = "idle" /\ pc[t] \notin Delivered
    BY <1>2 DEF Delivered, Gone
  <2> QED BY <1>1, <1>2, <2>1, <2>2, <2>3, <2>4 DEF SendInv
<1> QED BY <1>3, <1>4, <1>5 DEF TaskInv

\* Commands reach into the flag, the rows and the backend, never into the
\* aggregate or the pool of a use case.
LEMMA CommandStepInv ==
    ASSUME TransferInv, NEW c \in Commands, Request(c) \/ CommandStep(c)
    PROVE  TransferInv'
<1>1. UNCHANGED <<coroutine, pool>>
  BY DEF CommandStep, Request, Find, Refuse, Signal, TakeOver, RemoveDownload,
         SaveCancelled, CallBackend, transferVars
<1>2. \A t \in Tasks : SameTask(t)
  BY <1>1 DEF SameTask, SamePool, coroutine, pool
<1> QED BY <1>2, FrameTask DEF TransferInv, TaskInv

\* The invariant holds initially, with every pool empty,
LEMMA TransferInvInit == Init => TransferInv
<1> SUFFICES ASSUME Init, NEW t \in Tasks PROVE TaskInv(t)
  BY DEF TransferInv, TaskInv
<1>1. /\ pc[t] = "idle" /\ mem[t] = "Queued" /\ ~trans[t]
      /\ inFlight[t] = 0 /\ completed[t] = 0 /\ failed[t] = 0
      /\ \A f \in Files : upload[t][f] = "none" /\ sent[t][f] = 0
  BY DEF Init, TransferInit
<1>2. MemoryInv(t)
  BY <1>1 DEF MemoryInv, Busy, Spawning, OneShot
<1>3. PoolInv(t)
  <2>1. Uncounted(t) = {} /\ Live(t) = {}
    BY <1>1 DEF Uncounted, Live
  <2> QED BY <1>1, <2>1, FS_EmptySet, ConstantsAssumption DEF PoolInv, Spawning
<1>4. SendInv(t)
  BY <1>1 DEF SendInv, OneShot
<1> QED BY <1>2, <1>3, <1>4 DEF TaskInv

\* and every step of the system keeps it.
LEMMA TransferInvNext ==
    SystemTypeOK /\ TransferInv /\ [Next]_vars => TransferInv'
<1> SUFFICES ASSUME SystemTypeOK, TransferInv, [Next]_vars PROVE TransferInv'
  OBVIOUS
<1>1. CASE UNCHANGED vars
  <2>1. \A t \in Tasks : SameTask(t)
    BY <1>1 DEF vars, transferVars, coroutine, pool, SameTask, SamePool
  <2> QED BY <2>1, FrameTask DEF TransferInv, TaskInv
<1>2. CASE Next
  BY <1>1, <1>2, TransferStepInv, CommandStepInv, CrashInv
     DEF Next, Quiescent, Transfer, SystemTypeOK
<1> QED BY <1>1, <1>2

-----------------------------------------------------------------------------
\* Types and TransferInv hold together in every reachable state.
THEOREM Invariance == Spec => [](SystemTypeOK /\ TransferInv)
<1>1. Init => SystemTypeOK /\ TransferInv
  BY TypeInit, TransferInvInit
<1>2. SystemTypeOK /\ TransferInv /\ [Next]_vars => (SystemTypeOK /\ TransferInv)'
  BY TypeNext, TransferInvNext
<1> QED BY <1>1, <1>2, PTL DEF Spec

\* Every variable keeps its type; in particular PipelineState::in_flight never
\* drops below zero and the position in final_status.files never leaves it.
THEOREM TypeCorrect == Spec => []SystemTypeOK
  BY Invariance, PTL

\* in_flight is exact through failures, cancellation, exceptions and crashes.
THEOREM SlotAccountingHolds == Spec => []SlotAccounting
<1>1. TransferInv => SlotAccounting
  BY DEF TransferInv, PoolInv, SlotAccounting
<1> QED BY <1>1, Invariance, PTL

\* At most upload_pool_size_ uploads of a task run at a time.
THEOREM PoolBoundedHolds == Spec => []PoolBounded
<1>1. SystemTypeOK /\ TransferInv => PoolBounded
  <2> SUFFICES ASSUME SystemTypeOK, TransferInv, NEW t \in Tasks
               PROVE  Cardinality(Live(t)) <= PoolSize
    BY DEF PoolBounded
  <2>1. Live(t) \subseteq Uncounted(t)
    BY DEF Live, Uncounted
  <2>2. /\ Cardinality(Live(t)) \in Nat /\ Cardinality(Uncounted(t)) \in Nat
        /\ Cardinality(Live(t)) <= Cardinality(Uncounted(t))
    BY <2>1, UncountedFinite, FS_Subset, FS_CardinalityType
  <2> QED BY <2>2, ConstantsAssumption DEF TransferInv, PoolInv
<1> QED BY <1>1, Invariance, PTL

\* No detached upload outlives the task it belongs to.
THEOREM NoUploadOutlivesTaskHolds == Spec => []NoUploadOutlivesTask
<1>1. SystemTypeOK /\ TransferInv => NoUploadOutlivesTask
  BY DEF TransferInv, MemoryInv, PoolInv, NoUploadOutlivesTask, Busy, Spawning,
         TerminalStates
<1> QED BY <1>1, Invariance, PTL

\* No file reaches the destination twice.
THEOREM SentAtMostOnceHolds == Spec => []SentAtMostOnce
<1>1. TransferInv => SentAtMostOnce
  BY DEF TransferInv, SendInv, SentAtMostOnce
<1> QED BY <1>1, Invariance, PTL

\* A Completed task has no failed or cut-short upload, and a leech sent a file.
THEOREM CompletedIsCleanHolds == Spec => []CompletedIsClean
<1>1. TransferInv => CompletedIsClean
  BY DEF TransferInv, SendInv, CompletedIsClean
<1> QED BY <1>1, Invariance, PTL

-----------------------------------------------------------------------------
\* A step changes the aggregate of at most one task, along one transition of the
\* Task class.
MemoryStep(t) ==
    \/ mem' = mem
    \/ \E s \in Successors(mem[t]) : mem' = [mem EXCEPT ![t] = s]

\* Every step of a transfer is such a step.
LEMMA TransferMemory ==
    ASSUME TypeOK, NEW t \in Tasks, TaskInv(t), TransferStep(t)
    PROVE  MemoryStep(t)
<1> USE DEF MemoryStep
<1>1. CASE UNCHANGED mem
  BY <1>1
<1>2. CASE Register(t)
  BY <1>2 DEF TypeOK, TaskInv, MemoryInv, Register, Transition, StartDownload, Successors
<1>3. CASE \/ AddUriFails(t) \/ NoProducedFiles(t) \/ UploadAllFails(t) \/ RemoveFailed(t)
  <2>1. mem[t] \notin TerminalStates
    BY <1>3 DEF TaskInv, MemoryInv, AddUriFails, NoProducedFiles, UploadAllFails,
                RemoveFailed, OneShot, Busy, Spawning, TerminalStates
  <2>2. mem' = [mem EXCEPT ![t] = "Failed"]
    BY <1>3, <2>1 DEF TypeOK, AddUriFails, NoProducedFiles, UploadAllFails,
                      RemoveFailed, Fail, MarkFailed
  <2>3. "Failed" \in Successors(mem[t])
    BY <2>1 DEF Successors, MarkFailed, TerminalStates
  <2> QED BY <2>2, <2>3
<1>4. CASE PipelineFirst(t)
  BY <1>4 DEF PipelineFirst, Successors
<1>5. CASE LeaveUploaded(t)
  <2>1. trans[t]
    BY <1>5 DEF TypeOK, LeaveUploaded, TaskInv, SendInv
  <2>2. mem[t] = "Uploading"
    BY <1>5, <2>1 DEF LeaveUploaded, TaskInv, MemoryInv, Busy, Spawning
  <2>3. mem' = [mem EXCEPT ![t] = "Completed"]
    BY <1>5, <2>1, <2>2 DEF LeaveUploaded, Finish, MarkCompleted
  <2> QED BY <2>2, <2>3 DEF Successors, MarkCompleted
<1>6. CASE UploadAllOk(t) \/ UploadAllEmpty(t)
  <2>1. mem[t] = "Uploading"
    BY <1>6 DEF UploadAllOk, UploadAllEmpty, TaskInv, MemoryInv, OneShot
  <2>2. mem' = [mem EXCEPT ![t] = "Completed"]
    BY <1>6, <2>1 DEF UploadAllOk, UploadAllEmpty, Finish, BeginUpload, MarkCompleted
  <2> QED BY <2>1, <2>2 DEF Successors, MarkCompleted
<1>7. CASE LeaveFallback(t)
  <2>1. mem[t] \in {"Downloading", "Uploading"}
    BY <1>7 DEF LeaveFallback, TaskInv, MemoryInv, Busy, Spawning
  <2>2. \/ mem[t] = "Downloading" /\ mem' = [mem EXCEPT ![t] = "Uploading"]
        \/ mem[t] = "Uploading" /\ mem' = [mem EXCEPT ![t] = "Failed"]
    BY <1>7, <2>1 DEF LeaveFallback, Transition, BeginUpload, MarkFailed, TerminalStates
  <2> QED BY <2>2 DEF Successors, BeginUpload, MarkFailed, TerminalStates
<1>8. CASE Drained(t)
  <2>1. mem[t] \in {"Downloading", "Uploading"}
    BY <1>8 DEF Drained, TaskInv, MemoryInv, Busy, Spawning
  <2>2. mem' = mem \/ mem' = [mem EXCEPT ![t] = "Failed"]
    BY <1>8, <2>1 DEF TypeOK, Drained, MarkFailed, TerminalStates
  <2> QED BY <2>1, <2>2 DEF Successors, MarkFailed, TerminalStates
<1>9. CASE RemoveCancelled(t)
  <2>1. mem[t] \in {"Downloading", "Uploading"}
    BY <1>9 DEF RemoveCancelled, TaskInv, MemoryInv
  <2>2. mem' = [mem EXCEPT ![t] = "Cancelled"]
    BY <1>9, <2>1 DEF RemoveCancelled, MarkCancelled, TerminalStates
  <2> QED BY <2>1, <2>2 DEF Successors, MarkCancelled, TerminalStates
<1>10. CASE \/ Begin(t) \/ SaveQueued(t) \/ SaveQueuedFails(t) \/ Persist(t)
            \/ AddUriAccepted(t) \/ ObserveCancel(t) \/ PollAgain(t) \/ StatusReply(t)
            \/ StatusBad(t) \/ PipelineEnd(t) \/ PipelineSkip(t) \/ PipelineNext(t)
            \/ PipelineSpawn(t) \/ TerminateFailed(t) \/ Tick(t) \/ EditUploading(t)
            \/ RemoveCompleted(t) \/ Return(t)
  <2>1. UNCHANGED mem
    BY <1>10 DEF Begin, SaveQueued, SaveQueuedFails, Persist, AddUriAccepted,
       ObserveCancel, PollAgain, StatusReply, StatusBad, Teardown, PipelineEnd,
       PipelineSkip, PipelineNext, PipelineSpawn, TerminateFailed, Tick,
       EditUploading, RemoveCompleted, Return
  <2> QED BY <2>1
<1>11. ASSUME NEW f \in Files, UploadStep(t, f) PROVE UNCHANGED mem
  BY <1>11 DEF UploadStep, UploadSucceeds, UploadFails, UploadThrows, coroutine
<1>12. CASE DownloadProgress(t) \/ DownloadBreaks(t) \/ DownloadHalts(t)
  BY <1>12 DEF DownloadProgress, DownloadListed, DownloadLands, DownloadFinishes,
               DownloadBreaks, DownloadHalts, coroutine
<1> QED
  BY <1>1, <1>2, <1>3, <1>4, <1>5, <1>6, <1>7, <1>8, <1>9, <1>10, <1>11, <1>12
     DEF TransferStep, CoroutineStep

\* The aggregates of the use cases implement TaskLifecycle: from Queued, along
\* single transitions of the Task class, and never out of a terminal state.
THEOREM InMemoryLifecycleHolds == Spec => InMemoryLifecycle
<1>1. Init => MemLifecycle!Init
  BY DEF Init, TransferInit, MemLifecycle!Init
<1>2. SystemTypeOK /\ TransferInv /\ [Next]_vars => [MemLifecycle!Next]_mem
  <2> SUFFICES ASSUME SystemTypeOK, TransferInv, [Next]_vars,
                      mem' # mem
               PROVE  MemLifecycle!Next
    OBVIOUS
  <2>1. \E t \in Tasks : TransferStep(t)
    <3>1. CASE UNCHANGED vars
      BY <3>1 DEF vars, transferVars, coroutine
    <3>2. ASSUME NEW c \in Commands, Request(c) \/ CommandStep(c) PROVE mem' = mem
      BY <3>2 DEF CommandStep, Request, Find, Refuse, Signal, TakeOver,
         RemoveDownload, SaveCancelled, CallBackend, transferVars, coroutine
    <3>3. CASE Crash
      BY <3>3 DEF Crash
    <3> QED BY <3>1, <3>2, <3>3 DEF Next, Quiescent, Transfer
  <2>2. PICK t \in Tasks : TransferStep(t)
    BY <2>1
  <2>3. MemoryStep(t)
    BY <2>2, TransferMemory DEF SystemTypeOK, TransferInv, TaskInv
  <2>4. \E s \in Successors(mem[t]) : mem' = [mem EXCEPT ![t] = s]
    BY <2>3 DEF MemoryStep
  <2> QED BY <2>4 DEF MemLifecycle!Next, MemLifecycle!Advance, MemLifecycle!Successors,
          Successors, MemLifecycle!StartDownload, StartDownload,
          MemLifecycle!BeginProcessing, BeginProcessing, MemLifecycle!BeginUpload,
          BeginUpload, MemLifecycle!MarkCompleted, MarkCompleted,
          MemLifecycle!MarkFailed, MarkFailed, MemLifecycle!MarkCancelled,
          MarkCancelled, MemLifecycle!TerminalStates, TerminalStates
<1> QED BY <1>1, <1>2, Invariance, PTL DEF Spec, InMemoryLifecycle, MemLifecycle!Spec

-----------------------------------------------------------------------------
(***************************************************************************)
(* CommandInv is inductive relative to the types and TransferInv, and with *)
(* it: commands never tear down under a live use case, rows agree with the *)
(* verdict of the use case, released downloads stay released, and commands *)
(* stay in their chat.                                                     *)
(***************************************************************************)

\* What the commands can see of a task is as before.
SameView(t) ==
    /\ pc'[t] = pc[t] /\ mem'[t] = mem[t] /\ bound'[t] = bound[t]
    /\ rowState'[t] = rowState[t] /\ rowBound'[t] = rowBound[t]
    /\ dl'[t] = dl[t]
    /\ t \in registry' <=> t \in registry

\* The places of execute between attach_downloader and the last edit.
Inner == Locations \ (Unguarded \union Detached \union {"edit"})

\* A transfer step of one task changes nothing that commands see of another.
LEMMA ViewFrame ==
    ASSUME TypeOK, NEW t \in Tasks, NEW u \in Tasks, u # t, TransferStep(t)
    PROVE  SameView(u)
<1> USE DEF SameView, TypeOK, table, active, backend, Goto
<1>1. CASE \/ Begin(t) \/ SaveQueued(t) \/ SaveQueuedFails(t) \/ Register(t)
           \/ Persist(t) \/ AddUriAccepted(t) \/ AddUriFails(t)
  BY <1>1 DEF Begin, SaveQueued, SaveQueuedFails, SaveTask, Register, Transition,
              Persist, AddUriAccepted, AddUriFails, Fail
<1>2. CASE \/ ObserveCancel(t) \/ StatusBad(t) \/ TerminateFailed(t)
  BY <1>2 DEF ObserveCancel, StatusBad, TerminateFailed, Teardown
<1>3. CASE \/ PollAgain(t) \/ StatusReply(t) \/ PipelineEnd(t) \/ PipelineSkip(t)
           \/ PipelineFirst(t) \/ PipelineNext(t) \/ PipelineSpawn(t) \/ Tick(t)
  BY <1>3 DEF PollAgain, StatusReply, PipelineEnd, PipelineSkip, PipelineFirst,
              PipelineNext, PipelineSpawn, Tick
<1>4. CASE \/ LeaveUploaded(t) \/ LeaveFallback(t) \/ Drained(t) \/ EditUploading(t)
           \/ NoProducedFiles(t)
  BY <1>4 DEF LeaveUploaded, LeaveFallback, Finish, Transition, Drained,
              EditUploading, NoProducedFiles, Fail
<1>5. CASE \/ UploadAllOk(t) \/ UploadAllEmpty(t) \/ UploadAllFails(t)
  BY <1>5 DEF UploadAllOk, UploadAllEmpty, UploadAllFails, Finish, Fail
<1>6. CASE \/ RemoveCancelled(t) \/ RemoveFailed(t) \/ RemoveCompleted(t) \/ Return(t)
  BY <1>6 DEF RemoveCancelled, RemoveFailed, RemoveCompleted, Return, Fail,
              BackendRemove
<1>7. ASSUME NEW f \in Files, UploadStep(t, f) PROVE SameView(u)
  BY <1>7 DEF UploadStep, UploadSucceeds, UploadFails, UploadThrows, coroutine
<1>8. CASE DownloadProgress(t) \/ DownloadBreaks(t) \/ DownloadHalts(t)
  BY <1>8 DEF DownloadProgress, DownloadListed, DownloadLands, DownloadFinishes,
              DownloadBreaks, DownloadHalts, coroutine
<1> QED BY <1>1, <1>2, <1>3, <1>4, <1>5, <1>6, <1>7, <1>8
        DEF TransferStep, CoroutineStep

\* A step of the loop or of the ways out, a removal apart, moves within Inner
\* and writes neither the rows, nor the registry, nor the backend, and does not
\* cancel the task.
LEMMA InnerStep ==
    ASSUME TypeOK, NEW t \in Tasks,
           \/ ObserveCancel(t) \/ StatusBad(t) \/ TerminateFailed(t) \/ PollAgain(t)
           \/ StatusReply(t) \/ PipelineEnd(t) \/ PipelineSkip(t) \/ PipelineFirst(t)
           \/ PipelineNext(t) \/ PipelineSpawn(t) \/ Tick(t) \/ LeaveUploaded(t)
           \/ LeaveFallback(t) \/ Drained(t) \/ EditUploading(t) \/ NoProducedFiles(t)
           \/ UploadAllOk(t) \/ UploadAllEmpty(t) \/ UploadAllFails(t)
    PROVE  /\ pc[t] \in Inner /\ pc'[t] \in Inner /\ pc'[t] # "removeCompleted"
           /\ UNCHANGED <<bound, table, active, backend>>
           /\ mem'[t] = "Cancelled" => mem[t] = "Cancelled"
<1> USE DEF TypeOK, table, active, backend, Goto, Inner, Locations, PersistPoints,
        Unguarded, Detached, Gone, BeginUpload, MarkCompleted, MarkFailed, TerminalStates
<1>1. CASE \/ ObserveCancel(t) \/ StatusBad(t) \/ TerminateFailed(t)
  BY <1>1 DEF ObserveCancel, StatusBad, TerminateFailed, Teardown
<1>2. CASE \/ PollAgain(t) \/ StatusReply(t) \/ PipelineEnd(t) \/ PipelineSkip(t)
           \/ PipelineFirst(t) \/ PipelineNext(t) \/ PipelineSpawn(t) \/ Tick(t)
  BY <1>2 DEF PollAgain, StatusReply, PipelineEnd, PipelineSkip, PipelineFirst,
              PipelineNext, NewFile, PipelineSpawn, Tick
<1>3. CASE \/ LeaveUploaded(t) \/ LeaveFallback(t) \/ Drained(t) \/ EditUploading(t)
           \/ NoProducedFiles(t)
  BY <1>3 DEF LeaveUploaded, LeaveFallback, Finish, Transition, Drained, AfterDrain,
              EditUploading, NoProducedFiles, Fail
<1>4. CASE \/ UploadAllOk(t) \/ UploadAllEmpty(t) \/ UploadAllFails(t)
  BY <1>4 DEF UploadAllOk, UploadAllEmpty, UploadAllFails, Finish, Fail
<1> QED BY <1>1, <1>2, <1>3, <1>4

\* A remove call that cannot fail leaves no running download, and no remove call
\* starts one.
LEMMA RemoveReleases ==
    ASSUME TypeOK, NEW t \in Tasks, NEW b \in BOOLEAN, BackendRemove(t, b)
    PROVE  /\ "remove" \notin Faults => dl'[t] \notin Running
           /\ dl[t] \notin Running => dl'[t] \notin Running
           /\ \A u \in Tasks \ {t} : dl'[u] = dl[u]
  BY DEF TypeOK, BackendRemove, Running, backend

\* What a transfer step does, as far as commands are concerned: it moves forward,
\* saves the aggregate or nothing, and restarts no download but at add_uri.
Forward(t) ==
    /\ pc[t] \notin Detached => pc'[t] \notin Detached
    /\ pc[t] \in Gone => pc'[t] \in Gone
    /\ pc'[t] = "idle" => pc[t] = "idle" /\ rowState'[t] = rowState[t]
    /\ rowState'[t] \in {rowState[t], mem[t]}
    /\ dl[t] \notin Running /\ dl'[t] \in Running => pc[t] = "addUri"
    /\ flag' = flag

\* Every transfer step is of this form.
LEMMA ForwardStep ==
    ASSUME TypeOK, NEW t \in Tasks, TransferStep(t)
    PROVE  Forward(t)
<1> USE DEF TypeOK, Forward, active, table, backend, Goto, Detached, Gone, Running
<1>1. CASE \/ Begin(t) \/ SaveQueued(t) \/ SaveQueuedFails(t) \/ Register(t)
  BY <1>1 DEF Begin, SaveQueued, SaveQueuedFails, SaveTask, Register, Transition
<1>2. CASE Persist(t)
  BY <1>2 DEF Persist, SaveTask, PersistPoints, AfterPersist
<1>3. CASE AddUriAccepted(t) \/ AddUriFails(t)
  BY <1>3 DEF AddUriAccepted, AddUriFails, Fail
<1>4. CASE \/ RemoveCancelled(t) \/ RemoveFailed(t) \/ RemoveCompleted(t) \/ Return(t)
  <2>1. \/ UNCHANGED dl
        \/ dl'[t] \notin Running \/ dl[t] \in Running
    BY <1>4, RemoveReleases DEF RemoveCancelled, RemoveFailed, RemoveCompleted, Return
  <2> QED BY <1>4, <2>1 DEF RemoveCancelled, RemoveFailed, RemoveCompleted, Return, Fail
<1>5. ASSUME NEW f \in Files, UploadStep(t, f) PROVE Forward(t)
  BY <1>5 DEF UploadStep, UploadSucceeds, UploadFails, UploadThrows, coroutine
<1>6. CASE DownloadProgress(t) \/ DownloadBreaks(t) \/ DownloadHalts(t)
  BY <1>6 DEF DownloadProgress, DownloadListed, DownloadLands, DownloadFinishes,
              DownloadBreaks, DownloadHalts, coroutine
<1>7. CASE CoroutineStep(t)
  BY <1>1, <1>2, <1>3, <1>4, <1>7, InnerStep DEF CoroutineStep, Inner, Unguarded
<1> QED BY <1>1, <1>5, <1>6, <1>7 DEF TransferStep

-----------------------------------------------------------------------------
\* The guard and the downloader id of a task follow its coroutine.
OwnTask(t) ==
    /\ t \in registry <=> pc[t] \notin Unguarded
    /\ bound[t] \/ rowBound[t] => pc[t] \notin Detached

\* Every transfer step keeps that for its task.
LEMMA OwnTaskStep ==
    ASSUME TypeOK, NEW t \in Tasks, OwnTask(t), TransferStep(t)
    PROVE  OwnTask(t)'
<1> USE DEF TypeOK, OwnTask, active, table, Goto
<1>1. CASE \/ Begin(t) \/ SaveQueued(t) \/ SaveQueuedFails(t) \/ Register(t)
  BY <1>1 DEF Begin, SaveQueued, SaveQueuedFails, SaveTask, Register, Transition,
              Unguarded, Detached, Gone
<1>2. CASE Persist(t)
  BY <1>2 DEF Persist, SaveTask, PersistPoints, AfterPersist, Unguarded, Detached, Gone
<1>3. CASE AddUriAccepted(t) \/ AddUriFails(t)
  BY <1>3 DEF AddUriAccepted, AddUriFails, Fail, Unguarded, Detached, Gone
<1>4. CASE \/ RemoveCancelled(t) \/ RemoveFailed(t) \/ RemoveCompleted(t) \/ Return(t)
  BY <1>4 DEF RemoveCancelled, RemoveFailed, RemoveCompleted, Return, Fail,
              Unguarded, Detached, Gone
<1>5. ASSUME NEW f \in Files, UploadStep(t, f) PROVE OwnTask(t)'
  BY <1>5 DEF UploadStep, UploadSucceeds, UploadFails, UploadThrows, coroutine
<1>6. CASE DownloadProgress(t) \/ DownloadBreaks(t) \/ DownloadHalts(t)
  BY <1>6 DEF DownloadProgress, DownloadListed, DownloadLands, DownloadFinishes,
              DownloadBreaks, DownloadHalts, coroutine
<1>7. CASE CoroutineStep(t)
  BY <1>1, <1>2, <1>3, <1>4, <1>7, InnerStep DEF CoroutineStep, Inner
<1> QED BY <1>1, <1>5, <1>6, <1>7 DEF TransferStep

\* A use case cannot come back to life under a command that took over from it.
LEMMA OwnershipTransfer ==
    ASSUME SystemTypeOK, OwnershipInv, NEW t \in Tasks, Transfer(t)
    PROVE  OwnershipInv'
<1>1. TypeOK /\ TransferStep(t) /\ UNCHANGED commandVars
  BY DEF SystemTypeOK, Transfer
<1>2. \A u \in Tasks : OwnTask(u)'
  BY <1>1, OwnTaskStep, ViewFrame DEF OwnershipInv, OwnTask, SameView
<1>3. \A u \in Tasks : /\ pc[u] \notin Detached => pc'[u] \notin Detached
                       /\ pc[u] \in Gone => pc'[u] \in Gone
  BY <1>1, ForwardStep, ViewFrame DEF Forward, SameView
<1> QED BY <1>1, <1>2, <1>3 DEF OwnershipInv, OwnTask, SystemTypeOK, CommandTypeOK,
                                commandVars

\* TakeOver: no guard and a downloader id mean that the use case is gone.
LEMMA OwnershipCommand ==
    ASSUME SystemTypeOK, OwnershipInv, NEW c \in Commands, Request(c) \/ CommandStep(c)
    PROVE  OwnershipInv'
<1> USE DEF SystemTypeOK, CommandTypeOK, OwnershipInv, transferVars, coroutine, table,
        active
<1>1. CASE Request(c)
  BY <1>1 DEF Request
<1>2. CASE Find(c)
  BY <1>2 DEF Find
<1>3. CASE Refuse(c) \/ Signal(c) \/ RemoveDownload(c) \/ CallBackend(c)
  BY <1>3 DEF Refuse, Signal, RemoveDownload, CallBackend
<1>4. CASE TakeOver(c)
  BY <1>4 DEF TakeOver, Unguarded, Detached
<1>5. CASE SaveCancelled(c)
  BY <1>5 DEF SaveCancelled, TypeOK
<1> QED BY <1>1, <1>2, <1>3, <1>4, <1>5 DEF CommandStep

\* A crash destroys guards, coroutines and commands together.
LEMMA OwnershipCrash ==
    ASSUME SystemTypeOK, OwnershipInv, Crash
    PROVE  OwnershipInv'
<1>1. \A t \in Tasks : /\ pc'[t] \in Unguarded
                       /\ pc[t] \notin Detached => pc'[t] \notin Detached
  BY DEF Crash, Unguarded, Detached, Gone
<1>2. registry' = {} /\ UNCHANGED <<bound, rowBound, cbound, ctask>>
      /\ \A c \in Commands : cpc'[c] # "remove"
  BY DEF Crash, table
<1> QED BY <1>1, <1>2 DEF OwnershipInv, SystemTypeOK, CommandTypeOK

-----------------------------------------------------------------------------
\* Every transfer step keeps RowInv.
LEMMA RowTransfer ==
    ASSUME SystemTypeOK, RowInv, NEW t \in Tasks, MemoryInv(t), Transfer(t)
    PROVE  RowInv'
<1>1. TypeOK /\ TransferStep(t) /\ UNCHANGED commandVars
  BY DEF SystemTypeOK, Transfer
<1>2. \A u \in Tasks : /\ pc'[u] = "idle" => rowState'[u] = "absent"
                       /\ rowState[u] # "absent" => rowState'[u] # "absent"
  <2>1. mem[t] # "absent"
    BY <1>1 DEF TypeOK, TaskStates
  <2>2. /\ pc'[t] = "idle" => rowState'[t] = "absent"
        /\ rowState[t] # "absent" => rowState'[t] # "absent"
    BY <1>1, <2>1, ForwardStep DEF Forward, RowInv
  <2>3. ASSUME NEW u \in Tasks, u # t
        PROVE  pc'[u] = pc[u] /\ rowState'[u] = rowState[u]
    BY <1>1, <2>3, ViewFrame DEF SameView
  <2> QED BY <2>2, <2>3 DEF RowInv
<1>3. ASSUME "save" \notin Faults,
             pc'[t] \in {"removeCompleted", "edit", "returned"}
      PROVE  rowState'[t] \in {"absent", mem'[t], "Cancelled"}
  <2> USE <1>3 DEF TypeOK, RowInv, SystemTypeOK, Goto
  <2>1. CASE Begin(t) \/ SaveQueued(t) \/ SaveQueuedFails(t) \/ Register(t)
    BY <2>1 DEF Begin, SaveQueued, SaveQueuedFails, Register, Transition, table
  <2>2. CASE Persist(t)
    BY <2>2 DEF Persist, SaveTask
  <2>3. CASE AddUriAccepted(t) \/ AddUriFails(t)
    BY <2>3 DEF AddUriAccepted, AddUriFails, Fail
  <2>4. CASE \/ RemoveCancelled(t) \/ RemoveFailed(t) \/ RemoveCompleted(t) \/ Return(t)
    BY <2>4 DEF RemoveCancelled, RemoveFailed, RemoveCompleted, Return, Fail, table
  <2>5. CASE CoroutineStep(t)
    BY <1>1, <2>1, <2>2, <2>3, <2>4, <2>5, InnerStep
       DEF CoroutineStep, Inner, Unguarded, Gone
  <2>6. ASSUME NEW f \in Files, UploadStep(t, f)
        PROVE  UNCHANGED <<pc, mem, rowState>>
    BY <2>6 DEF UploadStep, UploadSucceeds, UploadFails, UploadThrows, coroutine, table
  <2>7. CASE DownloadProgress(t) \/ DownloadBreaks(t) \/ DownloadHalts(t)
    BY <2>7 DEF DownloadProgress, DownloadListed, DownloadLands, DownloadFinishes,
                DownloadBreaks, DownloadHalts, coroutine, table
  <2> QED BY <1>1, <2>1, <2>5, <2>6, <2>7 DEF TransferStep
<1>4. ASSUME "save" \notin Faults, NEW u \in Tasks,
             pc'[u] \in {"removeCompleted", "edit", "returned"}
      PROVE  rowState'[u] \in {"absent", mem'[u], "Cancelled"}
  BY <1>1, <1>3, <1>4, ViewFrame DEF SameView, RowInv
<1> QED BY <1>1, <1>2, <1>4 DEF RowInv, SystemTypeOK, CommandTypeOK, commandVars

\* Every step of a command keeps RowInv: it only writes Cancelled, to a row that
\* exists.
LEMMA RowCommand ==
    ASSUME SystemTypeOK, RowInv, NEW c \in Commands, Request(c) \/ CommandStep(c)
    PROVE  RowInv'
<1> USE DEF SystemTypeOK, CommandTypeOK, RowInv, transferVars, coroutine, table,
        Holding
<1>1. CASE Request(c)
  BY <1>1 DEF Request
<1>2. CASE Find(c)
  BY <1>2 DEF Find, Accepts
<1>3. CASE Refuse(c) \/ Signal(c) \/ TakeOver(c) \/ RemoveDownload(c) \/ CallBackend(c)
  BY <1>3 DEF Refuse, Signal, TakeOver, RemoveDownload, CallBackend
<1>4. CASE SaveCancelled(c)
  <2>1. /\ \/ UNCHANGED rowState
           \/ rowState' = [rowState EXCEPT ![ctask[c]] = "Cancelled"]
        /\ UNCHANGED <<pc, mem, cstate, ctask>>
        /\ cpc' = [cpc EXCEPT ![c] = "find"]
    BY <1>4 DEF SaveCancelled, MarkCancelled
  <2>2. ctask[c] \in Tasks /\ pc[ctask[c]] # "idle" /\ cpc[c] = "save"
    BY <1>4 DEF SaveCancelled
  <2>3. \A t \in Tasks : \/ rowState'[t] = rowState[t]
                         \/ t = ctask[c] /\ rowState'[t] = "Cancelled"
    BY <2>1 DEF TypeOK
  <2>4. \A t \in Tasks : pc'[t] = "idle" => rowState'[t] = "absent"
    BY <2>1, <2>2, <2>3
  <2>5. \A d \in Commands : cpc'[d] \in Holding => rowState'[ctask'[d]] # "absent"
    BY <2>1, <2>3
  <2>6. "save" \notin Faults =>
          \A t \in Tasks : pc'[t] \in {"removeCompleted", "edit", "returned"}
              => rowState'[t] \in {"absent", mem'[t], "Cancelled"}
    BY <2>1, <2>3
  <2> QED BY <2>1, <2>4, <2>5, <2>6
<1> QED BY <1>1, <1>2, <1>3, <1>4 DEF CommandStep

\* A crash keeps RowInv.
LEMMA RowCrash ==
    ASSUME SystemTypeOK, RowInv, Crash
    PROVE  RowInv'
  BY DEF SystemTypeOK, CommandTypeOK, RowInv, Crash, table, Holding, Gone

-----------------------------------------------------------------------------
\* The states of a task in which its download must have been released.
Released(t) ==
    \/ rowState[t] = "Cancelled" /\ rowBound[t]
    \/ mem[t] = "Cancelled"
    \/ pc[t] \in {"edit", "returned"} /\ mem[t] = "Completed"

\* A transfer step enters such a state only by a remove call, and leaves it
\* before it could start a download.
LEMMA ReleaseTask ==
    ASSUME TypeOK, NEW t \in Tasks, MemoryInv(t), OwnTask(t),
           "remove" \notin Faults, TransferStep(t),
           Released(t) => dl[t] \notin Running
    PROVE  Released(t)' => dl'[t] \notin Running
<1>1. Forward(t)
  BY ForwardStep
<1>2. CASE pc[t] = "addUri"
  <2>1. ~rowBound[t] /\ mem[t] = "Downloading"
    BY <1>2 DEF OwnTask, Detached, MemoryInv
  <2>2. CASE AddUriAccepted(t) \/ AddUriFails(t)
    <3>1. ~Released(t)'
      BY <2>1, <2>2 DEF TypeOK, AddUriAccepted, AddUriFails, Fail, Goto, MarkFailed,
                        TerminalStates, Released, table
    <3> QED BY <3>1
  <2>3. CASE UNCHANGED <<pc, mem, table>>
    BY <1>2, <2>1, <2>3 DEF Released, table
  <2>4. ASSUME NEW f \in Files, UploadStep(t, f) PROVE UNCHANGED <<pc, mem, table>>
    BY <2>4 DEF UploadStep, UploadSucceeds, UploadFails, UploadThrows, coroutine
  <2>5. DownloadProgress(t) \/ DownloadBreaks(t) \/ DownloadHalts(t) => UNCHANGED <<pc, mem, table>>
    BY DEF DownloadProgress, DownloadListed, DownloadLands, DownloadFinishes,
           DownloadBreaks, DownloadHalts, coroutine
  <2>6. ~Begin(t)
    BY <1>2 DEF Begin
  <2>7. CoroutineStep(t) => AddUriAccepted(t) \/ AddUriFails(t)
    <3>1. CoroutineStep(t) => \/ AddUriAccepted(t) \/ AddUriFails(t)
                              \/ pc[t] \in Inner \union PersistPoints
                                           \union {"saveQueued", "register", "edit"}
      BY InnerStep DEF CoroutineStep, SaveQueued, SaveQueuedFails, Register, Persist,
         RemoveCancelled, RemoveFailed, RemoveCompleted, Return, Inner, Locations,
         Unguarded, Detached, Gone
    <3> QED BY <1>2, <3>1 DEF Inner, Detached, PersistPoints
  <2> QED BY <2>2, <2>3, <2>4, <2>5, <2>6, <2>7 DEF TransferStep
<1>3. CASE pc[t] # "addUri"
  <2> SUFFICES ASSUME dl[t] \in Running, ~Released(t), Released(t)'
               PROVE  dl'[t] \notin Running
    BY <1>1, <1>3 DEF Forward
  <2> USE DEF TypeOK, Goto, Released, MemoryInv
  <2>1. CASE \/ Begin(t) \/ SaveQueued(t) \/ SaveQueuedFails(t) \/ Register(t)
    BY <2>1 DEF Begin, SaveQueued, SaveQueuedFails, SaveTask, Register, Transition,
                StartDownload, table
  <2>2. CASE Persist(t)
    <3>1. mem' = mem /\ mem[t] # "Cancelled"
      BY <2>2 DEF Persist
    <3>2. rowState'[t] \in {rowState[t], mem[t]}
      BY <1>1 DEF Forward
    <3>3. pc'[t] \in {"edit", "returned"} => mem[t] # "Completed"
      BY <2>2 DEF Persist, AfterPersist, PersistPoints
    <3>4. rowState'[t] # rowState[t] \/ rowBound'[t] = rowBound[t]
          \/ rowState'[t] = mem[t]
      BY <2>2 DEF Persist, SaveTask, table
    <3> QED BY <3>1, <3>2, <3>3, <3>4
  <2>3. CASE RemoveCancelled(t) \/ RemoveFailed(t) \/ RemoveCompleted(t)
    BY <2>3, RemoveReleases DEF RemoveCancelled, RemoveFailed, RemoveCompleted
  <2>4. CASE Return(t)
    BY <2>4 DEF Return, table
  <2>5. CASE CoroutineStep(t)
    <3>1. CASE AddUriAccepted(t) \/ AddUriFails(t)
      BY <1>3, <3>1 DEF AddUriAccepted, AddUriFails
    <3>2. CASE /\ pc[t] \in Inner /\ pc'[t] \in Inner /\ UNCHANGED table
               /\ mem'[t] = "Cancelled" => mem[t] = "Cancelled"
      BY <3>2 DEF Inner, Unguarded, Gone, table
    <3> QED BY <2>1, <2>2, <2>3, <2>4, <2>5, <3>1, <3>2, InnerStep DEF CoroutineStep
  <2>6. ASSUME NEW f \in Files, UploadStep(t, f) PROVE UNCHANGED <<pc, mem, table>>
    BY <2>6 DEF UploadStep, UploadSucceeds, UploadFails, UploadThrows, coroutine
  <2>7. DownloadProgress(t) \/ DownloadBreaks(t) \/ DownloadHalts(t) => UNCHANGED <<pc, mem, table>>
    BY DEF DownloadProgress, DownloadListed, DownloadLands, DownloadFinishes,
           DownloadBreaks, DownloadHalts, coroutine
  <2>8. CASE UNCHANGED <<pc, mem, table>>
    BY <2>8 DEF table
  <2> QED BY <2>1, <2>5, <2>6, <2>7, <2>8 DEF TransferStep
<1> QED BY <1>2, <1>3

\* Every transfer step keeps ReleaseInv.
LEMMA ReleaseTransfer ==
    ASSUME SystemTypeOK, OwnershipInv, ReleaseInv, NEW t \in Tasks, MemoryInv(t),
           Transfer(t)
    PROVE  ReleaseInv'
<1> SUFFICES ASSUME "remove" \notin Faults
             PROVE  /\ \A u \in Tasks : Released(u)' => dl'[u] \notin Running
                    /\ \A c \in Commands :
                          cpc'[c] = "save" /\ cbound'[c] => dl'[ctask'[c]] \notin Running
  BY DEF ReleaseInv, Released
<1>1. TypeOK /\ TransferStep(t) /\ UNCHANGED commandVars
  BY DEF SystemTypeOK, Transfer
<1>2. \A u \in Tasks : Released(u) => dl[u] \notin Running
  BY DEF ReleaseInv, Released
<1>3. Released(t)' => dl'[t] \notin Running
  BY <1>1, <1>2, ReleaseTask DEF OwnershipInv, OwnTask
<1>4. ASSUME NEW u \in Tasks, u # t PROVE SameView(u)
  BY <1>1, <1>4, ViewFrame
<1>5. \A u \in Tasks : Released(u)' => dl'[u] \notin Running
  BY <1>2, <1>3, <1>4 DEF Released, SameView
<1>6. ASSUME NEW u \in Tasks, dl[u] \notin Running, pc[u] \notin Detached
      PROVE  dl'[u] \notin Running
  BY <1>1, <1>4, <1>6, ForwardStep DEF Forward, SameView, Detached
<1>7. ASSUME NEW c \in Commands, cpc'[c] = "save", cbound'[c]
      PROVE  dl'[ctask'[c]] \notin Running
  <2>1. cpc[c] = "save" /\ cbound[c] /\ ctask'[c] = ctask[c] /\ ctask[c] \in Tasks
    BY <1>1, <1>7 DEF commandVars, SystemTypeOK, CommandTypeOK
  <2>2. dl[ctask[c]] \notin Running /\ pc[ctask[c]] \notin Detached
    BY <2>1 DEF ReleaseInv, OwnershipInv
  <2> QED BY <1>6, <2>1, <2>2
<1> QED BY <1>5, <1>7

\* A command writes a bound Cancelled row only after its own remove call, and
\* /pause and /resume start no download that had ended.
LEMMA ReleaseCommand ==
    ASSUME SystemTypeOK, OwnershipInv, ReleaseInv, NEW c \in Commands,
           Request(c) \/ CommandStep(c)
    PROVE  ReleaseInv'
<1> SUFFICES ASSUME "remove" \notin Faults
             PROVE  /\ \A u \in Tasks : Released(u)' => dl'[u] \notin Running
                    /\ \A d \in Commands :
                          cpc'[d] = "save" /\ cbound'[d] => dl'[ctask'[d]] \notin Running
  BY DEF ReleaseInv, Released
<1> USE DEF SystemTypeOK, CommandTypeOK
<1>1. /\ \A u \in Tasks : Released(u) => dl[u] \notin Running
      /\ \A d \in Commands : cpc[d] = "save" /\ cbound[d] => dl[ctask[d]] \notin Running
  BY DEF ReleaseInv, Released
<1>2. CASE Request(c) \/ Find(c) \/ Refuse(c) \/ Signal(c) \/ TakeOver(c)
  <2>1. /\ UNCHANGED <<pc, mem, rowState, rowBound, dl>>
        /\ \A d \in Commands : cpc'[d] = "save" /\ cbound'[d] =>
              cpc[d] = "save" /\ cbound[d] /\ ctask'[d] = ctask[d]
    BY <1>2 DEF Request, Find, Refuse, Signal, TakeOver, transferVars, coroutine,
                table, backend
  <2> QED BY <1>1, <2>1 DEF Released
<1>3. CASE RemoveDownload(c)
  <2>1. /\ BackendRemove(ctask[c], TRUE) /\ ctask[c] \in Tasks
        /\ UNCHANGED <<pc, mem, rowState, rowBound, cbound, ctask>>
        /\ \A d \in Commands : d # c => cpc'[d] = cpc[d]
    BY <1>3 DEF RemoveDownload, coroutine, table
  <2>2. /\ dl'[ctask[c]] \notin Running
        /\ \A u \in Tasks : dl[u] \notin Running => dl'[u] \notin Running
    BY <2>1, RemoveReleases
  <2> QED BY <1>1, <2>1, <2>2 DEF Released
<1>4. CASE SaveCancelled(c)
  <2>1. /\ UNCHANGED <<pc, mem, dl, cbound, ctask>>
        /\ \A d \in Commands : cpc'[d] = "save" => cpc[d] = "save"
        /\ cpc[c] = "save" /\ ctask[c] \in Tasks
    BY <1>4 DEF SaveCancelled, coroutine, backend
  <2>2. \A u \in Tasks : \/ rowState'[u] = rowState[u] /\ rowBound'[u] = rowBound[u]
                         \/ u = ctask[c] /\ rowBound'[u] = cbound[c]
    BY <1>4, <2>1 DEF SaveCancelled, TypeOK, table
  <2> QED BY <1>1, <2>1, <2>2 DEF Released
<1>5. CASE CallBackend(c)
  <2>1. /\ UNCHANGED <<pc, mem, rowState, rowBound, cbound, ctask>>
        /\ \A d \in Commands : cpc'[d] = "save" => cpc[d] = "save"
    BY <1>5 DEF CallBackend, coroutine, table
  <2>2. \A u \in Tasks : dl[u] \notin Running => dl'[u] \notin Running
    BY <1>5 DEF CallBackend, Paused, Resumed, TypeOK, Running
  <2> QED BY <1>1, <2>1, <2>2 DEF Released
<1> QED BY <1>2, <1>3, <1>4, <1>5 DEF CommandStep

\* A crash keeps ReleaseInv: the backend and the rows survive it unchanged.
LEMMA ReleaseCrash ==
    ASSUME SystemTypeOK, ReleaseInv, Crash
    PROVE  ReleaseInv'
<1>1. /\ UNCHANGED <<mem, rowState, rowBound, dl>>
      /\ \A t \in Tasks : pc'[t] \in {"edit", "returned"} => pc'[t] = pc[t]
      /\ \A c \in Commands : cpc'[c] # "save"
  BY DEF Crash, table, backend, Gone
<1> QED BY <1>1 DEF ReleaseInv

-----------------------------------------------------------------------------
\* What a step of a command does to the parts ChatInv speaks of.
LEMMA CommandEffect ==
    ASSUME SystemTypeOK, NEW c \in Commands, CommandStep(c)
    PROVE  /\ UNCHANGED <<cop, cchat>> /\ cpc[c] # "idle" /\ cpc'[c] # "idle"
           /\ \A d \in Commands : d # c => cpc'[d] = cpc[d] /\ ctask'[d] = ctask[d]
           /\ cpc'[c] \in {"signal", "remove", "save"} =>
                \/ Find(c)
                \/ cpc[c] \in {"signal", "remove"} /\ ctask'[c] = ctask[c]
                \/ Refuse(c)
           /\ \A t \in Tasks : \/ flag'[t] = flag[t] /\ told'[t] = told[t]
                               \/ cpc[c] \in {"signal", "save"} /\ t = ctask[c]
<1> USE DEF SystemTypeOK, CommandTypeOK, TypeOK, transferVars, active
<1>1. CASE Find(c)
  BY <1>1 DEF Find
<1>2. CASE Refuse(c)
  BY <1>2 DEF Refuse
<1>3. CASE Signal(c)
  BY <1>3 DEF Signal
<1>4. CASE TakeOver(c)
  BY <1>4 DEF TakeOver
<1>5. CASE RemoveDownload(c)
  BY <1>5 DEF RemoveDownload
<1>6. CASE SaveCancelled(c)
  BY <1>6 DEF SaveCancelled
<1>7. CASE CallBackend(c)
  BY <1>7 DEF CallBackend
<1> QED BY <1>1, <1>2, <1>3, <1>4, <1>5, <1>6, <1>7 DEF CommandStep

\* Nothing but a command of the right chat raises a flag or sends a reply.
LEMMA ChatNext ==
    ASSUME SystemTypeOK, ChatInv, [Next]_vars
    PROVE  ChatInv'
<1> USE DEF SystemTypeOK, CommandTypeOK, ChatInv, ChatIsolation
<1>1. CASE UNCHANGED vars
  BY <1>1 DEF vars, transferVars, active, commandVars
<1>2. ASSUME NEW t \in Tasks, Transfer(t) PROVE ChatInv'
  <2>1. flag' = flag /\ UNCHANGED <<commandVars, told>>
    BY <1>2, ForwardStep DEF Transfer, Forward
  <2> QED BY <2>1 DEF commandVars
<1>3. ASSUME NEW c \in Commands, Request(c) PROVE ChatInv'
  <2>1. /\ UNCHANGED <<flag, told, ctask>> /\ cpc[c] = "idle" /\ cpc'[c] = "find"
        /\ \A d \in Commands : d # c => /\ cpc'[d] = cpc[d] /\ cop'[d] = cop[d]
                                        /\ cchat'[d] = cchat[d]
    BY <1>3 DEF Request, transferVars, active
  <2> QED BY <2>1
<1>4. ASSUME NEW c \in Commands, CommandStep(c) PROVE ChatInv'
  <2>1. CASE Find(c) \/ Refuse(c)
    <3>1. UNCHANGED <<cop, cchat, flag, told>> /\ cpc[c] = "find" /\ cpc'[c] # "idle"
          /\ \A d \in Commands : d # c => cpc'[d] = cpc[d] /\ ctask'[d] = ctask[d]
      BY <2>1, <1>4, CommandEffect DEF Find, Refuse, transferVars, active
    <3>2. cpc'[c] \in {"signal", "remove", "save"} =>
            cop[c] \in {"cancel", "cancel_all"} /\ cchat[c] = ChatOf[ctask'[c]]
      BY <2>1 DEF Find, Accepts, Refuse, CommandKinds
    <3> QED BY <3>1, <3>2
  <2>2. CASE ~(Find(c) \/ Refuse(c))
    BY <1>4, <2>2, CommandEffect
  <2> QED BY <2>1, <2>2
<1>5. CASE Crash
  BY <1>5 DEF Crash
<1> QED BY <1>1, <1>2, <1>3, <1>4, <1>5 DEF Next, Quiescent

-----------------------------------------------------------------------------
\* CommandInv holds initially,
LEMMA CommandInvInit == Init => CommandInv
  BY DEF Init, TransferInit, CommandInit, CommandInv, OwnershipInv, RowInv, ReleaseInv,
         ChatInv, ChatIsolation, Unguarded, Detached, Holding, TerminalStates, Running

\* and every step of the system keeps it.
LEMMA CommandInvNext ==
    SystemTypeOK /\ TransferInv /\ CommandInv /\ [Next]_vars => CommandInv'
<1> SUFFICES ASSUME SystemTypeOK, TransferInv, CommandInv, [Next]_vars
             PROVE  CommandInv'
  OBVIOUS
<1>1. ChatInv'
  BY ChatNext DEF CommandInv
<1>2. (OwnershipInv /\ RowInv /\ ReleaseInv)'
  <2>1. CASE UNCHANGED vars
    BY <2>1 DEF vars, transferVars, coroutine, table, active, backend, commandVars,
                CommandInv, OwnershipInv, RowInv, ReleaseInv
  <2>2. ASSUME NEW t \in Tasks, Transfer(t)
        PROVE  (OwnershipInv /\ RowInv /\ ReleaseInv)'
    BY <2>2, OwnershipTransfer, RowTransfer, ReleaseTransfer DEF CommandInv, TransferInv
  <2>3. ASSUME NEW c \in Commands, Request(c) \/ CommandStep(c)
        PROVE  (OwnershipInv /\ RowInv /\ ReleaseInv)'
    BY <2>3, OwnershipCommand, RowCommand, ReleaseCommand DEF CommandInv
  <2>4. CASE Crash
    BY <2>4, OwnershipCrash, RowCrash, ReleaseCrash DEF CommandInv
  <2> QED BY <2>1, <2>2, <2>3, <2>4 DEF Next, Quiescent
<1> QED BY <1>1, <1>2 DEF CommandInv

\* CommandInv holds in every reachable state.
THEOREM CommandInvariance == Spec => []CommandInv
<1>1. SystemTypeOK /\ TransferInv /\ CommandInv /\ [Next]_vars => CommandInv'
  BY CommandInvNext
<1> QED BY <1>1, CommandInvInit, Invariance, PTL DEF Spec

\* CancelTask calls remove(gid, true) only for a use case that is gone.
THEOREM TeardownOwnershipHolds == Spec => []TeardownOwnership
<1>1. CommandInv => TeardownOwnership
  BY DEF CommandInv, OwnershipInv, TeardownOwnership
<1> QED BY <1>1, CommandInvariance, PTL

\* A use case that returned left its verdict in the row, or a command cancelled
\* the row.
THEOREM RowAgreesHolds == Spec => []RowAgrees
<1>1. CommandInv => RowAgrees
  BY DEF CommandInv, RowInv, RowAgrees
<1> QED BY <1>1, CommandInvariance, PTL

\* A bound Cancelled row, or a completed use case that returned, means that the
\* backend no longer works on the download.
THEOREM BackendReleasedHolds == Spec => []BackendReleased
<1>1. CommandInv => BackendReleased
  BY DEF CommandInv, ReleaseInv, BackendReleased
<1> QED BY <1>1, CommandInvariance, PTL

\* A task is signalled or stopped only by cancel commands of its own chat.
THEOREM ChatIsolationHolds == Spec => []ChatIsolation
<1>1. CommandInv => ChatIsolation
  BY DEF CommandInv, ChatInv
<1> QED BY <1>1, CommandInvariance, PTL
==============================================================================
