------------------------ MODULE TaskDispatcherProofs ------------------------
(***************************************************************************)
(* Theorems about TaskDispatcher, for every value of its constants.        *)
(***************************************************************************)
EXTENDS TaskDispatcher, TLAPS

(* Every queued task, and the running one, is found in tasks_ under its own *)
(* op_id, and tasks_ holds nothing else.                                    *)
Registry ==
    /\ \A i \in 1..Len(task_queue) :
          /\ op_id[task_queue[i]] \in OpIds
          /\ tasks[op_id[task_queue[i]]] = task_queue[i]
    /\ current_task # 0 =>
          /\ op_id[current_task] \in OpIds
          /\ tasks[op_id[current_task]] = current_task
    /\ \A o \in OpIds : tasks[o] # 0 =>
          /\ op_id[tasks[o]] = o
          /\ tasks[o] <= admitted
          /\ tasks[o] = current_task
                \/ \E i \in 1..Len(task_queue) : task_queue[i] = tasks[o]

(* The worker is inside RunTask exactly while it has a current task.        *)
WorkerTask == worker \in TaskPCs \cup {"finish"} <=> current_task # 0

(* What the reader knows between the critical sections of a handler.        *)
ReaderState ==
    /\ reader = "validate" =>
          /\ start_op \in OpIds
          /\ tasks[start_op] = 0
          /\ SpecKind(start_spec) \in Kinds
          /\ admitted < MaxTasks
    /\ reader = "ack" => admitted > 0
    /\ reader \in {"idle", "validate", "ack"} => reader_errors = NoErrors
    /\ reader = "cancelled" =>
          \E t \in Tasks : reader_errors = [NoErrors EXCEPT ![t] = 1]

(* The final messages of t that are owed or sent.                           *)
Final(t) == reader_errors[t] + auth_errors[t] + eofs[t] + errors[t]

(* A pending task has none, a task that was taken out has one; only an      *)
(* immediate shutdown gives it more.                                        *)
AccountedFor(t) ==
    /\ t > admitted => Final(t) = 0
    /\ Pending(t) => Final(t) = 0
    /\ t <= admitted /\ ~Pending(t) => Final(t) >= 1
    /\ t <= admitted /\ ~Pending(t) /\ FALSE \notin ShutdownDrains => Final(t) = 1

Accounted == \A t \in Tasks : AccountedFor(t)

Inv ==
    /\ TypeOK
    /\ WorkerTask
    /\ ReaderState
    /\ Registry
    /\ RunsInOrder
    /\ AuthorisedWork
    /\ Accounted

----------------------------------------------------------------------------
USE DispatcherAssumption

(* What the helper on sequences returns.                                    *)
LEMMA EraseAtType ==
    ASSUME NEW q \in Seq(Tasks), NEW i \in 1..Len(q)
    PROVE  /\ EraseAt(q, i) \in Seq(Tasks)
           /\ Len(EraseAt(q, i)) = Len(q) - 1
           /\ \A j \in 1..(Len(q) - 1) :
                 EraseAt(q, i)[j] = IF j < i THEN q[j] ELSE q[j + 1]
<1> DEFINE e == EraseAt(q, i)
<1>1. Len(q) \in Nat /\ Len(q) - 1 \in Nat
  OBVIOUS
<1>2. \A j \in 1..(Len(q) - 1) : e[j] \in Tasks
  BY <1>1 DEF EraseAt
<1>3. e \in [1..(Len(q) - 1) -> Tasks]
  BY <1>2 DEF EraseAt
<1>4. e \in Seq(Tasks) /\ Len(e) = Len(q) - 1
  BY <1>1, <1>3
<1> QED
  BY <1>4 DEF EraseAt

(* Tasks are positive numbers, so that 0 is free for the null pointer.      *)
LEMMA TaskNumbers ==
    /\ 0 \notin Tasks
    /\ \A t \in Tasks : t \in Nat /\ t # 0
  BY DEF Tasks

(* What TypeOK says of the pieces that hold task numbers, without           *)
(* expanding Tasks.                                                         *)
LEMMA TypeFacts ==
    ASSUME TypeOK
    PROVE  /\ Len(task_queue) \in Nat
           /\ \A i \in 1..Len(task_queue) : task_queue[i] \in Tasks /\ task_queue[i] \in Nat
           /\ current_task \in Nat
           /\ \A o \in OpIds : tasks[o] \in Tasks \cup {0} /\ tasks[o] \in Nat
           /\ admitted \in Nat
<1>1. \A i \in 1..Len(task_queue) : task_queue[i] \in Tasks
  BY DEF TypeOK
<1>2. Len(task_queue) \in Nat /\ admitted \in Nat
  BY DEF TypeOK
<1> QED
  BY <1>1, <1>2, TaskNumbers DEF TypeOK

(* An update of the toggles empties the queue: the restricted toggles allow *)
(* nothing, and before the requested ones come back nothing was queued.     *)
LEMMA AllowedPartCases ==
    ASSUME TypeOK, AuthorisedWork, NEW toggles \in {RequestedFeatures, RestrictedFeatures},
           toggles # active_features
    PROVE  /\ AllowedPart(task_queue, toggles) = <<>>
           /\ \A i \in 1..Len(task_queue) : ~IsTaskAllowed(toggles, kind[task_queue[i]])
<1> USE DEF IsTaskAllowed
<1>1. CASE toggles = RestrictedFeatures
  <2>1. \A k : ~IsTaskAllowed(RestrictedFeatures, k)
    BY DEF RestrictedFeatures
  <2>2. CASE Len(task_queue) = 0
    BY <1>1, <2>1, <2>2 DEF AllowedPart, TypeOK
  <2>3. CASE Len(task_queue) # 0
    <3>1. 1 \in 1..Len(task_queue)
      BY <2>3 DEF TypeOK
    <3>2. ~IsTaskAllowed(toggles, kind[task_queue[1]])
      BY <1>1, <2>1
    <3> HIDE DEF IsTaskAllowed
    <3> QED
      BY <1>1, <2>1, <3>1, <3>2 DEF AllowedPart
  <2> QED
    BY <2>2, <2>3, <2>1, <1>1
<1>2. CASE toggles = RequestedFeatures /\ active_features = RestrictedFeatures
  <2>1. Len(task_queue) = 0
    BY <1>2 DEF TypeOK, AuthorisedWork, RestrictedFeatures
  <2> QED
    BY <2>1 DEF AllowedPart, TypeOK
<1> QED
  BY <1>1, <1>2 DEF TypeOK

(* tasks_ keeps its type when entries are erased.                           *)
LEMMA UnregisterType ==
    ASSUME TypeOK, NEW S
    PROVE  Unregister(S) \in [OpIds -> Tasks \cup {0}]
  BY DEF TypeOK, Unregister

(* What a step of a running task can be.                                    *)
TaskStep ==
    \/ LogFilter \/ LogChunk \/ LogEof
    \/ PcapStopped \/ PcapFailed \/ PcapCaptured \/ PcapCheck \/ PcapChunk \/ PcapEof
    \/ ExecCollect \/ ExecChunk \/ ExecEof

(* A step of a task sends at most one message and otherwise only moves the  *)
(* worker on.                                                               *)
LEMMA TaskStepCases ==
    ASSUME TypeOK, WorkerTask, TaskStep
    PROVE  /\ worker \in TaskPCs
           /\ current_task \in Tasks
           /\ \/ SendEof
              \/ SendError
              \/ \E pc \in TaskPCs : WorkerGoto(pc) \/ SendData(pc)
<1>1. worker \in TaskPCs
  BY DEF TaskStep, TaskPCs, LogFilter, LogChunk, LogEof, PcapStopped, PcapFailed,
         PcapCaptured, PcapCheck, PcapChunk, PcapEof, ExecCollect, ExecChunk, ExecEof
<1>2. current_task \in Tasks
  BY <1>1 DEF TypeOK, WorkerTask
<1>3. \/ SendEof
      \/ SendError
      \/ \E pc \in TaskPCs : WorkerGoto(pc) \/ SendData(pc)
  BY Zenon DEF TaskStep, TaskPCs, LogFilter, LogChunk, LogEof, PcapStopped, PcapFailed,
         PcapCaptured, PcapCheck, PcapChunk, PcapEof, ExecCollect, ExecChunk, ExecEof
<1> QED
  BY <1>1, <1>2, <1>3

(* What the worker does between two tasks, waiting included.                *)
IdleWorkerStep ==
    WorkerTop \/ WorkerBlock \/ WorkerSleep \/ WorkerExit \/ SpuriousWakeup

IdlePCs == {"top", "evaluate", "blocking", "waiting", "exited"}

(* The steps of the worker between two tasks.                               *)
LEMMA IdleWorkerStepCases ==
    ASSUME IdleWorkerStep
    PROVE  /\ worker \in IdlePCs
           /\ \E pc \in IdlePCs : WorkerGoto(pc)
  BY DEF IdleWorkerStep, IdlePCs, WorkerTop, WorkerBlock, WorkerSleep, WorkerExit,
         SpuriousWakeup

(* Every step keeps the types.                                              *)
LEMMA TypeStep ==
    ASSUME TypeOK, WorkerTask, ReaderState, AuthorisedWork, [Next]_vars
    PROVE  TypeOK'
<1> USE DEF TypeOK, lifeVars, taskVars, sentVars, readerVars
<1>1. ASSUME NEW op \in OpIds, NEW spec \in StartSpecs, HandleStartOp(op, spec)
      PROVE  TypeOK'
  BY <1>1 DEF HandleStartOp, ReaderPCs
<1>2. ASSUME NEW op \in OpIds \cup {0}, NEW spec \in StartSpecs, RejectStartOp(op, spec)
      PROVE  TypeOK'
  BY <1>2 DEF RejectStartOp, vars
<1>3. ASSUME NEW op \in OpIds, CancelCurrent(op)
      PROVE  TypeOK'
  BY <1>3 DEF CancelCurrent
<1>4. ASSUME NEW op \in OpIds, CancelQueued(op)
      PROVE  TypeOK'
  <2>1. task_queue' \in Seq(Tasks)
    BY <1>4, EraseAtType DEF CancelQueued
  <2>2. tasks[op] \in Tasks
    BY <1>4 DEF CancelQueued
  <2>3. reader_errors' \in [Tasks -> Nat] /\ tasks' \in [OpIds -> Tasks \cup {0}]
    BY <1>4, <2>2 DEF CancelQueued
  <2> QED
    BY <1>4, <2>1, <2>3 DEF CancelQueued, ReaderPCs
<1>5. ASSUME NEW op \in OpIds, CancelIgnored(op)
      PROVE  TypeOK'
  BY <1>5 DEF CancelIgnored, vars
<1>6. CASE HandleShutdownDrain
  BY <1>6 DEF HandleShutdownDrain, Shutdown
<1>7. CASE HandleShutdownNow
  <2>1. reader_errors' \in [Tasks -> Nat]
    BY <1>7 DEF HandleShutdownNow, ShutdownErrors
  <2>2. cancel_requested' \in [Tasks -> BOOLEAN]
    BY <1>7 DEF HandleShutdownNow
  <2>3. tasks' \in [OpIds -> Tasks \cup {0}]
    BY <1>7, UnregisterType DEF HandleShutdownNow
  <2>4. task_queue' \in Seq(Tasks)
    BY <1>7 DEF HandleShutdownNow
  <2>5. drain_mode' \in BOOLEAN
    BY <1>7 DEF HandleShutdownNow, Shutdown
  <2> QED
    BY <1>7, <2>1, <2>2, <2>3, <2>4, <2>5 DEF HandleShutdownNow, ReaderPCs
<1>8. CASE LateRejectStartOp
  BY <1>8 DEF LateRejectStartOp, EndStartOp, ReaderPCs, StartSpecs
<1>9. CASE EnqueueTask
  <2>1. admitted' \in 0..MaxTasks /\ admitted' \in Tasks
    BY <1>9 DEF EnqueueTask, ReaderState, Tasks
  <2>2. op_id' \in [Tasks -> OpIds \cup {0}] /\ tasks' \in [OpIds -> Tasks \cup {0}]
    BY <1>9, <2>1 DEF EnqueueTask
  <2>3. kind' \in [Tasks -> Kinds]
    BY <1>9, <2>1 DEF EnqueueTask, ReaderState
  <2>4. task_queue' \in Seq(Tasks)
    BY <1>9, <2>1 DEF EnqueueTask
  <2> QED
    BY <1>9, <2>1, <2>2, <2>3, <2>4 DEF EnqueueTask, ReaderPCs
<1>10. CASE AckStartOp
  BY <1>10 DEF AckStartOp, EndStartOp, Notified, ReaderPCs, WorkerPCs, StartSpecs
<1>11. CASE SendCancelled
  <2>1. errors' \in [Tasks -> Nat] /\ reader_errors' \in [Tasks -> Nat]
    BY <1>11 DEF SendCancelled, NoErrors
  <2>2. cancel_requested' \in [Tasks -> BOOLEAN]
    BY <1>11 DEF SendCancelled
  <2> QED
    BY <1>11, <2>1, <2>2 DEF SendCancelled, ReaderPCs
<1>12. ASSUME NEW t \in Tasks, SendShutdownError(t)
       PROVE  TypeOK'
  BY <1>12 DEF SendShutdownError
<1>13. CASE FinishShutdown
  BY <1>13 DEF FinishShutdown, Notified, ReaderPCs, WorkerPCs
<1>14. ASSUME NEW toggles \in {RequestedFeatures, RestrictedFeatures},
              ApplyFeatureUpdate(toggles)
       PROVE  TypeOK'
  <2>1. task_queue' \in Seq(Tasks)
    <3>1. task_queue' = AllowedPart(task_queue, toggles) /\ toggles # active_features
      BY <1>14 DEF ApplyFeatureUpdate
    <3>2. task_queue' = <<>>
      BY <3>1, AllowedPartCases
    <3> QED
      BY <3>2
  <2>2. auth_errors' \in [Tasks -> Nat]
    BY <1>14 DEF ApplyFeatureUpdate
  <2>3. cancel_requested' \in [Tasks -> BOOLEAN]
    BY <1>14 DEF ApplyFeatureUpdate
  <2>4. tasks' \in [OpIds -> Tasks \cup {0}]
    BY <1>14, UnregisterType DEF ApplyFeatureUpdate
  <2>5. worker' \in WorkerPCs
    BY <1>14 DEF ApplyFeatureUpdate, Notified, WorkerPCs
  <2> QED
    BY <1>14, <2>1, <2>2, <2>3, <2>4, <2>5 DEF ApplyFeatureUpdate
<1>15. ASSUME NEW t \in Tasks, SendUnauthorized(t)
       PROVE  TypeOK'
  <2>1. auth_errors' \in [Tasks -> Nat] /\ errors' \in [Tasks -> Nat]
    BY <1>15 DEF SendUnauthorized
  <2> QED
    BY <1>15, <2>1 DEF SendUnauthorized
<1>16. CASE IdleWorkerStep
  BY <1>16, IdleWorkerStepCases DEF WorkerGoto, IdlePCs, WorkerPCs
<1>17. CASE StartTask
  <2>1. task_queue # <<>> /\ Head(task_queue) \in Tasks /\ Tail(task_queue) \in Seq(Tasks)
    BY <1>17 DEF StartTask
  <2>2. worker' \in WorkerPCs
    BY <1>17, <2>1 DEF StartTask, FirstStep, WorkerPCs, TaskPCs, Kinds
  <2> QED
    BY <1>17, <2>1, <2>2 DEF StartTask
<1>18. CASE FinishTask
  <2>1. running' \in BOOLEAN
    BY <1>18 DEF FinishTask
  <2>2. tasks' \in [OpIds -> Tasks \cup {0}]
    BY <1>18 DEF FinishTask
  <2> QED
    BY <1>18, <2>1, <2>2 DEF FinishTask, WorkerPCs
<1>19. CASE TaskStep
  <2>1. current_task \in Tasks
    BY <1>19, TaskStepCases
  <2>2. CASE SendEof
    <3>1. eofs' \in [Tasks -> Nat]
      BY <2>1, <2>2 DEF SendEof
    <3> QED
      BY <2>2, <3>1 DEF SendEof, TaskUnchanged, WorkerPCs
  <2>3. CASE SendError
    <3>1. errors' \in [Tasks -> Nat]
      BY <2>1, <2>3 DEF SendError
    <3> QED
      BY <2>3, <3>1 DEF SendError, TaskUnchanged, WorkerPCs
  <2>4. ASSUME NEW pc \in TaskPCs, WorkerGoto(pc)
        PROVE  TypeOK'
    BY <2>4 DEF WorkerGoto, WorkerPCs
  <2>5. ASSUME NEW pc \in TaskPCs, SendData(pc)
        PROVE  TypeOK'
    <3>1. data' \in [Tasks -> Nat]
      BY <2>1, <2>5 DEF SendData
    <3> QED
      BY <2>5, <3>1 DEF SendData, TaskUnchanged, WorkerPCs
  <2> QED
    BY <1>19, <2>2, <2>3, <2>4, <2>5, TaskStepCases
<1>20. CASE Connect
  BY <1>20 DEF Connect, MainGoto, MainPCs
<1>21. CASE LeaveStreamLoop
  BY <1>21 DEF LeaveStreamLoop, MainGoto, MainPCs
<1>22. CASE ShutdownWorker
  BY <1>22 DEF ShutdownWorker, MainGoto, MainPCs, Notified, WorkerPCs
<1>23. CASE JoinWorker
  BY <1>23 DEF JoinWorker, MainGoto, MainPCs
<1>24. CASE Destroy
  BY <1>24 DEF Destroy, MainGoto, MainPCs
<1>25. CASE HandleStreamClosed
  <2>1. errors' \in [Tasks -> Nat]
    BY <1>25 DEF HandleStreamClosed
  <2>2. cancel_requested' \in [Tasks -> BOOLEAN]
    BY <1>25 DEF HandleStreamClosed
  <2>3. tasks' \in [OpIds -> Tasks \cup {0}]
    BY <1>25, UnregisterType DEF HandleStreamClosed
  <2>4. task_queue' \in Seq(Tasks)
    BY <1>25 DEF HandleStreamClosed
  <2> QED
    BY <1>25, <2>1, <2>2, <2>3, <2>4 DEF HandleStreamClosed, MainPCs
<1>26. CASE RequestStop
  BY <1>26 DEF RequestStop
<1>27. CASE UNCHANGED vars
  BY <1>27 DEF vars
<1> QED
  BY <1>1, <1>2, <1>3, <1>4, <1>5, <1>6, <1>7, <1>8, <1>9, <1>10, <1>11, <1>12,
     <1>13, <1>14, <1>15, <1>16, <1>17, <1>18, <1>19, <1>20, <1>21, <1>22, <1>23,
     <1>24, <1>25, <1>26, <1>27
     DEF Next, ReaderReceives, ReaderContinues, OnAuthStateChanged, SendRevoked,
         WorkerStep, CaptureEnds, MainStep, Terminated, TaskStep, IdleWorkerStep

----------------------------------------------------------------------------
(* Most steps leave alone everything the rest of the invariant is about:    *)
(* they send Data, wait, connect, or change a flag.                         *)
coreVars == <<task_queue, tasks, current_task, active_features, op_id, kind, admitted,
              cancel_requested, eofs, errors, reader, start_op, start_spec,
              reader_errors, auth_errors>>

SamePhase ==
    /\ worker' \in TaskPCs <=> worker \in TaskPCs
    /\ worker' = "finish" <=> worker = "finish"

Quiet == UNCHANGED coreVars /\ SamePhase

EndTask == worker \in TaskPCs /\ (SendEof \/ SendError)

LoudStep ==
    \/ \E op \in OpIds, spec \in StartSpecs : HandleStartOp(op, spec)
    \/ \E op \in OpIds : CancelCurrent(op)
    \/ \E op \in OpIds : CancelQueued(op)
    \/ HandleShutdownNow
    \/ LateRejectStartOp
    \/ EnqueueTask
    \/ AckStartOp
    \/ SendCancelled
    \/ \E t \in Tasks : SendShutdownError(t)
    \/ FinishShutdown
    \/ OnAuthStateChanged
    \/ \E t \in Tasks : SendUnauthorized(t)
    \/ StartTask
    \/ EndTask
    \/ FinishTask
    \/ HandleStreamClosed

(* notify_all neither starts nor ends a task.                               *)
LEMMA NotifiedPhase ==
    /\ Notified \in TaskPCs <=> worker \in TaskPCs
    /\ Notified = "finish" <=> worker = "finish"
  BY DEF Notified, TaskPCs

(* The steps of the whole system by what they touch: those that leave the   *)
(* registry alone, those of a task, and the rest one by one.                *)
LEMMA StepCases ==
    ASSUME TypeOK, WorkerTask, [Next]_vars
    PROVE  Quiet \/ LoudStep
<1> USE DEF coreVars, SamePhase, lifeVars, taskVars, sentVars, readerVars
<1>1. ASSUME NEW op, NEW spec, RejectStartOp(op, spec) \/ CancelIgnored(op)
      PROVE  Quiet
  BY <1>1 DEF RejectStartOp, CancelIgnored, vars, Quiet
<1>2. CASE HandleShutdownDrain
  BY <1>2 DEF HandleShutdownDrain, Quiet
<1>3. CASE IdleWorkerStep
  BY <1>3, IdleWorkerStepCases DEF WorkerGoto, IdlePCs, TaskPCs, Quiet
<1>4. CASE TaskStep
  <2>1. worker \in TaskPCs
    BY <1>4, TaskStepCases
  <2>2. ASSUME NEW pc \in TaskPCs, WorkerGoto(pc) \/ SendData(pc)
        PROVE  Quiet
    BY <2>1, <2>2 DEF WorkerGoto, SendData, TaskUnchanged, TaskPCs, Quiet
  <2> QED
    BY <1>4, <2>1, <2>2, TaskStepCases DEF LoudStep, EndTask
<1>5. CASE MainStep
  BY <1>5, NotifiedPhase
     DEF MainStep, Connect, LeaveStreamLoop, ShutdownWorker, JoinWorker, Destroy,
         MainGoto, Quiet
<1>6. CASE RequestStop
  BY <1>6 DEF RequestStop, Quiet
<1>7. CASE UNCHANGED vars
  BY <1>7 DEF vars, Quiet
<1> QED
  BY <1>1, <1>2, <1>3, <1>4, <1>5, <1>6, <1>7
     DEF Next, ReaderReceives, ReaderContinues, SendRevoked, WorkerStep, CaptureEnds,
         Terminated, TaskStep, IdleWorkerStep, LoudStep

(* The worker has a current task exactly while it runs or finishes one.     *)
LEMMA WorkerTaskStep ==
    ASSUME TypeOK, WorkerTask, [Next]_vars
    PROVE  WorkerTask'
<1> USE DEF WorkerTask
<1>1. CASE Quiet
  BY <1>1 DEF Quiet, SamePhase, coreVars
<1>2. ASSUME current_task' = current_task, worker' = worker \/ worker' = Notified
      PROVE  WorkerTask'
  BY <1>2, NotifiedPhase
<1>3. CASE StartTask
  <2>1. task_queue # <<>> /\ Head(task_queue) \in Tasks
    BY <1>3 DEF StartTask, TypeOK
  <2>2. worker' \in TaskPCs
    BY <1>3, <2>1 DEF StartTask, FirstStep, TaskPCs, Kinds, TypeOK
  <2>3. 0 \notin Tasks
    BY DEF Tasks
  <2> QED
    BY <1>3, <2>1, <2>2, <2>3 DEF StartTask
<1>4. CASE EndTask
  BY <1>4 DEF EndTask, SendEof, SendError, TaskUnchanged
<1>5. CASE FinishTask
  BY <1>5 DEF FinishTask, TaskPCs
<1> QED
  BY <1>1, <1>2, <1>3, <1>4, <1>5, StepCases
     DEF LoudStep, HandleStartOp, CancelCurrent, CancelQueued, HandleShutdownNow,
         LateRejectStartOp, EnqueueTask, AckStartOp, SendCancelled, SendShutdownError,
         FinishShutdown, OnAuthStateChanged, ApplyFeatureUpdate, SendUnauthorized,
         HandleStreamClosed

(* Between its two critical sections HandleStartOp may rely on its op_id    *)
(* staying free.                                                            *)
LEMMA ReaderStateStep ==
    ASSUME TypeOK, WorkerTask, ReaderState, [Next]_vars
    PROVE  ReaderState'
<1> USE DEF ReaderState, readerVars, taskVars
<1>1. CASE Quiet
  BY <1>1 DEF Quiet, coreVars, NoErrors
<1>2. ASSUME NEW op \in OpIds, NEW spec \in StartSpecs, HandleStartOp(op, spec)
      PROVE  ReaderState'
  <2>1. tasks[op] = 0 /\ SpecKind(spec) \in Kinds
    BY <1>2 DEF HandleStartOp, Admissible, Features
  <2>2. reader_errors = NoErrors
    BY <1>2 DEF HandleStartOp, ReaderIdle
  <2> QED
    BY <1>2, <2>1, <2>2 DEF HandleStartOp, NoErrors
<1>3. ASSUME NEW op \in OpIds, CancelCurrent(op)
      PROVE  ReaderState'
  BY <1>3 DEF CancelCurrent, NoErrors
<1>4. ASSUME NEW op \in OpIds, CancelQueued(op)
      PROVE  ReaderState'
  <2>1. tasks[op] \in Tasks /\ reader_errors = NoErrors
    BY <1>4 DEF CancelQueued, ReaderIdle, TypeOK
  <2> QED
    BY <1>4, <2>1 DEF CancelQueued, NoErrors
<1>5. CASE HandleShutdownNow
  BY <1>5 DEF HandleShutdownNow
<1>6. CASE LateRejectStartOp
  BY <1>6 DEF LateRejectStartOp, EndStartOp, NoErrors
<1>7. CASE EnqueueTask
  BY <1>7 DEF EnqueueTask, TypeOK, NoErrors
<1>8. CASE AckStartOp
  BY <1>8 DEF AckStartOp, EndStartOp, NoErrors
<1>9. CASE SendCancelled
  BY <1>9 DEF SendCancelled, NoErrors
<1>10. ASSUME NEW t \in Tasks, SendShutdownError(t)
       PROVE  ReaderState'
  BY <1>10 DEF SendShutdownError
<1>11. CASE FinishShutdown
  BY <1>11 DEF FinishShutdown, NoErrors
<1>12. ASSUME NEW toggles, ApplyFeatureUpdate(toggles)
       PROVE  ReaderState'
  <2>1. \A o \in OpIds : tasks[o] = 0 => tasks'[o] = 0
    BY <1>12 DEF ApplyFeatureUpdate, Unregister
  <2> QED
    BY <1>12, <2>1 DEF ApplyFeatureUpdate, NoErrors
<1>13. ASSUME NEW t \in Tasks, SendUnauthorized(t)
       PROVE  ReaderState'
  BY <1>13 DEF SendUnauthorized, NoErrors
<1>14. CASE StartTask
  BY <1>14 DEF StartTask, NoErrors
<1>15. CASE EndTask
  BY <1>15 DEF EndTask, SendEof, SendError, TaskUnchanged, NoErrors
<1>16. CASE FinishTask
  BY <1>16 DEF FinishTask, TypeOK, NoErrors
<1>17. CASE HandleStreamClosed
  BY <1>17 DEF HandleStreamClosed, ReaderIdle, NoErrors
<1> QED
  BY <1>1, <1>2, <1>3, <1>4, <1>5, <1>6, <1>7, <1>8, <1>9, <1>10, <1>11, <1>12,
     <1>13, <1>14, <1>15, <1>16, <1>17, StepCases DEF LoudStep, OnAuthStateChanged

----------------------------------------------------------------------------
(* Under the invariant the sets the handlers compute from tasks_ are just   *)
(* the queued tasks.                                                        *)
LEMMA NotRunningIsQueued ==
    ASSUME TypeOK, Registry, RunsInOrder
    PROVE  NotRunning = Queued /\ current_task \notin Queued
<1>1. ASSUME NEW t \in Queued
      PROVE  t \in Registered /\ t # current_task
  <2>1. PICK i \in 1..Len(task_queue) : t = task_queue[i]
    BY DEF Queued
  <2>2. t \in Tasks
    BY <2>1 DEF TypeOK
  <2>3. t # 0
    BY <2>2 DEF Tasks
  <2>4. t \in Registered
    BY <2>1, <2>3 DEF Registry, Registered
  <2>5. t \in Nat /\ current_task \in Nat /\ current_task < t
    BY <2>1, TypeFacts DEF RunsInOrder
  <2> QED
    BY <2>4, <2>5
<1>2. ASSUME NEW t \in NotRunning
      PROVE  t \in Queued
  BY DEF NotRunning, Registered, Registry, Queued
<1> QED
  BY <1>1, <1>2 DEF NotRunning

(* to_error holds every queued task when the toggles change.                *)
LEMMA RevokedIsQueued ==
    ASSUME TypeOK, Registry, RunsInOrder, AuthorisedWork,
           NEW toggles \in {RequestedFeatures, RestrictedFeatures},
           toggles # active_features
    PROVE  Revoked(toggles) = Queued
<1>1. \A t \in Queued : ~IsTaskAllowed(toggles, kind[t])
  BY AllowedPartCases DEF Queued
<1>2. Queued \subseteq Revoked(toggles)
  BY <1>1 DEF Revoked
<1>3. Revoked(toggles) \subseteq Queued \cup NotRunning
  BY DEF Revoked, NotRunning
<1> QED
  BY <1>2, <1>3, NotRunningIsQueued

(* An emptied queue leaves the running task alone in tasks_.                *)
LEMMA RegistryAfterClear ==
    ASSUME TypeOK, Registry, RunsInOrder,
           task_queue' = <<>>, tasks' = Unregister(Queued),
           UNCHANGED <<current_task, op_id, admitted>>
    PROVE  Registry'
<1>1. Len(task_queue') = 0
  OBVIOUS
<1>2. ASSUME NEW o \in OpIds, tasks'[o] # 0
      PROVE  tasks'[o] = tasks[o] /\ tasks[o] = current_task
  <2>1. tasks'[o] = tasks[o] /\ tasks[o] \notin Queued
    BY <1>2 DEF Unregister
  <2> QED
    BY <1>2, <2>1 DEF Registry, Queued
<1>3. ASSUME current_task # 0
      PROVE  tasks'[op_id[current_task]] = current_task
  BY <1>3, NotRunningIsQueued DEF Registry, Unregister
<1> QED
  BY <1>1, <1>2, <1>3 DEF Registry

(* tasks_ keeps agreeing with the queue and the running task.               *)
LEMMA RegistryStep ==
    ASSUME TypeOK, WorkerTask, ReaderState, Registry, RunsInOrder, AuthorisedWork,
           [Next]_vars
    PROVE  Registry'
<1>1. ASSUME UNCHANGED <<task_queue, tasks, current_task, op_id, admitted>>
      PROVE  Registry'
  BY <1>1 DEF Registry
<1>2. ASSUME NEW op \in OpIds, CancelQueued(op)
      PROVE  Registry'
  <2> DEFINE n == tasks[op]
  <2>1. PICK i \in 1..Len(task_queue) : task_queue[i] = n /\ task_queue' = EraseAt(task_queue, i)
    BY <1>2 DEF CancelQueued
  <2>2. /\ tasks' = [tasks EXCEPT ![op] = 0]
        /\ UNCHANGED <<current_task, op_id, admitted>>
        /\ n # 0 /\ n # current_task
    BY <1>2 DEF CancelQueued, taskVars
  <2>3. /\ Len(task_queue) \in Nat
        /\ Len(task_queue') = Len(task_queue) - 1
        /\ \A j \in 1..Len(task_queue') :
              task_queue'[j] = IF j < i THEN task_queue[j] ELSE task_queue[j + 1]
    <3>1. task_queue \in Seq(Tasks)
      BY DEF TypeOK
    <3>2. Len(EraseAt(task_queue, i)) = Len(task_queue) - 1
      BY <3>1, EraseAtType
    <3>3. \A j \in 1..(Len(task_queue) - 1) :
             EraseAt(task_queue, i)[j] = IF j < i THEN task_queue[j] ELSE task_queue[j + 1]
      BY <3>1, EraseAtType
    <3> HIDE DEF n
    <3> QED
      BY <2>1, <3>2, <3>3, TypeFacts
  <2>4. op_id[n] = op
    BY <2>2 DEF Registry
  <2>5. ASSUME NEW j \in 1..Len(task_queue')
        PROVE  \E k \in 1..Len(task_queue) : k # i /\ task_queue'[j] = task_queue[k]
    BY <2>3
  <2>6. ASSUME NEW k \in 1..Len(task_queue), k # i
        PROVE  /\ task_queue[k] # n
               /\ \E j \in 1..Len(task_queue') : task_queue'[j] = task_queue[k]
    <3>1. task_queue[k] # n
      <4>1. k < i \/ i < k
        BY <2>6, TypeFacts
      <4>2. task_queue[k] < task_queue[i] \/ task_queue[i] < task_queue[k]
        BY <4>1 DEF RunsInOrder
      <4> QED
        BY <2>1, <4>2, TypeFacts
    <3>2. CASE k < i
      <4>1. k \in 1..Len(task_queue')
        BY <2>3, <3>2
      <4> QED
        BY <2>3, <3>1, <3>2, <4>1
    <3>3. CASE k > i
      <4>1. k - 1 \in 1..Len(task_queue') /\ ~(k - 1 < i) /\ (k - 1) + 1 = k
        BY <2>3, <3>3
      <4>2. task_queue'[k - 1] = task_queue[(k - 1) + 1]
        BY <2>3, <4>1
      <4> QED
        BY <3>1, <4>1, <4>2
    <3> QED
      BY <2>6, <3>1, <3>2, <3>3, TypeFacts
  <2>7. ASSUME NEW j \in 1..Len(task_queue')
        PROVE  op_id[task_queue'[j]] \in OpIds /\ tasks'[op_id[task_queue'[j]]] = task_queue'[j]
    <3>1. PICK k \in 1..Len(task_queue) : k # i /\ task_queue'[j] = task_queue[k]
      BY <2>5
    <3>2. /\ op_id[task_queue[k]] \in OpIds
          /\ tasks[op_id[task_queue[k]]] = task_queue[k]
          /\ task_queue[k] # n
      BY <2>6, <3>1 DEF Registry
    <3> QED
      BY <2>2, <3>1, <3>2 DEF TypeOK
  <2>8. ASSUME NEW o \in OpIds, tasks'[o] # 0
        PROVE  /\ tasks'[o] = tasks[o]
               /\ tasks[o] = current_task \/ \E j \in 1..Len(task_queue') : task_queue'[j] = tasks[o]
    <3>1. o # op /\ tasks'[o] = tasks[o]
      BY <2>2, <2>8 DEF TypeOK
    <3>2. tasks[o] # n
      BY <2>4, <2>8, <3>1 DEF Registry
    <3>3. tasks[o] = current_task \/ \E k \in 1..Len(task_queue) : task_queue[k] = tasks[o]
      BY <2>8, <3>1 DEF Registry
    <3> QED
      BY <2>1, <2>6, <3>1, <3>2, <3>3
  <2>9. ASSUME current_task # 0
        PROVE  tasks'[op_id[current_task]] = current_task
    BY <2>2, <2>9 DEF Registry, TypeOK
  <2> QED
    BY <2>2, <2>7, <2>8, <2>9 DEF Registry
<1>3. CASE HandleShutdownNow
  BY <1>3, NotRunningIsQueued, RegistryAfterClear DEF HandleShutdownNow, taskVars
<1>4. CASE HandleStreamClosed
  BY <1>4, NotRunningIsQueued, RegistryAfterClear DEF HandleStreamClosed, taskVars
<1>5. ASSUME NEW toggles \in {RequestedFeatures, RestrictedFeatures},
             ApplyFeatureUpdate(toggles)
      PROVE  Registry'
  <2>1. toggles # active_features
    BY <1>5 DEF ApplyFeatureUpdate
  <2>2. task_queue' = <<>> /\ tasks' = Unregister(Queued)
    BY <1>5, <2>1, AllowedPartCases, RevokedIsQueued DEF ApplyFeatureUpdate
  <2> QED
    BY <1>5, <2>2, RegistryAfterClear DEF ApplyFeatureUpdate, taskVars
<1>6. CASE EnqueueTask
  <2> DEFINE n == admitted + 1
  <2>1. /\ n \in Tasks /\ start_op \in OpIds /\ tasks[start_op] = 0
        /\ n # 0 /\ admitted' = n /\ n > admitted
    BY <1>6 DEF EnqueueTask, ReaderState, TypeOK, Tasks
  <2>2. /\ op_id' = [op_id EXCEPT ![n] = start_op]
        /\ tasks' = [tasks EXCEPT ![start_op] = n]
        /\ task_queue' = Append(task_queue, n)
        /\ current_task' = current_task
    BY <1>6, <2>1 DEF EnqueueTask
  <2>3. /\ Len(task_queue) \in Nat
        /\ Len(task_queue') = Len(task_queue) + 1
        /\ task_queue'[Len(task_queue) + 1] = n
        /\ \A j \in 1..Len(task_queue) : task_queue'[j] = task_queue[j]
    BY <2>1, <2>2 DEF TypeOK
  <2>4. ASSUME NEW o \in OpIds, tasks[o] # 0
        PROVE  /\ tasks[o] \in Tasks /\ tasks[o] # n /\ o # start_op
               /\ op_id'[tasks[o]] = op_id[tasks[o]] /\ tasks'[o] = tasks[o]
    <3>1. tasks[o] \in Tasks /\ tasks[o] # n /\ o # start_op
      BY <2>1, <2>4, TypeFacts DEF Registry
    <3> QED
      BY <2>1, <2>2, <3>1 DEF TypeOK
  <2>5. ASSUME NEW j \in 1..Len(task_queue)
        PROVE  /\ op_id'[task_queue'[j]] \in OpIds
               /\ tasks'[op_id'[task_queue'[j]]] = task_queue'[j]
    <3>1. task_queue[j] \in Tasks /\ task_queue[j] # 0
      BY TypeFacts, TaskNumbers
    <3> DEFINE o == op_id[task_queue[j]]
    <3>2. o \in OpIds /\ tasks[o] = task_queue[j] /\ tasks[o] # 0
      BY <3>1 DEF Registry
    <3>3. op_id'[tasks[o]] = o /\ tasks'[o] = tasks[o]
      BY <2>4, <3>2
    <3> QED
      BY <2>3, <3>2, <3>3
  <2>6. op_id'[n] = start_op /\ tasks'[start_op] = n
    BY <2>1, <2>2 DEF TypeOK
  <2>7. \A j \in 1..Len(task_queue') :
           /\ op_id'[task_queue'[j]] \in OpIds
           /\ tasks'[op_id'[task_queue'[j]]] = task_queue'[j]
    BY <2>1, <2>3, <2>5, <2>6
  <2>8. ASSUME current_task # 0
        PROVE  op_id'[current_task] \in OpIds /\ tasks'[op_id'[current_task]] = current_task
    BY <2>4, <2>8 DEF Registry
  <2>9. ASSUME NEW o \in OpIds, tasks'[o] # 0
        PROVE  /\ op_id'[tasks'[o]] = o
               /\ tasks'[o] <= admitted'
               /\ tasks'[o] = current_task'
                    \/ \E j \in 1..Len(task_queue') : task_queue'[j] = tasks'[o]
    <3>1. CASE o = start_op
      <4>1. Len(task_queue) + 1 \in 1..Len(task_queue')
        BY <2>3
      <4>2. n <= admitted'
        BY <2>1, TypeFacts
      <4> QED
        BY <2>3, <2>6, <3>1, <4>1, <4>2
    <3>2. CASE o # start_op
      <4>1. tasks'[o] = tasks[o] /\ tasks[o] # 0
        BY <2>2, <2>9, <3>2 DEF TypeOK
      <4>2. /\ op_id[tasks[o]] = o
            /\ tasks[o] <= admitted
            /\ tasks[o] = current_task \/ \E j \in 1..Len(task_queue) : task_queue[j] = tasks[o]
        BY <4>1 DEF Registry
      <4>3. tasks[o] <= admitted'
        BY <2>1, <4>2, <4>1, <2>4 DEF TypeOK, Tasks
      <4> QED
        BY <2>2, <2>3, <2>4, <4>1, <4>2, <4>3
    <3> QED
      BY <3>1, <3>2
  <2> QED
    BY <2>2, <2>7, <2>8, <2>9 DEF Registry
<1>7. CASE StartTask
  <2>1. /\ Len(task_queue) \in Nat /\ Len(task_queue) > 0
        /\ current_task' = task_queue[1]
        /\ Len(task_queue') = Len(task_queue) - 1
        /\ \A j \in 1..Len(task_queue') : task_queue'[j] = task_queue[j + 1]
    BY <1>7 DEF StartTask, TypeOK
  <2>2. current_task = 0
    BY <1>7 DEF StartTask, WorkerTask, TaskPCs
  <2>3. UNCHANGED <<tasks, op_id, admitted>>
    BY <1>7 DEF StartTask, taskVars
  <2>4. ASSUME NEW k \in 1..Len(task_queue), k # 1
        PROVE  \E j \in 1..Len(task_queue') : task_queue'[j] = task_queue[k]
    <3>1. k - 1 \in 1..Len(task_queue') /\ (k - 1) + 1 = k
      BY <2>1, <2>4
    <3> QED
      BY <2>1, <3>1
  <2>5. ASSUME NEW o \in OpIds, tasks[o] # 0
        PROVE  tasks[o] = current_task' \/ \E j \in 1..Len(task_queue') : task_queue'[j] = tasks[o]
    <3>1. PICK k \in 1..Len(task_queue) : task_queue[k] = tasks[o]
      BY <2>2, <2>5 DEF Registry
    <3> QED
      BY <2>1, <2>4, <3>1
  <2>6. \A j \in 1..Len(task_queue') : j + 1 \in 1..Len(task_queue)
    BY <2>1
  <2> QED
    BY <2>1, <2>3, <2>5, <2>6 DEF Registry
<1>8. CASE FinishTask
  <2>1. current_task # 0 /\ current_task' = 0
    BY <1>8 DEF FinishTask, WorkerTask
  <2>2. /\ tasks' = [tasks EXCEPT ![op_id[current_task]] = 0]
        /\ UNCHANGED <<task_queue, op_id, admitted>>
    BY <1>8 DEF FinishTask, taskVars
  <2>3. ASSUME NEW o \in OpIds, tasks'[o] # 0
        PROVE  tasks'[o] = tasks[o] /\ tasks[o] # current_task
    BY <2>1, <2>2, <2>3 DEF Registry, TypeOK
  <2>4. ASSUME NEW i \in 1..Len(task_queue)
        PROVE  tasks'[op_id[task_queue[i]]] = task_queue[i]
    <3>1. task_queue[i] # current_task
      BY NotRunningIsQueued DEF Queued
    <3> QED
      BY <2>1, <2>2, <3>1 DEF Registry, TypeOK
  <2> QED
    BY <2>1, <2>2, <2>3, <2>4 DEF Registry
<1> QED
  BY <1>1, <1>2, <1>3, <1>4, <1>5, <1>6, <1>7, <1>8, StepCases
     DEF Quiet, coreVars, LoudStep, HandleStartOp, CancelCurrent, LateRejectStartOp,
         AckStartOp, SendCancelled, SendShutdownError, FinishShutdown,
         OnAuthStateChanged, SendUnauthorized, EndTask, SendEof, SendError,
         TaskUnchanged, taskVars

----------------------------------------------------------------------------
(* Queued and running tasks were admitted.                                  *)
LEMMA LiveAdmitted ==
    ASSUME TypeOK, Registry
    PROVE  /\ \A i \in 1..Len(task_queue) : task_queue[i] <= admitted
           /\ current_task <= admitted
<1>1. ASSUME NEW i \in 1..Len(task_queue)
      PROVE  task_queue[i] <= admitted
  <2> DEFINE o == op_id[task_queue[i]]
  <2>1. o \in OpIds /\ tasks[o] = task_queue[i] /\ tasks[o] # 0
    BY TypeFacts, TaskNumbers DEF Registry
  <2>2. tasks[o] <= admitted
    BY <2>1 DEF Registry
  <2> QED
    BY <2>1, <2>2
<1>2. CASE current_task = 0
  BY <1>1, <1>2, TypeFacts
<1>3. CASE current_task # 0
  <2> DEFINE o == op_id[current_task]
  <2>1. o \in OpIds /\ tasks[o] = current_task
    BY <1>3 DEF Registry
  <2>2. tasks[o] <= admitted
    BY <1>3, <2>1 DEF Registry
  <2> QED
    BY <1>1, <2>1, <2>2
<1> QED
  BY <1>2, <1>3

(* Erasing keeps the order, and a new task has the largest number.          *)
LEMMA RunsInOrderStep ==
    ASSUME TypeOK, WorkerTask, ReaderState, Registry, RunsInOrder, AuthorisedWork,
           [Next]_vars
    PROVE  RunsInOrder'
<1>1. ASSUME UNCHANGED <<task_queue, current_task>>
      PROVE  RunsInOrder'
  BY <1>1 DEF RunsInOrder
<1>2. ASSUME task_queue' = <<>>
      PROVE  RunsInOrder'
  <2>1. Len(task_queue') = 0
    BY <1>2
  <2> QED
    BY <2>1 DEF RunsInOrder
<1>3. ASSUME NEW op \in OpIds, CancelQueued(op)
      PROVE  RunsInOrder'
  <2>1. PICK i \in 1..Len(task_queue) : task_queue' = EraseAt(task_queue, i)
    BY <1>3 DEF CancelQueued
  <2>2. task_queue \in Seq(Tasks)
    BY DEF TypeOK
  <2>3. Len(task_queue') = Len(task_queue) - 1
    BY <2>1, <2>2, EraseAtType
  <2>4. \A j \in 1..(Len(task_queue) - 1) :
           task_queue'[j] = IF j < i THEN task_queue[j] ELSE task_queue[j + 1]
    BY <2>1, <2>2, EraseAtType
  <2>5. ASSUME NEW j \in 1..(Len(task_queue) - 1), NEW k \in 1..(Len(task_queue) - 1), j < k
        PROVE  task_queue'[j] < task_queue'[k]
    <3> DEFINE At(m) == IF m < i THEN m ELSE m + 1
    <3>1. At(j) \in 1..Len(task_queue) /\ At(k) \in 1..Len(task_queue) /\ At(j) < At(k)
      BY <2>5, TypeFacts
    <3>2. task_queue'[j] = task_queue[At(j)] /\ task_queue'[k] = task_queue[At(k)]
      BY <2>4
    <3> QED
      BY <3>1, <3>2 DEF RunsInOrder
  <2>6. \A j \in 1..(Len(task_queue) - 1) : current_task < task_queue'[j]
    BY <2>4, TypeFacts DEF RunsInOrder
  <2> QED
    BY <1>3, <2>3, <2>5, <2>6 DEF RunsInOrder, CancelQueued
<1>4. CASE EnqueueTask
  <2>1. task_queue' = Append(task_queue, admitted + 1) /\ current_task' = current_task
    BY <1>4 DEF EnqueueTask
  <2>2. /\ Len(task_queue') = Len(task_queue) + 1
        /\ task_queue'[Len(task_queue) + 1] = admitted + 1
        /\ \A j \in 1..Len(task_queue) : task_queue'[j] = task_queue[j]
    BY <2>1 DEF TypeOK
  <2>4. \A j \in 1..Len(task_queue) : task_queue[j] < admitted + 1
    BY TypeFacts, LiveAdmitted
  <2>5. current_task < admitted + 1
    BY TypeFacts, LiveAdmitted
  <2> QED
    BY <2>1, <2>2, <2>4, <2>5, TypeFacts DEF RunsInOrder
<1>5. CASE StartTask
  <2>1. /\ Len(task_queue) > 0
        /\ current_task' = task_queue[1]
        /\ Len(task_queue') = Len(task_queue) - 1
        /\ \A j \in 1..Len(task_queue') : task_queue'[j] = task_queue[j + 1]
    BY <1>5 DEF StartTask, TypeOK
  <2>2. ASSUME NEW j \in 1..Len(task_queue'), NEW k \in 1..Len(task_queue'), j < k
        PROVE  task_queue'[j] < task_queue'[k]
    <3>1. j + 1 \in 1..Len(task_queue) /\ k + 1 \in 1..Len(task_queue) /\ j + 1 < k + 1
      BY <2>1, <2>2, TypeFacts
    <3> QED
      BY <2>1, <3>1 DEF RunsInOrder
  <2>3. \A j \in 1..Len(task_queue') : current_task' < task_queue'[j]
    BY <2>1, TypeFacts DEF RunsInOrder
  <2> QED
    BY <2>2, <2>3 DEF RunsInOrder
<1>6. CASE FinishTask
  <2>1. task_queue' = task_queue /\ current_task' = 0
    BY <1>6 DEF FinishTask
  <2> QED
    BY <2>1, TypeFacts, TaskNumbers DEF RunsInOrder
<1>7. ASSUME NEW toggles \in {RequestedFeatures, RestrictedFeatures},
             ApplyFeatureUpdate(toggles)
      PROVE  RunsInOrder'
  <2>1. task_queue' = <<>>
    BY <1>7, AllowedPartCases DEF ApplyFeatureUpdate
  <2> QED
    BY <1>2, <2>1
<1>8. CASE HandleShutdownNow \/ HandleStreamClosed
  BY <1>2, <1>8 DEF HandleShutdownNow, HandleStreamClosed
<1> QED
  BY <1>1, <1>3, <1>4, <1>5, <1>6, <1>7, <1>8, StepCases
     DEF Quiet, coreVars, LoudStep, HandleStartOp, CancelCurrent, LateRejectStartOp,
         AckStartOp, SendCancelled, SendShutdownError, FinishShutdown,
         OnAuthStateChanged, SendUnauthorized, EndTask, SendEof, SendError,
         TaskUnchanged

(* A task enters the queue only under toggles that allow it, and an update  *)
(* of the toggles takes out or cancels what it forbids.                     *)
LEMMA AuthorisedWorkStep ==
    ASSUME TypeOK, WorkerTask, ReaderState, Registry, RunsInOrder, AuthorisedWork,
           [Next]_vars
    PROVE  AuthorisedWork'
<1>1. ASSUME UNCHANGED <<task_queue, current_task, kind, active_features>>,
             \A t \in Tasks : cancel_requested[t] => cancel_requested'[t]
      PROVE  AuthorisedWork'
  <2>1. current_task # 0 => current_task \in Tasks
    BY DEF TypeOK
  <2> QED
    BY <1>1, <2>1 DEF AuthorisedWork, CurrentRevoked, IsTaskAllowed
<1>2. ASSUME task_queue' = <<>>,
             UNCHANGED <<current_task, kind, active_features>>,
             \A t \in Tasks : cancel_requested[t] => cancel_requested'[t]
      PROVE  AuthorisedWork'
  <2>1. current_task # 0 => current_task \in Tasks
    BY DEF TypeOK
  <2>2. Len(task_queue') = 0
    BY <1>2
  <2> QED
    BY <1>2, <2>1, <2>2 DEF AuthorisedWork, CurrentRevoked, IsTaskAllowed
<1>3. CASE Quiet
  BY <1>1, <1>3 DEF Quiet, coreVars
<1>4. ASSUME NEW op \in OpIds, CancelCurrent(op)
      PROVE  AuthorisedWork'
  <2>1. \A t \in Tasks : cancel_requested[t] => cancel_requested'[t]
    BY <1>4 DEF CancelCurrent, TypeOK
  <2> QED
    BY <1>1, <1>4, <2>1 DEF CancelCurrent, taskVars
<1>5. ASSUME NEW op \in OpIds, CancelQueued(op)
      PROVE  AuthorisedWork'
  <2>1. PICK i \in 1..Len(task_queue) : task_queue' = EraseAt(task_queue, i)
    BY <1>5 DEF CancelQueued
  <2>2. task_queue \in Seq(Tasks)
    BY DEF TypeOK
  <2>3. Len(task_queue') = Len(task_queue) - 1
    BY <2>1, <2>2, EraseAtType
  <2>4. \A j \in 1..(Len(task_queue) - 1) :
           task_queue'[j] = IF j < i THEN task_queue[j] ELSE task_queue[j + 1]
    BY <2>1, <2>2, EraseAtType
  <2>5. \A j \in 1..(Len(task_queue) - 1) :
           \E k \in 1..Len(task_queue) : task_queue'[j] = task_queue[k]
    BY <2>4, TypeFacts
  <2>6. UNCHANGED <<current_task, kind, active_features, cancel_requested>>
    BY <1>5 DEF CancelQueued, taskVars
  <2> QED
    BY <2>3, <2>5, <2>6 DEF AuthorisedWork, CurrentRevoked, IsTaskAllowed
<1>6. CASE HandleShutdownNow
  <2>1. \A t \in Tasks : cancel_requested[t] => cancel_requested'[t]
    BY <1>6 DEF HandleShutdownNow
  <2> QED
    BY <1>2, <1>6, <2>1 DEF HandleShutdownNow, taskVars
<1>7. CASE HandleStreamClosed
  <2>1. \A t \in Tasks : cancel_requested[t] => cancel_requested'[t]
    BY <1>7 DEF HandleStreamClosed
  <2> QED
    BY <1>2, <1>7, <2>1 DEF HandleStreamClosed, taskVars
<1>8. CASE SendCancelled
  <2>1. \A t \in Tasks : cancel_requested[t] => cancel_requested'[t]
    BY <1>8 DEF SendCancelled, TypeOK
  <2> QED
    BY <1>1, <1>8, <2>1 DEF SendCancelled, taskVars
<1>9. CASE EnqueueTask
  <2> DEFINE n == admitted + 1
  <2>1. n \in Tasks /\ admitted' = n
    BY <1>9 DEF EnqueueTask, ReaderState, TypeOK, Tasks
  <2>2. /\ kind' = [kind EXCEPT ![n] = SpecKind(start_spec)]
        /\ task_queue' = Append(task_queue, n)
        /\ UNCHANGED <<current_task, active_features, cancel_requested>>
        /\ IsTaskAllowed(active_features, SpecKind(start_spec))
    BY <1>9, <2>1 DEF EnqueueTask, StillAllowed
  <2>3. /\ Len(task_queue') = Len(task_queue) + 1
        /\ task_queue'[Len(task_queue) + 1] = n
        /\ \A j \in 1..Len(task_queue) : task_queue'[j] = task_queue[j]
    BY <2>1, <2>2 DEF TypeOK
  <2>5. \A j \in 1..Len(task_queue) : task_queue[j] # n /\ task_queue[j] \in Tasks
    BY TypeFacts, LiveAdmitted
  <2>6. current_task # n /\ (current_task # 0 => current_task \in Tasks)
    <3>1. current_task # n
      BY TypeFacts, LiveAdmitted
    <3>2. current_task # 0 => current_task \in Tasks
      BY DEF TypeOK
    <3> QED
      BY <3>1, <3>2
  <2>7. kind'[n] = SpecKind(start_spec)
    BY <2>1, <2>2 DEF TypeOK
  <2>8. \A t \in Tasks : t # n => kind'[t] = kind[t]
    BY <2>2 DEF TypeOK
  <2>9. \A j \in 1..Len(task_queue') : IsTaskAllowed(active_features, kind'[task_queue'[j]])
    BY <2>2, <2>3, <2>5, <2>7, <2>8, TypeFacts DEF AuthorisedWork
  <2> QED
    BY <2>2, <2>6, <2>8, <2>9 DEF AuthorisedWork, CurrentRevoked, IsTaskAllowed
<1>10. ASSUME NEW toggles \in {RequestedFeatures, RestrictedFeatures},
              ApplyFeatureUpdate(toggles)
       PROVE  AuthorisedWork'
  <2>1. task_queue' = <<>>
    BY <1>10, AllowedPartCases DEF ApplyFeatureUpdate
  <2>2. Len(task_queue') = 0
    BY <2>1
  <2>3. active_features' = toggles /\ UNCHANGED <<current_task, kind>>
    BY <1>10 DEF ApplyFeatureUpdate, taskVars
  <2>4. ASSUME CurrentRevoked(toggles)
        PROVE  cancel_requested'[current_task]
    <3>1. current_task \in Tasks
      BY <2>4 DEF CurrentRevoked, TypeOK
    <3> QED
      BY <1>10, <2>4, <3>1 DEF ApplyFeatureUpdate
  <2> QED
    BY <2>2, <2>3, <2>4 DEF AuthorisedWork, CurrentRevoked, IsTaskAllowed
<1>11. CASE StartTask
  <2>1. /\ Len(task_queue) > 0
        /\ current_task' = task_queue[1]
        /\ Len(task_queue') = Len(task_queue) - 1
        /\ \A j \in 1..Len(task_queue') : task_queue'[j] = task_queue[j + 1]
    BY <1>11 DEF StartTask, TypeOK
  <2>2. UNCHANGED <<kind, active_features, cancel_requested>>
    BY <1>11 DEF StartTask, taskVars
  <2>3. /\ 1 \in 1..Len(task_queue)
        /\ \A j \in 1..Len(task_queue') : j + 1 \in 1..Len(task_queue)
    BY <2>1, TypeFacts
  <2> QED
    BY <2>1, <2>2, <2>3 DEF AuthorisedWork, CurrentRevoked, IsTaskAllowed
<1>12. CASE FinishTask
  BY <1>12 DEF FinishTask, taskVars, AuthorisedWork, CurrentRevoked, IsTaskAllowed
<1> QED
  BY <1>1, <1>3, <1>4, <1>5, <1>6, <1>7, <1>8, <1>9, <1>10, <1>11, <1>12, StepCases
     DEF LoudStep, HandleStartOp, LateRejectStartOp, AckStartOp, SendShutdownError,
         FinishShutdown, OnAuthStateChanged, SendUnauthorized, EndTask, SendEof,
         SendError, TaskUnchanged, taskVars

----------------------------------------------------------------------------
(* The counters of Final are numbers.                                       *)
LEMMA FinalFacts ==
    ASSUME TypeOK, NEW t \in Tasks
    PROVE  /\ reader_errors[t] \in Nat /\ auth_errors[t] \in Nat
           /\ eofs[t] \in Nat /\ errors[t] \in Nat
           /\ Final(t) \in Nat
  BY DEF TypeOK, Final

(* A step that changes neither what is pending nor what is owed or sent.    *)
LEMMA AccountedSame ==
    ASSUME NEW t \in Tasks, AccountedFor(t), admitted' = admitted,
           Pending(t)' <=> Pending(t), Final(t)' = Final(t)
    PROVE  AccountedFor(t)'
  BY DEF AccountedFor

(* A pending task that is taken out with one final message.                 *)
LEMMA AccountedOnce ==
    ASSUME NEW t \in Tasks, AccountedFor(t), Pending(t), t <= admitted,
           admitted' = admitted, admitted \in Nat,
           ~Pending(t)', Final(t)' = Final(t) + 1
    PROVE  AccountedFor(t)'
<1>1. Final(t)' = 1
  BY DEF AccountedFor
<1>2. t \in Nat
  BY TaskNumbers
<1> QED
  BY <1>1, <1>2 DEF AccountedFor

(* Every step moves a task along: pending, then owed, then sent.            *)
LEMMA AccountedStep ==
    ASSUME Inv, [Next]_vars
    PROVE  Accounted'
<1> SUFFICES ASSUME NEW t \in Tasks
             PROVE  AccountedFor(t)'
  BY DEF Accounted
<1> USE DEF sentVars, taskVars, readerVars
<1>a. AccountedFor(t) /\ TypeOK /\ WorkerTask /\ ReaderState /\ Registry /\ RunsInOrder /\ AuthorisedWork
  BY DEF Inv, Accounted
<1>b. t \in Nat /\ t # 0 /\ admitted \in Nat
  BY <1>a, TaskNumbers, TypeFacts
<1>c. /\ reader_errors[t] \in Nat /\ auth_errors[t] \in Nat
      /\ eofs[t] \in Nat /\ errors[t] \in Nat
  BY <1>a, FinalFacts
<1>d. t \in Queued => t <= admitted /\ Pending(t)
  BY <1>a, LiveAdmitted DEF Queued, Pending
<1>e. current_task \notin Queued /\ NotRunning = Queued
  BY <1>a, NotRunningIsQueued
<1>f. ASSUME UNCHANGED <<admitted, task_queue, current_task, reader_errors, auth_errors, eofs, errors>>,
             worker' = "finish" <=> worker = "finish"
      PROVE  AccountedFor(t)'
  BY <1>a, <1>f, AccountedSame DEF Pending, Queued, Final
<1>1. CASE Quiet
  BY <1>1, <1>f DEF Quiet, coreVars, SamePhase
<1>2. ASSUME NEW op \in OpIds, NEW spec \in StartSpecs, HandleStartOp(op, spec)
      PROVE  AccountedFor(t)'
  BY <1>2, <1>f DEF HandleStartOp
<1>3. ASSUME NEW op \in OpIds, CancelCurrent(op)
      PROVE  AccountedFor(t)'
  BY <1>3, <1>f DEF CancelCurrent
<1>4. ASSUME NEW op \in OpIds, CancelQueued(op)
      PROVE  AccountedFor(t)'
  <2> DEFINE n == tasks[op]
  <2>1. PICK i \in 1..Len(task_queue) : task_queue[i] = n /\ task_queue' = EraseAt(task_queue, i)
    BY <1>4 DEF CancelQueued
  <2>2. task_queue \in Seq(Tasks)
    BY <1>a DEF TypeOK
  <2>3. Len(task_queue') = Len(task_queue) - 1
    BY <2>1, <2>2, EraseAtType
  <2>4. \A j \in 1..(Len(task_queue) - 1) :
           task_queue'[j] = IF j < i THEN task_queue[j] ELSE task_queue[j + 1]
    BY <2>1, <2>2, EraseAtType
  <2>5. /\ UNCHANGED <<admitted, current_task, auth_errors, eofs, errors, worker>>
        /\ reader_errors' = [reader_errors EXCEPT ![n] = 1]
        /\ n # current_task
    BY <1>4 DEF CancelQueued
  <2>6. reader_errors = NoErrors
    BY <1>4, <1>a DEF CancelQueued, ReaderIdle, ReaderState
  <2>7. CASE t = n
    <3>1. t \in Queued
      BY <2>1, <2>7 DEF Queued
    <3>2. ASSUME NEW j \in 1..(Len(task_queue) - 1)
          PROVE  task_queue'[j] # n
      <4>1. CASE j < i
        <5>1. j \in 1..Len(task_queue) /\ task_queue[j] < task_queue[i]
          BY <1>a, <4>1, TypeFacts DEF RunsInOrder
        <5> QED
          BY <1>a, <2>1, <2>4, <4>1, <5>1, TypeFacts
      <4>2. CASE ~(j < i)
        <5>1. j + 1 \in 1..Len(task_queue) /\ i < j + 1
          BY <1>a, <4>2, TypeFacts
        <5>2. task_queue[i] < task_queue[j + 1]
          BY <1>a, <5>1 DEF RunsInOrder
        <5> QED
          BY <1>a, <2>1, <2>4, <4>2, <5>1, <5>2, TypeFacts
      <4> QED
        BY <4>1, <4>2
    <3>3. ~Pending(t)'
      BY <2>3, <2>5, <2>7, <3>2 DEF Pending, Queued
    <3>4. Final(t)' = Final(t) + 1
      BY <1>a, <1>c, <2>5, <2>6, <2>7 DEF Final, NoErrors
    <3> QED
      BY <1>a, <1>b, <1>d, <2>5, <3>1, <3>3, <3>4, AccountedOnce
  <2>8. CASE t # n
    <3>1. ASSUME NEW k \in 1..Len(task_queue), task_queue[k] = t
          PROVE  \E j \in 1..(Len(task_queue) - 1) : task_queue'[j] = t
      <4>1. k # i
        BY <2>1, <2>8, <3>1
      <4>2. CASE k < i
        <5>1. k \in 1..(Len(task_queue) - 1)
          BY <1>a, <4>2, TypeFacts
        <5> QED
          BY <2>4, <3>1, <4>2, <5>1
      <4>3. CASE k > i
        <5>1. k - 1 \in 1..(Len(task_queue) - 1) /\ ~(k - 1 < i) /\ (k - 1) + 1 = k
          BY <1>a, <4>3, TypeFacts
        <5>2. task_queue'[k - 1] = task_queue[(k - 1) + 1]
          BY <2>4, <5>1
        <5> QED
          BY <3>1, <5>1, <5>2
      <4> QED
        BY <4>1, <4>2, <4>3
    <3>2. ASSUME NEW j \in 1..(Len(task_queue) - 1)
          PROVE  \E k \in 1..Len(task_queue) : task_queue[k] = task_queue'[j]
      BY <1>a, <2>4, TypeFacts
    <3>3. t \in Queued' <=> t \in Queued
      BY <2>3, <3>1, <3>2 DEF Queued
    <3>4. Pending(t)' <=> Pending(t)
      BY <2>5, <3>3 DEF Pending
    <3>5. Final(t)' = Final(t)
      BY <1>a, <2>5, <2>8 DEF Final, TypeOK
    <3> QED
      BY <1>a, <2>5, <3>4, <3>5, AccountedSame
  <2> QED
    BY <2>7, <2>8
<1>5. CASE HandleShutdownNow
  <2>1. /\ UNCHANGED <<admitted, current_task, auth_errors, eofs, errors, worker>>
        /\ reader_errors' = ShutdownErrors
        /\ task_queue' = <<>>
        /\ FALSE \in ShutdownDrains
    BY <1>5 DEF HandleShutdownNow, Shutdown
  <2>2. reader_errors[t] = 0
    BY <1>5, <1>a DEF HandleShutdownNow, Shutdown, ReaderIdle, ReaderState, NoErrors
  <2>3. t \notin Queued'
    <3>1. Len(task_queue') = 0
      BY <2>1
    <3> QED
      BY <3>1 DEF Queued
  <2>4. CASE t \in Queued
    <3>1. reader_errors'[t] = 2
      BY <1>e, <2>1, <2>4 DEF ShutdownErrors
    <3>2. ~Pending(t)'
      BY <1>e, <2>1, <2>3, <2>4 DEF Pending
    <3>3. Final(t) = 0 /\ Final(t)' = Final(t) + 2
      BY <1>a, <1>c, <1>d, <2>1, <2>2, <2>4, <3>1 DEF Final, AccountedFor
    <3>4. Final(t)' >= 1
      BY <3>3
    <3>5. ~(t > admitted')
      <4>1. t <= admitted /\ admitted' = admitted
        BY <1>d, <2>1, <2>4
      <4> QED
        BY <1>b, <4>1
    <3> QED
      BY <2>1, <3>2, <3>4, <3>5, Zenon DEF AccountedFor
  <2>5. CASE t \notin Queued
    <3>1. reader_errors'[t] = 0
      BY <1>e, <2>1, <2>5 DEF ShutdownErrors
    <3>2. Final(t)' = Final(t)
      BY <2>1, <2>2, <3>1 DEF Final
    <3>3. Pending(t)' <=> Pending(t)
      BY <2>1, <2>3, <2>5 DEF Pending
    <3> QED
      BY <1>a, <2>1, <3>2, <3>3, AccountedSame
  <2> QED
    BY <2>4, <2>5
<1>6. CASE LateRejectStartOp
  BY <1>6, <1>f DEF LateRejectStartOp
<1>7. CASE EnqueueTask
  <2> DEFINE n == admitted + 1
  <2>1. n \in Tasks /\ admitted' = n
    BY <1>7, <1>a DEF EnqueueTask, ReaderState, TypeOK, Tasks
  <2>2. /\ task_queue' = Append(task_queue, n)
        /\ UNCHANGED <<current_task, reader_errors, auth_errors, eofs, errors, worker>>
    BY <1>7, <2>1 DEF EnqueueTask
  <2>3. /\ Len(task_queue') = Len(task_queue) + 1
        /\ task_queue'[Len(task_queue) + 1] = n
        /\ \A j \in 1..Len(task_queue) : task_queue'[j] = task_queue[j]
    BY <1>a, <2>1, <2>2 DEF TypeOK
  <2>4. Queued' = Queued \cup {n}
    <3>1. Len(task_queue) \in Nat
      BY <1>a, TypeFacts
    <3> QED
      BY <2>3, <3>1 DEF Queued
  <2>5. Final(t)' = Final(t)
    BY <2>2 DEF Final
  <2>6. Pending(t)' <=> Pending(t) \/ t = n
    BY <2>2, <2>4 DEF Pending
  <2>7. t > n => t > admitted
    BY <1>b
  <2>8. t # n => (t <= n <=> t <= admitted)
    BY <1>b
  <2>9. CASE t = n
    <3>1. t > admitted /\ ~(t > n)
      BY <1>b, <2>9
    <3> QED
      BY <1>a, <2>1, <2>5, <2>6, <2>9, <3>1 DEF AccountedFor
  <2>10. CASE t # n
    BY <1>a, <2>1, <2>5, <2>6, <2>7, <2>8, <2>10 DEF AccountedFor
  <2> QED
    BY <2>9, <2>10
<1>8. CASE AckStartOp
  BY <1>8, <1>f, NotifiedPhase DEF AckStartOp
<1>9. CASE SendCancelled
  <2>1. PICK m \in Tasks : reader_errors = [NoErrors EXCEPT ![m] = 1]
    BY <1>9, <1>a DEF SendCancelled, ReaderState
  <2>2. errors' = [errors EXCEPT ![m] = @ + 1]
    <3>1. PICK k \in Tasks : reader_errors[k] > 0 /\ errors' = [errors EXCEPT ![k] = @ + 1]
      BY <1>9 DEF SendCancelled
    <3>2. k = m
      BY <2>1, <3>1 DEF NoErrors
    <3> QED
      BY <3>1, <3>2
  <2>3. /\ UNCHANGED <<admitted, task_queue, current_task, auth_errors, eofs, worker>>
        /\ reader_errors' = NoErrors
    BY <1>9 DEF SendCancelled
  <2>4. reader_errors'[t] + errors'[t] = reader_errors[t] + errors[t]
    BY <1>a, <1>c, <2>1, <2>2, <2>3 DEF NoErrors, TypeOK
  <2>5. Final(t)' = Final(t)
    <3>1. reader_errors'[t] \in Nat /\ errors'[t] \in Nat
      BY <1>a, <1>c, <2>2, <2>3 DEF NoErrors, TypeOK
    <3> QED
      BY <1>c, <2>3, <2>4, <3>1 DEF Final
  <2> QED
    BY <1>a, <2>3, <2>5, AccountedSame DEF Pending, Queued
<1>10. ASSUME NEW m \in Tasks, SendShutdownError(m)
       PROVE  AccountedFor(t)'
  <2>1. /\ UNCHANGED <<admitted, task_queue, current_task, auth_errors, eofs, worker>>
        /\ reader_errors[m] > 0
        /\ reader_errors' = [reader_errors EXCEPT ![m] = @ - 1]
        /\ errors' = [errors EXCEPT ![m] = @ + 1]
    BY <1>10 DEF SendShutdownError
  <2>2. Final(t)' = Final(t)
    BY <1>a, <1>c, <2>1 DEF Final, TypeOK
  <2> QED
    BY <1>a, <2>1, <2>2, AccountedSame DEF Pending, Queued
<1>11. CASE FinishShutdown
  BY <1>11, <1>f, NotifiedPhase DEF FinishShutdown
<1>12. ASSUME NEW toggles \in {RequestedFeatures, RestrictedFeatures},
              ApplyFeatureUpdate(toggles)
       PROVE  AccountedFor(t)'
  <2>1. /\ UNCHANGED <<admitted, current_task, reader_errors, eofs, errors>>
        /\ auth_errors = NoErrors
        /\ worker' = "finish" <=> worker = "finish"
    BY <1>12, NotifiedPhase DEF ApplyFeatureUpdate
  <2>2. Revoked(toggles) = Queued /\ task_queue' = <<>>
    BY <1>12, <1>a, AllowedPartCases, RevokedIsQueued DEF ApplyFeatureUpdate
  <2>3. t \notin Queued'
    <3>1. Len(task_queue') = 0
      BY <2>2
    <3> QED
      BY <3>1 DEF Queued
  <2>4. auth_errors[t] = 0 /\ auth_errors'[t] = IF t \in Queued THEN 1 ELSE 0
    BY <1>12, <2>1, <2>2 DEF ApplyFeatureUpdate, NoErrors
  <2>5. CASE t \in Queued
    <3>1. ~Pending(t)'
      BY <1>e, <2>1, <2>3, <2>5 DEF Pending
    <3>2. Final(t)' = Final(t) + 1
      BY <1>c, <2>1, <2>4, <2>5 DEF Final
    <3> QED
      BY <1>a, <1>b, <1>d, <2>1, <2>5, <3>1, <3>2, AccountedOnce
  <2>6. CASE t \notin Queued
    <3>1. Pending(t)' <=> Pending(t)
      BY <2>1, <2>3, <2>6 DEF Pending
    <3>2. Final(t)' = Final(t)
      BY <2>1, <2>4, <2>6 DEF Final
    <3> QED
      BY <1>a, <2>1, <3>1, <3>2, AccountedSame
  <2> QED
    BY <2>5, <2>6
<1>13. ASSUME NEW m \in Tasks, SendUnauthorized(m)
       PROVE  AccountedFor(t)'
  <2>1. /\ UNCHANGED <<admitted, task_queue, current_task, reader_errors, eofs, worker>>
        /\ auth_errors[m] > 0
        /\ auth_errors' = [auth_errors EXCEPT ![m] = @ - 1]
        /\ errors' = [errors EXCEPT ![m] = @ + 1]
    BY <1>13 DEF SendUnauthorized
  <2>2. Final(t)' = Final(t)
    BY <1>a, <1>c, <2>1 DEF Final, TypeOK
  <2> QED
    BY <1>a, <2>1, <2>2, AccountedSame DEF Pending, Queued
<1>14. CASE StartTask
  <2>1. /\ Len(task_queue) > 0
        /\ current_task' = task_queue[1]
        /\ Len(task_queue') = Len(task_queue) - 1
        /\ \A j \in 1..Len(task_queue') : task_queue'[j] = task_queue[j + 1]
    <3>1. task_queue \in Seq(Tasks)
      BY <1>a DEF TypeOK
    <3> QED
      BY <1>14, <3>1 DEF StartTask
  <2>2. /\ UNCHANGED <<admitted, reader_errors, auth_errors, eofs, errors>>
        /\ worker = "evaluate"
    BY <1>14 DEF StartTask
  <2>3. worker' # "finish"
    <3>1. Head(task_queue) \in Tasks
      BY <1>14, <1>a DEF StartTask, TypeOK
    <3> QED
      BY <1>14, <1>a, <3>1 DEF StartTask, FirstStep, Kinds, TypeOK
  <2>4. current_task = 0
    BY <1>14, <1>a DEF StartTask, WorkerTask, TaskPCs
  <2>5. t \in Queued <=> t = current_task' \/ t \in Queued'
    <3>1. ASSUME NEW k \in 1..Len(task_queue)
          PROVE  k = 1 \/ \E j \in 1..Len(task_queue') : task_queue'[j] = task_queue[k]
      <4>1. CASE k # 1
        <5>1. k - 1 \in 1..Len(task_queue') /\ (k - 1) + 1 = k
          BY <1>a, <2>1, <4>1, TypeFacts
        <5> QED
          BY <2>1, <5>1
      <4> QED
        BY <4>1
    <3>2. \A j \in 1..Len(task_queue') : j + 1 \in 1..Len(task_queue)
      BY <1>a, <2>1, TypeFacts
    <3>3. 1 \in 1..Len(task_queue)
      BY <1>a, <2>1, TypeFacts
    <3>4. ASSUME t \in Queued
          PROVE  t = current_task' \/ t \in Queued'
      <4>1. PICK k \in 1..Len(task_queue) : t = task_queue[k]
        BY <3>4 DEF Queued
      <4> QED
        BY <2>1, <3>1, <4>1 DEF Queued
    <3>5. ASSUME t = current_task' \/ t \in Queued'
          PROVE  t \in Queued
      BY <2>1, <3>2, <3>3, <3>5 DEF Queued
    <3> QED
      BY <3>4, <3>5
  <2>6. Pending(t)' <=> Pending(t)
    BY <1>b, <2>3, <2>4, <2>5 DEF Pending
  <2>7. Final(t)' = Final(t)
    BY <2>2 DEF Final
  <2> QED
    BY <1>a, <2>2, <2>6, <2>7, AccountedSame
<1>15. CASE EndTask
  <2>1. /\ UNCHANGED <<admitted, task_queue, current_task, reader_errors, auth_errors>>
        /\ worker # "finish" /\ worker' = "finish"
    BY <1>15 DEF EndTask, SendEof, SendError, TaskUnchanged, TaskPCs
  <2>2. current_task \in Tasks
    BY <1>15, <1>a DEF EndTask, WorkerTask, TypeOK
  <2>3. CASE t = current_task
    <3>1. Pending(t) /\ ~Pending(t)'
      BY <1>e, <2>1, <2>3 DEF Pending, Queued
    <3>2. Final(t)' = Final(t) + 1
      BY <1>15, <1>a, <1>c, <2>1, <2>3 DEF EndTask, SendEof, SendError, Final, TypeOK
    <3>3. t <= admitted
      BY <1>a, <2>3, LiveAdmitted
    <3> QED
      BY <1>a, <1>b, <2>1, <3>1, <3>2, <3>3, AccountedOnce
  <2>4. CASE t # current_task
    <3>1. Pending(t)' <=> Pending(t)
      BY <2>1, <2>4 DEF Pending, Queued
    <3>2. Final(t)' = Final(t)
      BY <1>15, <1>a, <2>1, <2>4 DEF EndTask, SendEof, SendError, Final, TypeOK
    <3> QED
      BY <1>a, <2>1, <3>1, <3>2, AccountedSame
  <2> QED
    BY <2>3, <2>4
<1>16. CASE FinishTask
  <2>1. /\ UNCHANGED <<admitted, task_queue, reader_errors, auth_errors, eofs, errors>>
        /\ worker = "finish" /\ current_task' = 0
    BY <1>16 DEF FinishTask
  <2>2. Pending(t)' <=> Pending(t)
    BY <1>b, <2>1 DEF Pending, Queued
  <2>3. Final(t)' = Final(t)
    BY <2>1 DEF Final
  <2> QED
    BY <1>a, <2>1, <2>2, <2>3, AccountedSame
<1>17. CASE HandleStreamClosed
  <2>1. /\ UNCHANGED <<admitted, current_task, reader_errors, auth_errors, eofs, worker>>
        /\ task_queue' = <<>>
        /\ errors'[t] = IF t \in Queued THEN errors[t] + 1 ELSE errors[t]
    BY <1>17, <1>e DEF HandleStreamClosed
  <2>2. t \notin Queued'
    <3>1. Len(task_queue') = 0
      BY <2>1
    <3> QED
      BY <3>1 DEF Queued
  <2>3. CASE t \in Queued
    <3>1. ~Pending(t)'
      BY <1>e, <2>1, <2>2, <2>3 DEF Pending
    <3>2. Final(t)' = Final(t) + 1
      BY <1>c, <2>1, <2>3 DEF Final
    <3> QED
      BY <1>a, <1>b, <1>d, <2>1, <2>3, <3>1, <3>2, AccountedOnce
  <2>4. CASE t \notin Queued
    <3>1. Pending(t)' <=> Pending(t)
      BY <2>1, <2>2, <2>4 DEF Pending
    <3>2. Final(t)' = Final(t)
      BY <2>1, <2>4 DEF Final
    <3> QED
      BY <1>a, <2>1, <3>1, <3>2, AccountedSame
  <2> QED
    BY <2>3, <2>4
<1> QED
  BY <1>a, <1>1, <1>2, <1>3, <1>4, <1>5, <1>6, <1>7, <1>8, <1>9, <1>10, <1>11, <1>12,
     <1>13, <1>14, <1>15, <1>16, <1>17, StepCases DEF LoudStep, OnAuthStateChanged

----------------------------------------------------------------------------
(* The invariant holds initially.                                           *)
LEMMA InvInit == Init => Inv
<1> SUFFICES ASSUME Init
             PROVE  Inv
  OBVIOUS
<1> USE DEF Init
<1>1. TypeOK
  <2>1. /\ task_queue \in Seq(Tasks)
        /\ tasks \in [OpIds -> Tasks \cup {0}]
        /\ admitted \in 0..MaxTasks
        /\ op_id \in [Tasks -> OpIds \cup {0}]
    OBVIOUS
  <2>2. kind \in [Tasks -> Kinds]
    BY DEF Kinds
  <2>3. cancel_requested \in [Tasks -> BOOLEAN] /\ acked \in [Tasks -> BOOLEAN]
    OBVIOUS
  <2>4. /\ data \in [Tasks -> Nat] /\ eofs \in [Tasks -> Nat] /\ errors \in [Tasks -> Nat]
        /\ reader_errors \in [Tasks -> Nat] /\ auth_errors \in [Tasks -> Nat]
    BY DEF NoErrors
  <2>5. /\ reader \in ReaderPCs /\ worker \in WorkerPCs /\ main \in MainPCs
        /\ start_spec \in StartSpecs /\ start_op \in OpIds \cup {0}
        /\ current_task \in Tasks \cup {0}
    BY DEF ReaderPCs, WorkerPCs, MainPCs, StartSpecs
  <2>6. /\ drain_mode \in BOOLEAN /\ running \in BOOLEAN /\ stop_worker \in BOOLEAN
        /\ should_run \in BOOLEAN /\ try_cancel \in BOOLEAN
    OBVIOUS
  <2>7. active_features \in {RequestedFeatures, RestrictedFeatures}
    OBVIOUS
  <2> HIDE DEF Init
  <2> QED
    BY <2>1, <2>2, <2>3, <2>4, <2>5, <2>6, <2>7 DEF TypeOK
<1>2. Len(task_queue) = 0
  OBVIOUS
<1>3. WorkerTask /\ ReaderState
  BY DEF WorkerTask, TaskPCs, ReaderState
<1>4. Registry /\ RunsInOrder /\ AuthorisedWork
  BY <1>2 DEF Registry, RunsInOrder, AuthorisedWork, CurrentRevoked
<1>5. ASSUME NEW t \in Tasks
      PROVE  AccountedFor(t)
  <2>1. Final(t) = 0
    BY DEF Final, NoErrors
  <2>2. ~(t <= admitted)
    BY TaskNumbers
  <2> QED
    BY <2>1, <2>2 DEF AccountedFor
<1> QED
  BY <1>1, <1>3, <1>4, <1>5 DEF Inv, Accounted

(* Every step keeps the invariant.                                          *)
LEMMA InvNext == Inv /\ [Next]_vars => Inv'
  BY TypeStep, WorkerTaskStep, ReaderStateStep, RegistryStep, RunsInOrderStep,
     AuthorisedWorkStep, AccountedStep DEF Inv

(* The invariant holds of every behaviour of the dispatcher.                *)
THEOREM Invariance == Spec => []Inv
  BY InvInit, InvNext, PTL DEF Spec

(* Type correctness of the dispatcher's state, for any number of op_ids,    *)
(* tasks and chunks.                                                        *)
THEOREM TypeCorrect == Spec => []TypeOK
<1>1. Inv => TypeOK
  BY DEF Inv
<1> QED
  BY <1>1, Invariance, PTL

(* tasks_, task_queue_ and current_task_ always agree.                      *)
THEOREM RegistryIsConsistent == Spec => []RegistryConsistent
<1>1. Inv => RegistryConsistent
  <2> SUFFICES ASSUME Inv
               PROVE  RegistryConsistent
    OBVIOUS
  <2> USE DEF Inv
  <2>1. NotRunning = Queued /\ current_task \notin Queued
    BY NotRunningIsQueued
  <2>2. current_task # 0 => current_task \in Registered
    BY DEF Registry, Registered
  <2>3. Registered = Queued \cup ({current_task} \ {0})
    BY <2>1, <2>2, Zenon DEF NotRunning, Registered
  <2>4. \A o \in OpIds : tasks[o] # 0 => op_id[tasks[o]] = o
    BY DEF Registry
  <2>5. ASSUME NEW i \in 1..Len(task_queue), NEW j \in 1..Len(task_queue), i # j
        PROVE  task_queue[i] # task_queue[j]
    <3>1. i < j \/ j < i
      BY <2>5, TypeFacts
    <3>2. task_queue[i] < task_queue[j] \/ task_queue[j] < task_queue[i]
      BY <3>1 DEF RunsInOrder
    <3> QED
      BY <3>2, TypeFacts
  <2> QED
    BY <2>1, <2>3, <2>4, <2>5 DEF RegistryConsistent
<1> QED
  BY <1>1, Invariance, PTL

(* Operations run in the order in which they were accepted.                 *)
THEOREM RunsInOrderAlways == Spec => []RunsInOrder
<1>1. Inv => RunsInOrder
  BY DEF Inv
<1> QED
  BY <1>1, Invariance, PTL

(* No forbidden operation is queued, and a forbidden running one has been   *)
(* told to stop.                                                            *)
THEOREM OnlyAuthorisedWork == Spec => []AuthorisedWork
<1>1. Inv => AuthorisedWork
  BY DEF Inv
<1> QED
  BY <1>1, Invariance, PTL

(* No accepted operation is ever lost between the four threads.             *)
THEOREM NothingIsLost == Spec => []NeverLost
<1>1. Inv => NeverLost
  <2> SUFFICES ASSUME Inv, NEW t \in 1..admitted
               PROVE  Outcomes(t) >= 1
    BY DEF NeverLost
  <2>1. t \in Tasks /\ t <= admitted
    BY DEF Inv, TypeOK, Tasks
  <2>2. AccountedFor(t)
    BY <2>1 DEF Inv, Accounted
  <2>3. Final(t) \in Nat /\ Outcomes(t) = (IF Pending(t) THEN 1 ELSE 0) + Final(t)
    BY <2>1, FinalFacts DEF Inv, Outcomes, Final
  <2> QED
    BY <2>1, <2>2, <2>3 DEF AccountedFor
<1> QED
  BY <1>1, Invariance, PTL

(* As long as no immediate shutdown is requested, an accepted operation has *)
(* exactly one outcome.                                                     *)
THEOREM OneOutcome == Spec => []ExactlyOneOutcome
<1>1. Inv => ExactlyOneOutcome
  <2> SUFFICES ASSUME Inv, FALSE \notin ShutdownDrains, NEW t \in 1..admitted
               PROVE  Outcomes(t) = 1
    BY DEF ExactlyOneOutcome
  <2>1. t \in Tasks /\ t <= admitted
    BY DEF Inv, TypeOK, Tasks
  <2>2. AccountedFor(t)
    BY <2>1 DEF Inv, Accounted
  <2>3. Final(t) \in Nat /\ Outcomes(t) = (IF Pending(t) THEN 1 ELSE 0) + Final(t)
    BY <2>1, FinalFacts DEF Inv, Outcomes, Final
  <2>4. CASE Pending(t)
    BY <2>2, <2>3, <2>4 DEF AccountedFor
  <2>5. CASE ~Pending(t)
    <3>1. Final(t) = 1
      BY <2>1, <2>2, <2>5, Zenon DEF AccountedFor
    <3> QED
      BY <2>3, <2>5, <3>1
  <2> QED
    BY <2>4, <2>5
<1> QED
  BY <1>1, Invariance, PTL

(* Data and OpEof are sent by tasks only.                                   *)
LEMMA TasksSendData ==
    ASSUME [Next]_vars, ~(UNCHANGED <<data, eofs>>)
    PROVE  TaskStep
<1> USE DEF sentVars
<1>1. ReaderReceives => UNCHANGED <<data, eofs>>
  BY DEF ReaderReceives, HandleStartOp, RejectStartOp, CancelCurrent, CancelQueued,
         CancelIgnored, HandleShutdownDrain, HandleShutdownNow, vars
<1>2. ReaderContinues => UNCHANGED <<data, eofs>>
  BY DEF ReaderContinues, LateRejectStartOp, EnqueueTask, AckStartOp, SendCancelled,
         SendShutdownError, FinishShutdown
<1>3. OnAuthStateChanged \/ SendRevoked => UNCHANGED <<data, eofs>>
  BY DEF OnAuthStateChanged, ApplyFeatureUpdate, SendRevoked, SendUnauthorized
<1>4. IdleWorkerStep => UNCHANGED <<data, eofs>>
  BY IdleWorkerStepCases DEF WorkerGoto
<1>5. StartTask \/ FinishTask => UNCHANGED <<data, eofs>>
  BY DEF StartTask, FinishTask
<1>6. MainStep => UNCHANGED <<data, eofs>>
  BY DEF MainStep, Connect, LeaveStreamLoop, ShutdownWorker, JoinWorker, Destroy, MainGoto
<1>7. HandleStreamClosed \/ RequestStop \/ UNCHANGED vars => UNCHANGED <<data, eofs>>
  BY DEF HandleStreamClosed, RequestStop, vars
<1> QED
  BY <1>1, <1>2, <1>3, <1>4, <1>5, <1>6, <1>7
     DEF Next, WorkerStep, CaptureEnds, Terminated, TaskStep, IdleWorkerStep

(* A step that sends Data or OpEof is one of the running task.              *)
LEMMA DataStep ==
    ASSUME Inv, [Next]_vars, NEW t \in Tasks,
           data'[t] # data[t] \/ eofs'[t] # eofs[t]
    PROVE  t = current_task /\ worker \in TaskPCs
<1> USE DEF sentVars
<1>a. TypeOK /\ WorkerTask
  BY DEF Inv
<1>1. TaskStep
  BY TasksSendData
<1>2. worker \in TaskPCs /\ current_task \in Tasks
  BY <1>a, <1>1, TaskStepCases
<1>3. CASE SendEof
  BY <1>a, <1>2, <1>3 DEF SendEof, TypeOK
<1>4. CASE SendError
  BY <1>4 DEF SendError
<1>5. ASSUME NEW pc \in TaskPCs, WorkerGoto(pc)
      PROVE  FALSE
  BY <1>5 DEF WorkerGoto
<1>6. ASSUME NEW pc \in TaskPCs, SendData(pc)
      PROVE  t = current_task
  BY <1>a, <1>2, <1>6 DEF SendData, TypeOK
<1> QED
  BY <1>a, <1>1, <1>2, <1>3, <1>4, <1>5, <1>6, TaskStepCases

(* Nothing follows the final message of an operation but, after an          *)
(* immediate shutdown, a second OpError.                                    *)
THEOREM SilenceAfterOutcome == Spec => SilentAfterOutcome
<1>1. ASSUME Inv, [Next]_vars, NEW t \in Tasks, Reported(t)
      PROVE  data'[t] = data[t] /\ eofs'[t] = eofs[t]
  <2>1. ASSUME t = current_task, worker \in TaskPCs
        PROVE  FALSE
    <3>1. Pending(t)
      BY <2>1 DEF Pending, TaskPCs
    <3>2. Final(t) = 0
      BY <1>1, <3>1 DEF Inv, Accounted, AccountedFor
    <3>3. TypeOK
      BY <1>1 DEF Inv
    <3> QED
      BY <1>1, <3>2, <3>3, FinalFacts DEF Final, Reported
  <2> QED
    BY <1>1, <2>1, DataStep
<1>2. Inv /\ [Next]_vars
        => [\A t \in Tasks : Reported(t) => data'[t] = data[t] /\ eofs'[t] = eofs[t]]_vars
  BY <1>1
<1> QED
  BY <1>2, Invariance, PTL DEF Spec, SilentAfterOutcome

----------------------------------------------------------------------------
(* How the dispatcher stops.  Tasks enter the queue only through an open    *)
(* stream, and a closed one has emptied it; running_ is cleared, on a       *)
(* stream that was not cancelled, only by a drain that found the queue      *)
(* empty or an immediate shutdown that emptied it, and until that shutdown  *)
(* has cancelled the stream no StartOp can pass its second critical         *)
(* section.                                                                 *)
EndOfWork ==
    /\ reader # "idle" => main = "streaming"
    /\ main # "streaming" => task_queue = <<>>
    /\ drain_mode => reader # "validate"
    /\ worker = "exited" \/ stop_worker \/ main \notin {"connecting", "streaming"}
          => ~running
    /\ ~running /\ main = "streaming" /\ ~try_cancel
          => task_queue = <<>> /\ (drain_mode \/ reader = "shutdown")

(* A step that lets nobody stop and adds nothing to the queue.              *)
LEMMA EndOfWorkSame ==
    ASSUME EndOfWork, UNCHANGED <<main, running, try_cancel>>,
           stop_worker' => stop_worker,
           worker' = "exited" => worker = "exited" \/ ~running,
           task_queue = <<>> => task_queue' = <<>>,
           reader' = reader /\ drain_mode' = drain_mode
    PROVE  EndOfWork'
  BY DEF EndOfWork

(* notify_all does not end the worker.                                      *)
LEMMA NotifiedExit ==
    Notified = "exited" => worker = "exited"
  BY DEF Notified

(* Every step keeps it.                                                     *)
LEMMA EndOfWorkStep ==
    ASSUME Inv, EndOfWork, [Next]_vars
    PROVE  EndOfWork'
<1> USE DEF lifeVars, readerVars
<1>a. TypeOK /\ WorkerTask /\ AuthorisedWork
  BY DEF Inv
<1>1. ASSUME NEW op \in OpIds, NEW spec \in StartSpecs, HandleStartOp(op, spec)
      PROVE  EndOfWork'
  BY <1>1 DEF HandleStartOp, Admissible, ReaderIdle, EndOfWork
<1>2. ASSUME NEW op \in OpIds, CancelCurrent(op)
      PROVE  EndOfWork'
  BY <1>2, EndOfWorkSame DEF CancelCurrent
<1>3. ASSUME NEW op \in OpIds, CancelQueued(op)
      PROVE  EndOfWork'
  <2>1. task_queue # <<>>
    BY <1>3 DEF CancelQueued
  <2>2. main = "streaming" /\ (running \/ try_cancel)
    BY <1>3, <2>1 DEF CancelQueued, ReaderIdle, EndOfWork
  <2> QED
    BY <1>3, <2>2 DEF CancelQueued, EndOfWork
<1>4. CASE HandleShutdownDrain
  BY <1>4 DEF HandleShutdownDrain, Shutdown, ReaderIdle, EndOfWork
<1>5. CASE HandleShutdownNow
  BY <1>5 DEF HandleShutdownNow, Shutdown, ReaderIdle, EndOfWork
<1>6. CASE LateRejectStartOp
  BY <1>6 DEF LateRejectStartOp, EndStartOp, EndOfWork
<1>7. CASE EnqueueTask
  BY <1>7 DEF EnqueueTask, EndOfWork
<1>8. CASE AckStartOp
  BY <1>8, NotifiedExit DEF AckStartOp, EndStartOp, EndOfWork
<1>9. CASE SendCancelled
  BY <1>9 DEF SendCancelled, EndOfWork
<1>10. ASSUME NEW t \in Tasks, SendShutdownError(t)
       PROVE  EndOfWork'
  BY <1>10, EndOfWorkSame DEF SendShutdownError
<1>11. CASE FinishShutdown
  BY <1>11 DEF FinishShutdown, EndOfWork
<1>12. ASSUME NEW toggles \in {RequestedFeatures, RestrictedFeatures},
              ApplyFeatureUpdate(toggles)
       PROVE  EndOfWork'
  <2>1. task_queue' = <<>>
    BY <1>12, <1>a, AllowedPartCases DEF ApplyFeatureUpdate
  <2> QED
    BY <1>12, <2>1, NotifiedExit, EndOfWorkSame DEF ApplyFeatureUpdate
<1>13. ASSUME NEW t \in Tasks, SendUnauthorized(t)
       PROVE  EndOfWork'
  BY <1>13, EndOfWorkSame DEF SendUnauthorized
<1>14. CASE WorkerTop
  BY <1>14, EndOfWorkSame DEF WorkerTop, WorkerGoto
<1>15. CASE WorkerBlock \/ WorkerSleep \/ SpuriousWakeup
  BY <1>15, EndOfWorkSame DEF WorkerBlock, WorkerSleep, SpuriousWakeup, WorkerGoto
<1>16. CASE WorkerExit
  <2>1. ~running
    BY <1>16 DEF WorkerExit, EndOfWork
  <2> QED
    BY <1>16, <2>1, EndOfWorkSame DEF WorkerExit, WorkerGoto
<1>17. CASE StartTask
  <2>1. task_queue # <<>> /\ worker' # "exited"
    <3>1. Head(task_queue) \in Tasks /\ task_queue # <<>>
      BY <1>17, <1>a DEF StartTask, TypeOK
    <3> QED
      BY <1>17, <1>a, <3>1 DEF StartTask, FirstStep, Kinds, TypeOK
  <2> QED
    BY <1>17, <2>1, EndOfWorkSame DEF StartTask
<1>18. CASE FinishTask
  <2>1. running' = (running /\ ~DrainDone) /\ worker' = "top"
    BY <1>18 DEF FinishTask
  <2>2. UNCHANGED <<task_queue, drain_mode, stop_worker, reader, main, try_cancel>>
    BY <1>18 DEF FinishTask
  <2> QED
    BY <2>1, <2>2 DEF DrainDone, EndOfWork
<1>19. CASE TaskStep
  <2>1. worker' # "exited" /\ UNCHANGED <<main, running, try_cancel, stop_worker,
                                          task_queue, reader, drain_mode>>
    BY <1>19, <1>a, TaskStepCases
       DEF SendEof, SendError, WorkerGoto, SendData, TaskUnchanged, TaskPCs
  <2> QED
    BY <2>1, EndOfWorkSame
<1>20. CASE Connect
  BY <1>20 DEF Connect, ShouldContinue, MainGoto, EndOfWork
<1>21. CASE LeaveStreamLoop
  BY <1>21 DEF LeaveStreamLoop, MainGoto, EndOfWork
<1>22. CASE ShutdownWorker
  BY <1>22 DEF ShutdownWorker, MainGoto, EndOfWork
<1>23. CASE JoinWorker
  BY <1>23 DEF JoinWorker, MainGoto, EndOfWork
<1>24. CASE Destroy
  BY <1>24 DEF Destroy, MainGoto, EndOfWork
<1>25. CASE HandleStreamClosed
  BY <1>25 DEF HandleStreamClosed, ReaderIdle, EndOfWork
<1>26. CASE RequestStop
  BY <1>26, EndOfWorkSame DEF RequestStop
<1>27. CASE UNCHANGED vars
  BY <1>27, EndOfWorkSame DEF vars
<1> QED
  BY <1>1, <1>2, <1>3, <1>4, <1>5, <1>6, <1>7, <1>8, <1>9, <1>10, <1>11, <1>12,
     <1>13, <1>14, <1>15, <1>16, <1>17, <1>18, <1>19, <1>20, <1>21, <1>22, <1>23,
     <1>24, <1>25, <1>26, <1>27
     DEF Next, ReaderReceives, RejectStartOp, CancelIgnored, ReaderContinues,
         OnAuthStateChanged, SendRevoked, WorkerStep, CaptureEnds, MainStep,
         Terminated, TaskStep

(* However a stop, a drain, an immediate shutdown, a lost stream and a late *)
(* StartOp fall together, the worker does not exit leaving an accepted      *)
(* operation in a queue nobody will empty.                                  *)
THEOREM NothingIsStranded == Spec => []NoStrandedWork
<1>1. Init => EndOfWork
  BY DEF Init, EndOfWork
<1>2. Inv /\ EndOfWork /\ [Next]_vars => EndOfWork'
  BY EndOfWorkStep
<1>3. EndOfWork => NoStrandedWork
  BY DEF EndOfWork, NoStrandedWork
<1> QED
  BY <1>1, <1>2, <1>3, Invariance, PTL DEF Spec
=============================================================================
