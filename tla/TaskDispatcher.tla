--------------------------- MODULE TaskDispatcher ---------------------------
(***************************************************************************)
(* The operation dispatcher of the agent: ControlCallbackClient, with the  *)
(* three kinds of task it runs.  Four threads share it:                    *)
(*                                                                         *)
(*   reader  the gRPC reaction that handles StartOp, Cancel and Shutdown   *)
(*   auth    the thread that publishes authorization state changes         *)
(*   worker  WorkerLoop, which runs one task at a time                     *)
(*   main    Run, the reconnect loop, and the destructor                   *)
(*                                                                         *)
(* A step is one critical section of mu_, or one message handed to the     *)
(* stream outside it.  Tasks are numbered in the order in which they are   *)
(* pushed into task_queue_; 0 is the null task and the missing op_id.      *)
(* What the stream does with a message it is handed is ControlStream's     *)
(* subject; here a message counts when EnqueueWrite is called.             *)
(***************************************************************************)
EXTENDS Naturals, Sequences

CONSTANTS
    OpIds,              \* op_ids the server uses
    MaxTasks,           \* bound: tasks admitted in one behaviour
    MaxChunks,          \* bound: Data messages of one task
    RequestedFeatures,  \* the configured feature toggles
    LogOptionsValid,    \* do the agent's log options pass LogFilterTask::Validate
    ShutdownDrains      \* values of Shutdown.drain the server sends

Kinds == {"log_filter", "pcap", "exec"}

Features == [enabled : BOOLEAN, kinds : SUBSET Kinds]

ASSUME DispatcherAssumption ==
    /\ OpIds \subseteq Nat \ {0}
    /\ MaxTasks \in Nat
    /\ MaxChunks \in Nat
    /\ RequestedFeatures \in Features
    /\ LogOptionsValid \in BOOLEAN
    /\ ShutdownDrains \subseteq BOOLEAN

Tasks == 1..MaxTasks

VARIABLES
    task_queue,         \* task_queue_
    tasks,              \* tasks_, by op_id
    current_task,       \* current_task_
    drain_mode,         \* drain_mode_
    running,            \* running_
    stop_worker,        \* stop_worker_
    active_features,    \* active_features_
    should_run,         \* options_.should_run: g_running of the process
    admitted,           \* number of tasks admitted so far
    op_id,              \* op_id_ of each task, 0 before it is admitted
    kind,               \* kind_ of each task
    cancel_requested,   \* cancel_requested_ of each task
    acked,              \* was Ack(accepted) sent for the task
    data,               \* Data messages sent for the task
    eofs,               \* OpEof messages sent for the task
    errors,             \* OpError messages sent for the task
    reader,             \* program counter of the reader
    start_op,           \* op_id of the StartOp being handled
    start_spec,         \* its spec
    reader_errors,      \* cancelled_ops: OpErrors the reader still has to send
    auth_errors,        \* to_error: OpErrors the auth thread still has to send
    worker,             \* program counter of the worker
    main,               \* program counter of the main thread
    try_cancel          \* was TryCancel called on the current stream

taskVars == <<op_id, kind, admitted>>
sentVars == <<acked, data, eofs, errors>>
readerVars == <<reader, start_op, start_spec, reader_errors>>
lifeVars == <<drain_mode, running, stop_worker, should_run>>
vars == <<task_queue, tasks, current_task, lifeVars, active_features, taskVars,
          cancel_requested, sentVars, readerVars, auth_errors, worker, main,
          try_cancel>>

----------------------------------------------------------------------------
(* StartOp carries one of these specs; "unset" is a StartOp without a spec  *)
(* the agent knows, "exec_unsupported" an ExecSpec with another command.    *)
StartSpecs == Kinds \cup {"exec_unsupported", "unset"}

SpecKind(spec) == IF spec = "exec_unsupported" THEN "exec" ELSE spec

RestrictedFeatures == [enabled |-> FALSE, kinds |-> {}]

IsTaskAllowed(toggles, k) == toggles.enabled /\ k \in toggles.kinds

ValidateLogFilter(spec) == spec = "log_filter" => LogOptionsValid

ValidateExec(spec) == spec # "exec_unsupported"

(* Task::Validate; a PcapTask accepts every spec.                           *)
Validate(spec) == ValidateLogFilter(spec) /\ ValidateExec(spec)

ReaderPCs == {"idle", "validate", "ack", "cancelled", "shutdown"}
TaskPCs == {"log_filter", "log_stream", "pcap_capture", "pcap_check", "pcap_read",
            "pcap_eof", "exec", "exec_send", "exec_eof"}
WorkerPCs == TaskPCs \cup {"top", "evaluate", "blocking", "waiting", "finish", "exited"}
MainPCs == {"connecting", "streaming", "stopping", "joining", "returned", "destroyed"}

(* The step at which Task::Run begins.                                      *)
FirstStep == [k \in Kinds |-> CASE k = "log_filter" -> "log_filter"
                                [] k = "pcap" -> "pcap_capture"
                                [] k = "exec" -> "exec"]

NoErrors == [t \in Tasks |-> 0]

(* Faulty variant: the entry of the running task is not skipped.            *)
AllRegistered == {tasks[o] : o \in OpIds} \ {0}

Queued == {task_queue[i] : i \in 1..Len(task_queue)}
Registered == {tasks[o] : o \in OpIds} \ {0}

(* What CancelAllLocked and an immediate shutdown take out of tasks_.       *)
NotRunning == Registered \ {current_task}

(* Faulty variant: flags are changed without taking mu_.                    *)
MuIgnored == TRUE

(* mu_ is held across steps only while the worker, having found the wait    *)
(* predicate false, is about to block; every other section is one step.     *)
MuFree == worker # "blocking"

(* Faulty variant: a missing notify_all.                                    *)
NotNotified == worker

(* notify_all reaches the worker only when it is already blocked.           *)
Notified == IF worker = "waiting" THEN "evaluate" ELSE worker

ShouldContinue == running /\ should_run

(* tasks_ without the entries that hold one of the tasks in S.              *)
Unregister(S) == [o \in OpIds |-> IF tasks[o] \in S THEN 0 ELSE tasks[o]]

(* Faulty variant: erase by moving the last task into the gap.              *)
SwapErase(q, i) == [j \in 1..(Len(q) - 1) |-> IF j = i THEN q[Len(q)] ELSE q[j]]

EraseAt(q, i) == [j \in 1..(Len(q) - 1) |-> IF j < i THEN q[j] ELSE q[j + 1]]

SelectAllowed(q, toggles) ==
    LET Allowed(t) == IsTaskAllowed(toggles, kind[t]) IN SelectSeq(q, Allowed)

(* The queue without the tasks the toggles forbid.  SelectAllowed states    *)
(* it; its values where nothing or everything is removed are given apart,   *)
(* so that proofs need no induction on sequences.                           *)
AllowedPart(q, toggles) ==
    IF \A i \in 1..Len(q) : IsTaskAllowed(toggles, kind[q[i]]) THEN q
    ELSE IF \A i \in 1..Len(q) : ~IsTaskAllowed(toggles, kind[q[i]]) THEN <<>>
    ELSE SelectAllowed(q, toggles)

Init ==
    /\ task_queue = <<>>
    /\ tasks = [o \in OpIds |-> 0]
    /\ current_task = 0
    /\ drain_mode = FALSE
    /\ running = TRUE
    /\ stop_worker = FALSE
    /\ active_features \in {RequestedFeatures, RestrictedFeatures}
    /\ should_run = TRUE
    /\ admitted = 0
    /\ op_id = [t \in Tasks |-> 0]
    /\ kind = [t \in Tasks |-> "exec"]
    /\ cancel_requested = [t \in Tasks |-> FALSE]
    /\ acked = [t \in Tasks |-> FALSE]
    /\ data = [t \in Tasks |-> 0]
    /\ eofs = [t \in Tasks |-> 0]
    /\ errors = [t \in Tasks |-> 0]
    /\ reader = "idle"
    /\ start_op = 0
    /\ start_spec = "unset"
    /\ reader_errors = NoErrors
    /\ auth_errors = NoErrors
    /\ worker = "top"
    /\ main = "connecting"
    /\ try_cancel = FALSE

----------------------------------------------------------------------------
(* The reader: HandleStreamMessage.  Messages arrive while the stream is    *)
(* open, also after TryCancel until the call has ended.                     *)

ReaderIdle == main = "streaming" /\ reader = "idle"

(* Faulty variant: the duplicate check is missing.                          *)
AdmissibleDuplicate(op, spec) ==
    /\ op # 0
    /\ ~drain_mode
    /\ active_features.enabled
    /\ SpecKind(spec) \in RequestedFeatures.kinds \cap active_features.kinds

(* The checks of HandleStartOp's first critical section.                    *)
Admissible(op, spec) ==
    /\ op # 0
    /\ ~drain_mode
    /\ tasks[op] = 0
    /\ active_features.enabled
    /\ SpecKind(spec) \in RequestedFeatures.kinds \cap active_features.kinds

HandleStartOp(op, spec) ==
    /\ ReaderIdle
    /\ MuFree
    /\ Admissible(op, spec)
    /\ admitted < MaxTasks
    /\ reader' = "validate"
    /\ start_op' = op
    /\ start_spec' = spec
    /\ UNCHANGED <<task_queue, tasks, current_task, lifeVars, active_features,
                   taskVars, cancel_requested, sentVars, reader_errors,
                   auth_errors, worker, main, try_cancel>>

(* Ack(accepted = false) carries no task: nothing the dispatcher keeps      *)
(* changes.                                                                 *)
RejectStartOp(op, spec) ==
    /\ ReaderIdle
    /\ MuFree
    /\ ~Admissible(op, spec)
    /\ UNCHANGED vars

EndStartOp ==
    /\ reader' = "idle"
    /\ start_op' = 0
    /\ start_spec' = "unset"

(* Faulty variant: the features are not looked at again.                    *)
AssumedAllowed == TRUE

StillAllowed == IsTaskAllowed(active_features, SpecKind(start_spec))

(* Validate fails, or the second critical section finds that the features   *)
(* were withdrawn in between.                                               *)
LateRejectStartOp ==
    /\ reader = "validate"
    /\ MuFree
    /\ ~Validate(start_spec) \/ ~StillAllowed
    /\ EndStartOp
    /\ UNCHANGED <<task_queue, tasks, current_task, lifeVars, active_features,
                   taskVars, cancel_requested, sentVars, reader_errors,
                   auth_errors, worker, main, try_cancel>>

EnqueueTask ==
    /\ reader = "validate"
    /\ MuFree
    /\ Validate(start_spec)
    /\ StillAllowed
    /\ admitted' = admitted + 1
    /\ op_id' = [op_id EXCEPT ![admitted'] = start_op]
    /\ kind' = [kind EXCEPT ![admitted'] = SpecKind(start_spec)]
    /\ tasks' = [tasks EXCEPT ![start_op] = admitted']
    /\ task_queue' = Append(task_queue, admitted')
    /\ reader' = "ack"
    /\ UNCHANGED <<current_task, lifeVars, active_features, cancel_requested,
                   sentVars, start_op, start_spec, reader_errors, auth_errors,
                   worker, main, try_cancel>>

(* SendAck(op_id, true) and notify_all, both after mu_ is released; the     *)
(* task is the last one admitted, since only the reader admits tasks.       *)
AckStartOp ==
    /\ reader = "ack"
    /\ acked' = [acked EXCEPT ![admitted] = TRUE]
    /\ worker' = Notified
    /\ EndStartOp
    /\ UNCHANGED <<task_queue, tasks, current_task, lifeVars, active_features,
                   taskVars, cancel_requested, data, eofs, errors,
                   reader_errors, auth_errors, main, try_cancel>>

(* HandleCancel of the running task only sets its flag.                     *)
CancelCurrent(op) ==
    /\ ReaderIdle
    /\ MuFree
    /\ tasks[op] # 0
    /\ tasks[op] = current_task
    /\ cancel_requested' = [cancel_requested EXCEPT ![current_task] = TRUE]
    /\ UNCHANGED <<task_queue, tasks, current_task, lifeVars, active_features,
                   taskVars, sentVars, readerVars, auth_errors, worker, main,
                   try_cancel>>

(* HandleCancel of a queued task removes it; the error follows outside mu_. *)
CancelQueued(op) ==
    /\ ReaderIdle
    /\ MuFree
    /\ tasks[op] # 0
    /\ tasks[op] # current_task
    /\ \E i \in 1..Len(task_queue) :
          /\ task_queue[i] = tasks[op]
          /\ \A j \in 1..(i - 1) : task_queue[j] # tasks[op]
          /\ task_queue' = EraseAt(task_queue, i)
    /\ tasks' = [tasks EXCEPT ![op] = 0]
    /\ reader_errors' = [reader_errors EXCEPT ![tasks[op]] = 1]
    /\ reader' = "cancelled"
    /\ UNCHANGED <<current_task, lifeVars, active_features, taskVars,
                   cancel_requested, sentVars, start_op, start_spec,
                   auth_errors, worker, main, try_cancel>>

(* An unknown op_id, or one that is neither running nor queued.             *)
CancelIgnored(op) ==
    /\ ReaderIdle
    /\ MuFree
    /\ tasks[op] = 0 \/ tasks[op] \notin Queued \cup {current_task}
    /\ UNCHANGED vars

SendCancelled ==
    /\ reader = "cancelled"
    /\ \E t \in Tasks :
          /\ reader_errors[t] > 0
          /\ cancel_requested' = [cancel_requested EXCEPT ![t] = TRUE]
          /\ errors' = [errors EXCEPT ![t] = @ + 1]
    /\ reader_errors' = NoErrors
    /\ reader' = "idle"
    /\ UNCHANGED <<task_queue, tasks, current_task, lifeVars, active_features,
                   taskVars, acked, data, eofs, start_op, start_spec,
                   auth_errors, worker, main, try_cancel>>

Shutdown(drain) ==
    /\ drain \in ShutdownDrains
    /\ ReaderIdle
    /\ MuFree
    /\ drain_mode' = drain

HandleShutdownDrain ==
    /\ Shutdown(TRUE)
    /\ UNCHANGED <<task_queue, tasks, current_task, running, stop_worker,
                   should_run, active_features, taskVars, cancel_requested,
                   sentVars, readerVars, auth_errors, worker, main, try_cancel>>

(* cancelled_ops of an immediate shutdown: the loop over task_queue_ adds   *)
(* every queued task, and since the loop over tasks_ still finds them there *)
(* it adds them a second time.                                              *)
ShutdownErrors ==
    [t \in Tasks |-> (IF t \in Queued THEN 1 ELSE 0)
                     + (IF t \in NotRunning THEN 1 ELSE 0)]

HandleShutdownNow ==
    /\ Shutdown(FALSE)
    /\ cancel_requested' = [t \in Tasks |->
           cancel_requested[t] \/ t = current_task \/ t \in Queued \cup Registered]
    /\ reader_errors' = ShutdownErrors
    /\ task_queue' = <<>>
    /\ tasks' = Unregister(NotRunning)
    /\ reader' = "shutdown"
    /\ UNCHANGED <<current_task, running, stop_worker, should_run,
                   active_features, taskVars, sentVars, start_op, start_spec,
                   auth_errors, worker, main, try_cancel>>

(* Faulty variant: an off-by-one in the loop over cancelled_ops.            *)
SendOneErrorTooMany(t) ==
    /\ reader = "shutdown"
    /\ reader_errors[t] >= 0
    /\ reader_errors' = [reader_errors EXCEPT ![t] = @ - 1]
    /\ errors' = [errors EXCEPT ![t] = @ + 1]
    /\ UNCHANGED <<task_queue, tasks, current_task, lifeVars, active_features,
                   taskVars, cancel_requested, acked, data, eofs, reader,
                   start_op, start_spec, auth_errors, worker, main, try_cancel>>

SendShutdownError(t) ==
    /\ reader = "shutdown"
    /\ reader_errors[t] > 0
    /\ reader_errors' = [reader_errors EXCEPT ![t] = @ - 1]
    /\ errors' = [errors EXCEPT ![t] = @ + 1]
    /\ UNCHANGED <<task_queue, tasks, current_task, lifeVars, active_features,
                   taskVars, cancel_requested, acked, data, eofs, reader,
                   start_op, start_spec, auth_errors, worker, main, try_cancel>>

(* CancelStream, running_ = false and notify_all, none of them under mu_.   *)
(* They are one step: main sleeps until the call has ended, which waits for *)
(* this reaction to return.                                                 *)
FinishShutdown ==
    /\ reader = "shutdown"
    /\ reader_errors = NoErrors
    /\ try_cancel' = TRUE
    /\ running' = FALSE
    /\ worker' = Notified
    /\ reader' = "idle"
    /\ UNCHANGED <<task_queue, tasks, current_task, drain_mode, stop_worker,
                   should_run, active_features, taskVars, cancel_requested,
                   sentVars, start_op, start_spec, reader_errors, auth_errors,
                   main>>

----------------------------------------------------------------------------
(* The auth thread: OnAuthStateChanged.  The event bus dispatches under its *)
(* own mutex, so one update ends before the next begins.                    *)

(* Faulty variants: the loop over task_queue_ does not add to to_error; the *)
(* loop over tasks_ does not spare the running task.                        *)
RevokedUnqueued(toggles) ==
    {t \in Registered \ Queued :
        ~IsTaskAllowed(toggles, kind[t]) /\ t # current_task}

RevokedRunning(toggles) ==
    {t \in Queued \cup Registered : ~IsTaskAllowed(toggles, kind[t])}

(* to_error: queued tasks the toggles forbid, then registered ones that are *)
(* neither queued nor running.                                              *)
Revoked(toggles) ==
    {t \in Queued \cup Registered :
        /\ ~IsTaskAllowed(toggles, kind[t])
        /\ t \in Queued \/ t # current_task}

CurrentRevoked(toggles) ==
    current_task # 0 /\ ~IsTaskAllowed(toggles, kind[current_task])

ApplyFeatureUpdate(toggles) ==
    /\ main # "destroyed"
    /\ auth_errors = NoErrors
    /\ MuFree
    /\ toggles # active_features
    /\ active_features' = toggles
    /\ task_queue' = AllowedPart(task_queue, toggles)
    /\ tasks' = Unregister(Revoked(toggles))
    /\ auth_errors' = [t \in Tasks |-> IF t \in Revoked(toggles) THEN 1 ELSE 0]
    /\ cancel_requested' = [t \in Tasks |->
           cancel_requested[t] \/ (t = current_task /\ CurrentRevoked(toggles))]
    /\ worker' = IF Revoked(toggles) # {} \/ CurrentRevoked(toggles)
                 THEN Notified ELSE worker
    /\ UNCHANGED <<current_task, lifeVars, taskVars, sentVars, readerVars, main,
                   try_cancel>>

OnAuthStateChanged ==
    \/ ApplyFeatureUpdate(RequestedFeatures)
    \/ ApplyFeatureUpdate(RestrictedFeatures)

SendUnauthorized(t) ==
    /\ auth_errors[t] > 0
    /\ auth_errors' = [auth_errors EXCEPT ![t] = @ - 1]
    /\ errors' = [errors EXCEPT ![t] = @ + 1]
    /\ UNCHANGED <<task_queue, tasks, current_task, lifeVars, active_features,
                   taskVars, cancel_requested, acked, data, eofs, readerVars,
                   worker, main, try_cancel>>

----------------------------------------------------------------------------
(* The worker: WorkerLoop.                                                  *)

WorkerGoto(pc) ==
    /\ worker' = pc
    /\ UNCHANGED <<task_queue, tasks, current_task, lifeVars, active_features,
                   taskVars, cancel_requested, sentVars, readerVars,
                   auth_errors, main, try_cancel>>

WorkerTop == worker = "top" /\ WorkerGoto(IF running THEN "evaluate" ELSE "exited")

WaitPredicate == stop_worker \/ ~running \/ task_queue # <<>>

WorkerBlock == worker = "evaluate" /\ ~WaitPredicate /\ WorkerGoto("blocking")

WorkerSleep == worker = "blocking" /\ WorkerGoto("waiting")

SpuriousWakeup == worker = "waiting" /\ WorkerGoto("evaluate")

WorkerExit ==
    /\ worker = "evaluate"
    /\ stop_worker \/ ~running
    /\ task_queue = <<>>
    /\ WorkerGoto("exited")

StartTask ==
    /\ worker = "evaluate"
    /\ task_queue # <<>>
    /\ current_task' = Head(task_queue)
    /\ task_queue' = Tail(task_queue)
    /\ worker' = FirstStep[kind[Head(task_queue)]]
    /\ UNCHANGED <<tasks, lifeVars, active_features, taskVars, cancel_requested,
                   sentVars, readerVars, auth_errors, main, try_cancel>>

(* Faulty variant: a drain is over as soon as a task ends.                  *)
DrainCutShort == drain_mode

DrainDone == drain_mode /\ task_queue = <<>>

FinishTask ==
    /\ worker = "finish"
    /\ tasks' = [tasks EXCEPT ![op_id[current_task]] = 0]
    /\ current_task' = 0
    /\ running' = (running /\ ~DrainDone)
    /\ worker' = "top"
    /\ UNCHANGED <<task_queue, drain_mode, stop_worker, should_run,
                   active_features, taskVars, cancel_requested, sentVars,
                   readerVars, auth_errors, main, try_cancel>>

(* The messages of the running task.                                        *)
TaskUnchanged ==
    UNCHANGED <<task_queue, tasks, current_task, lifeVars, active_features,
                taskVars, cancel_requested, acked, readerVars, auth_errors,
                main, try_cancel>>

SendData(next) ==
    /\ data[current_task] < MaxChunks
    /\ data' = [data EXCEPT ![current_task] = @ + 1]
    /\ worker' = next
    /\ UNCHANGED <<eofs, errors>>
    /\ TaskUnchanged

SendEof ==
    /\ eofs' = [eofs EXCEPT ![current_task] = @ + 1]
    /\ worker' = "finish"
    /\ UNCHANGED <<data, errors>>
    /\ TaskUnchanged

SendError ==
    /\ errors' = [errors EXCEPT ![current_task] = @ + 1]
    /\ worker' = "finish"
    /\ UNCHANGED <<data, eofs>>
    /\ TaskUnchanged

(* Faulty variant: the task's own flag is not looked at.                    *)
IgnoresCancel == ~ShouldContinue

ShouldStop == cancel_requested[current_task] \/ ~ShouldContinue

(* LogFilterTask::Run: filter into a temporary file, then upload it.  It    *)
(* never looks at cancel_requested_ or at ShouldContinue.                   *)
LogFilter ==
    /\ worker = "log_filter"
    /\ SendError \/ WorkerGoto("log_stream")

LogChunk == worker = "log_stream" /\ SendData("log_stream")

LogEof == worker = "log_stream" /\ SendEof

(* PcapTask::Run.  The capture ends when should_stop is seen, on an error,  *)
(* or at its packet limit, deadline or end of file.                         *)
PcapStopped == worker = "pcap_capture" /\ ShouldStop /\ SendError

PcapFailed == worker = "pcap_capture" /\ SendError

PcapCaptured == worker = "pcap_capture" /\ WorkerGoto("pcap_check")

(* StreamFile looks at should_stop before each read; the chunk follows in a *)
(* step of its own.  The file holds at least the pcap header.               *)
PcapCheck ==
    /\ worker = "pcap_check"
    /\ \/ ShouldStop /\ SendError
       \/ ~ShouldStop /\ WorkerGoto("pcap_read")

PcapChunk ==
    /\ worker = "pcap_read"
    /\ \E next \in {"pcap_check", "pcap_eof"} : SendData(next)

PcapEof ==
    /\ \/ worker = "pcap_eof"
       \/ worker = "pcap_read" /\ data[current_task] > 0
    /\ SendEof

(* ExecTask::Run: getifaddrs may fail; cancellation is looked at once.      *)
ExecCollect ==
    /\ worker = "exec"
    /\ \/ SendError
       \/ ~ShouldStop /\ WorkerGoto("exec_send")

ExecChunk == worker = "exec_send" /\ SendData("exec_eof")

ExecEof == worker = "exec_eof" /\ SendEof

----------------------------------------------------------------------------
(* The main thread: Run, ControlStreamClient::Run, Stop; and the process.   *)

MainGoto(pc) ==
    /\ main' = pc
    /\ UNCHANGED <<task_queue, tasks, current_task, drain_mode, should_run,
                   active_features, taskVars, cancel_requested, sentVars,
                   readerVars, auth_errors, try_cancel>>

Connect ==
    /\ main = "connecting"
    /\ ShouldContinue
    /\ MainGoto("streaming")
    /\ UNCHANGED <<running, stop_worker, worker>>

(* The call has ended: HandleStreamClosed, that is CancelAllLocked, which   *)
(* sends its errors while it holds mu_.  It runs after every other reaction *)
(* of the stream.                                                           *)
HandleStreamClosed ==
    /\ ReaderIdle
    /\ MuFree
    /\ cancel_requested' = [t \in Tasks |-> cancel_requested[t] \/ t \in Registered]
    /\ errors' = [t \in Tasks |->
           IF t \in NotRunning THEN errors[t] + 1 ELSE errors[t]]
    /\ tasks' = Unregister(NotRunning)
    /\ task_queue' = <<>>
    /\ main' = "connecting"
    /\ try_cancel' = FALSE
    /\ UNCHANGED <<current_task, lifeVars, active_features, taskVars, acked,
                   data, eofs, readerVars, auth_errors, worker>>

(* ControlStreamClient::Run returns and Run clears running_.                *)
LeaveStreamLoop ==
    /\ main = "connecting"
    /\ ~ShouldContinue
    /\ running' = FALSE
    /\ MainGoto("stopping")
    /\ UNCHANGED <<stop_worker, worker>>

ShutdownWorker ==
    /\ main = "stopping"
    /\ MuFree
    /\ stop_worker' = TRUE
    /\ worker' = Notified
    /\ MainGoto("joining")
    /\ UNCHANGED running

JoinWorker ==
    /\ main = "joining"
    /\ worker = "exited"
    /\ stop_worker' = FALSE
    /\ MainGoto("returned")
    /\ UNCHANGED <<running, worker>>

(* ~ControlCallbackClient: Unsubscribe waits for a dispatch in progress.    *)
Destroy ==
    /\ main = "returned"
    /\ auth_errors = NoErrors
    /\ MainGoto("destroyed")
    /\ UNCHANGED <<running, stop_worker, worker>>

(* SIGINT or SIGTERM.                                                       *)
RequestStop ==
    /\ should_run
    /\ should_run' = FALSE
    /\ UNCHANGED <<task_queue, tasks, current_task, drain_mode, running,
                   stop_worker, active_features, taskVars, cancel_requested,
                   sentVars, readerVars, auth_errors, worker, main, try_cancel>>

Terminated == main = "destroyed" /\ UNCHANGED vars

----------------------------------------------------------------------------
ReaderReceives ==
    \/ \E op \in OpIds, spec \in StartSpecs : HandleStartOp(op, spec)
    \/ \E op \in OpIds \cup {0}, spec \in StartSpecs : RejectStartOp(op, spec)
    \/ \E op \in OpIds : CancelCurrent(op)
    \/ \E op \in OpIds : CancelQueued(op)
    \/ \E op \in OpIds : CancelIgnored(op)
    \/ HandleShutdownDrain
    \/ HandleShutdownNow

ReaderContinues ==
    \/ LateRejectStartOp
    \/ EnqueueTask
    \/ AckStartOp
    \/ SendCancelled
    \/ \E t \in Tasks : SendShutdownError(t)
    \/ FinishShutdown

SendRevoked == \E t \in Tasks : SendUnauthorized(t)

WorkerStep ==
    \/ WorkerTop
    \/ WorkerBlock
    \/ WorkerSleep
    \/ WorkerExit
    \/ StartTask
    \/ FinishTask
    \/ LogFilter
    \/ LogChunk
    \/ LogEof
    \/ PcapStopped
    \/ PcapCheck
    \/ PcapChunk
    \/ PcapEof
    \/ ExecCollect
    \/ ExecChunk
    \/ ExecEof

(* A capture that ends by itself.                                           *)
CaptureEnds == PcapFailed \/ PcapCaptured

MainStep ==
    \/ Connect
    \/ LeaveStreamLoop
    \/ ShutdownWorker
    \/ JoinWorker
    \/ Destroy

Next ==
    \/ ReaderReceives
    \/ ReaderContinues
    \/ OnAuthStateChanged
    \/ SendRevoked
    \/ WorkerStep
    \/ SpuriousWakeup
    \/ CaptureEnds
    \/ MainStep
    \/ HandleStreamClosed
    \/ RequestStop
    \/ Terminated

Spec == Init /\ [][Next]_vars

(* Every thread that can take a step takes it.  Strong fairness stands for  *)
(* mu_, which the worker may take and release between two attempts of       *)
(* another thread.  A call on which TryCancel was called ends; otherwise    *)
(* the peer owes nothing: no message, no end of the stream, no signal, no   *)
(* authorization change, and no end of a capture, need ever happen.         *)
Fairness ==
    /\ WF_vars(WorkerStep)
    /\ SF_vars(ReaderContinues)
    /\ WF_vars(SendRevoked)
    /\ SF_vars(MainStep)
    /\ SF_vars(try_cancel /\ HandleStreamClosed)

FairSpec == Spec /\ Fairness

(* As FairSpec, where every capture has a packet limit or a duration.       *)
BoundedCaptureSpec == FairSpec /\ WF_vars(CaptureEnds)
----------------------------------------------------------------------------
(* Types, and the counters of a task stay within what the code can send.    *)
TypeOK ==
    /\ task_queue \in Seq(Tasks)
    /\ tasks \in [OpIds -> Tasks \cup {0}]
    /\ current_task \in Tasks \cup {0}
    /\ drain_mode \in BOOLEAN
    /\ running \in BOOLEAN
    /\ stop_worker \in BOOLEAN
    /\ active_features \in {RequestedFeatures, RestrictedFeatures}
    /\ should_run \in BOOLEAN
    /\ admitted \in 0..MaxTasks
    /\ op_id \in [Tasks -> OpIds \cup {0}]
    /\ kind \in [Tasks -> Kinds]
    /\ cancel_requested \in [Tasks -> BOOLEAN]
    /\ acked \in [Tasks -> BOOLEAN]
    /\ data \in [Tasks -> Nat]
    /\ eofs \in [Tasks -> Nat]
    /\ errors \in [Tasks -> Nat]
    /\ reader \in ReaderPCs
    /\ start_op \in OpIds \cup {0}
    /\ start_spec \in StartSpecs
    /\ reader_errors \in [Tasks -> Nat]
    /\ auth_errors \in [Tasks -> Nat]
    /\ worker \in WorkerPCs
    /\ main \in MainPCs
    /\ try_cancel \in BOOLEAN

(* tasks_, task_queue_ and current_task_ agree whenever mu_ is free: tasks_ *)
(* holds exactly the queued tasks and the running one, each under its own   *)
(* op_id, and no task is both.  FinishTask erases by op_id and HandleCancel *)
(* looks a task up by op_id, so an entry that names another task would make *)
(* one operation end, or cancel, another.                                   *)
RegistryConsistent ==
    /\ Registered = Queued \cup ({current_task} \ {0})
    /\ current_task \notin Queued
    /\ \A o \in OpIds : tasks[o] # 0 => op_id[tasks[o]] = o
    /\ \A i, j \in 1..Len(task_queue) : i # j => task_queue[i] # task_queue[j]

(* The worker runs tasks in the order in which their StartOps were          *)
(* accepted, whatever is cancelled or revoked in between: the queue is in   *)
(* admission order and everything in it came after the running task.        *)
RunsInOrder ==
    /\ \A i, j \in 1..Len(task_queue) : i < j => task_queue[i] < task_queue[j]
    /\ \A i \in 1..Len(task_queue) : current_task < task_queue[i]

(* No forbidden operation waits in the queue, and a running one that has    *)
(* become forbidden has been told to stop.  A StartOp is validated outside  *)
(* mu_, so a revocation between the two critical sections of HandleStartOp  *)
(* must not let the task in.                                                *)
AuthorisedWork ==
    /\ \A i \in 1..Len(task_queue) : IsTaskAllowed(active_features, kind[task_queue[i]])
    /\ CurrentRevoked(active_features) => cancel_requested[current_task]

(* How many final messages a task has led to or still can: one for being    *)
(* queued or running, and those owed by the reader, owed by the auth        *)
(* thread, and already sent.                                                *)
Pending(t) == t \in Queued \/ (t = current_task /\ worker # "finish")

Outcomes(t) ==
    (IF Pending(t) THEN 1 ELSE 0)
    + reader_errors[t] + auth_errors[t] + eofs[t] + errors[t]

Reported(t) == eofs[t] + errors[t] > 0

(* An accepted operation is never lost: whichever of the four threads takes *)
(* it out of the queue, it is pending or its final message is owed or sent. *)
NeverLost == \A t \in 1..admitted : Outcomes(t) >= 1

(* An accepted operation gets exactly one OpEof or OpError, unless the      *)
(* server asks for an immediate shutdown.                                   *)
ExactlyOneOutcome ==
    FALSE \notin ShutdownDrains => \A t \in 1..admitted : Outcomes(t) = 1

(* An operation gets at most one final message.  os.proto gives the         *)
(* lifecycle of an operation as Ack, then Data, then one Eof or Error.      *)
AtMostOneTerminal == \A t \in Tasks : eofs[t] + errors[t] <= 1

(* The worker never leaves accepted operations in the queue unless an       *)
(* immediate shutdown has already cancelled the stream, whose end reports   *)
(* them.                                                                    *)
NoStrandedWork == worker = "exited" /\ task_queue # <<>> => try_cancel

(* Once a final message about an operation was sent, no Data and no OpEof   *)
(* of it follows, although the threads that send errors and the worker that *)
(* sends the rest do so without a common lock.                              *)
SilentAfterOutcome ==
    [][\A t \in Tasks : Reported(t) => data'[t] = data[t] /\ eofs'[t] = eofs[t]]_vars

(* OperationLifecycle's view of a task.                                     *)
StageOf(t) ==
    CASE t > admitted -> "none"
      [] t <= admitted /\ t \in Queued -> "queued"
      [] t <= admitted /\ t \notin Queued /\ Pending(t) -> "running"
      [] t <= admitted /\ ~Pending(t) /\ ~Reported(t) -> "withdrawn"
      [] t <= admitted /\ ~Pending(t) /\ Reported(t) -> "ended"

OpStatus == [t \in Tasks |-> StageOf(t)]

Lifecycle == INSTANCE OperationLifecycle WITH status <- OpStatus

(* The dispatcher implements OperationLifecycle: one operation at a time,   *)
(* in the order of acceptance, Data only while it runs, one final message,  *)
(* whichever of the threads takes it out of the queue.  An immediate        *)
(* shutdown breaks it, since it reports queued operations twice.            *)
SerialLifecycle == Lifecycle!Spec

(* Every accepted operation is eventually reported, unless the worker stays *)
(* in a capture that has no limit for ever: no wakeup of the worker is lost *)
(* for good, and no operation is forgotten by a closed stream.              *)
AcceptedIsReported ==
    \/ \A t \in Tasks : op_id[t] # 0 ~> Reported(t)
    \/ <>[](worker = "pcap_capture")

(* A task whose cancellation was requested is eventually reported, even if  *)
(* it is a capture without a limit.                                         *)
CancelledIsReported == \A t \in Tasks : cancel_requested[t] ~> Reported(t)

(* An immediate shutdown ends the client, also when its notify_all, sent    *)
(* without mu_, is lost.                                                    *)
ShutdownNowTerminates == reader = "shutdown" ~> main = "destroyed"

(* After SIGTERM the client ends once it is not connected.                  *)
StopTerminates == ~should_run /\ main # "streaming" ~> main = "destroyed"

(* os.proto: a shutdown with drain = true exits once all operations are     *)
(* done.                                                                    *)
DrainTerminates == drain_mode ~> main = "destroyed"
=============================================================================
