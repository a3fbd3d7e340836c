# A TLA+ development for the zurg agent

This directory holds TLA+ models of the zurg agent, TLC configurations that
check them on small instances, and proofs checked by TLAPS. `PROJECT.json` maps
every definition to the lines it models and lists runs, mutants, findings,
hazards and theorems.

## The system

The agent keeps one bidirectional gRPC stream to a server (`Control.Connect` in
`third_party/os.proto`). The server starts operations (`StartOp`), cancels them
(`CancelOp`), pings, and shuts the agent down (`Shutdown`); the agent answers
with `OpAck`, `OpData`, `OpEof` and `OpError`. A second connection tells the
agent whether it is authorized; without authorization its features are off.

| Component | State it keeps | Operations | Talks to |
|---|---|---|---|
| Operation dispatcher, `ControlCallbackClient` | `task_queue_`, `tasks_`, `current_task_`, `drain_mode_`, `running_`, `stop_worker_`, `active_features_` | `HandleStartOp`, `HandleCancel`, `HandleShutdown`, `HandleStreamClosed`, `OnAuthStateChanged`, `WorkerLoop`, `Run`, `Stop` | stream (sends), tasks (runs them), event bus (subscribes) |
| Control stream, `ControlStreamClient` | `pending_writes_`, `current_write_`, `write_in_flight_`, `reactor_`, `attempt_` | `Run`, `EnqueueWrite`, `OnStreamReady`, `OnWriteFinished`, `OnMessage`, `OnStreamClosed`, `CancelStream`, `Stop` | gRPC (reactions), dispatcher (callbacks) |
| Tasks, `LogFilterTask`, `PcapTask`, `ExecTask` | `op_id_`, `kind_`, `cancel_requested_` | `Validate`, `Run`, `RequestCancel` | dispatcher (`TaskContext`), `log_ops`, `pcap_ops`, `temp_file` |
| `log_ops`, `pcap_ops`, `temp_file` | local to a call | `StreamLogFilter`, `StreamCapture`, `StreamFile` | files, libpcap |
| Event bus | listeners, last event | `Subscribe`, `Publish`, `LastEvent`, `Unsubscribe` | dispatcher, authorization manager |
| Authorization manager | `mode_`, `auth_state_`, licence file | `Start`, `Stop`, `HandleMessage`, `HandleConnection`, `CheckAuthorization` | event bus, authorization client |
| Authorization client | `running_`, `active_reactor_`, `reconnect_needed_` | `Start`, `Stop`, `StreamLoop`, `NotifyReconnect` | gRPC, authorization manager |
| Logger manager | table of weak loggers, sinks, pending levels | `init`, `add_sink`, `logger`, `set_level`, `list_loggers`, `shutdown`, the deleters | spdlog, every holder of a logger |
| `agent_impl`, `agent_main` | `g_running`, toggles, hooks | `StartAgent`, `RequestStop`, `ComputeBackoff`, `SleepWithStop` | all of the above |

What is hard here:

* Four threads share the dispatcher, and every handler sends its messages
  outside `mu_` (or, for a closed stream, inside it). Who reports an operation
  that several of them take out of the queue?
* `HandleStartOp` has two critical sections with validation between them.
* `running_` is cleared and the worker notified without `mu_`.
* The stream's write queue is used by five threads, one of which skips the lock;
  the end of a call is handled in three separate critical sections; gRPC may
  report that end while the call is still being set up.
* Streams are lost and made again while an operation runs.
* Two threads change the authorization state and publish it in a second step;
  the dispatcher subscribes while events are under way.
* The authorization client destroys a reactor that gRPC may still use; only
  sleeps, and the flags `finished_` and `reconnect_needed_`, keep it from that.
* A logger is destroyed by whoever drops it last, possibly inside the manager.
* A log is read by name while its logger renames it.

What makes the components correct: an accepted operation is reported, once, and
in its own time; nothing forbidden runs on; the registry never names the wrong
operation; the agent stops when told; the stream writes one message at a time,
in order, starting with the Hello; the features follow the authorization state;
every logger in use is known to the manager; a filtered log is complete and its
temporary file does not stay.

## Modules

| Module | Models | Composed from |
|---|---|---|
| `TaskDispatcher` | the dispatcher and the three tasks | |
| `MCTaskDispatcher` | instances for TLC | `TaskDispatcher` |
| `TaskDispatcherProofs` | theorems about it | `TaskDispatcher` |
| `TaskDispatcherRefinement` | the dispatcher implements `OperationLifecycle` | `TaskDispatcherProofs` |
| `ControlStream` | the stream over a gRPC call | |
| `MCControlStream` | instances for TLC | `ControlStream` |
| `ControlStreamProofs` | theorems about it | `ControlStream` |
| `OperationLifecycle` | what the dispatcher promises about operations, abstractly | instantiated by `TaskDispatcher` |
| `AuthClient` | the licence stream: loop, reactor, `Stop` | |
| `Authorization` | authorization manager, event bus, constructor of the dispatcher, order of `main` | `AuthClient` |
| `MCAuthorization` | instances for TLC | `Authorization` |
| `AuthorizationProofs` | theorems about both | `Authorization` |
| `LoggerManager` | the logger manager and its callers | |
| `MCLoggerManager` | symmetry for TLC | `LoggerManager` |
| `LoggerManagerProofs` | theorems about it | `LoggerManager` |
| `LogScan` | `StreamLogFilter` and `StreamFile` on a log that is rotated meanwhile | |
| `MCLogScan` | lines and filters for TLC | `LogScan` |
| `LogScanProofs` | theorems about it | `LogScan` |

In all modules a variable has the name of the C++ member it stands for, without
the trailing underscore, and an action the name of its function. A definition
whose comment begins with *Faulty variant* is not used by the specification: it
is a plausible mistake that shows, put in place of the definition after it, that
the property named in `PROJECT.json` can fail.

### TaskDispatcher

A step is one critical section of `mu_` or one message handed to the stream
outside it. Tasks are numbered as they are pushed into `task_queue_`, so the
number is also the place in the order of acceptance; `op_id`, `kind`,
`cancel_requested` are the members of the task with that number. What was sent
about a task is kept in `acked`, `data`, `eofs` and `errors`; what a thread has
collected in a local vector and not sent yet (`cancelled_ops`, `to_error`) in
`reader_errors` and `auth_errors`. `reader`, `worker` and `main` are program
counters.

`mu_` need not be a variable: only the worker holds it across steps, between
finding the wait predicate false and blocking (`"blocking"`), and `MuFree` is
its negation. That step is there because `HandleShutdown` clears `running_` and
notifies without `mu_`: the notification can fall into the gap and be lost, and
`Notified` then wakes nobody. `SpuriousWakeup` is what a condition variable may
do.

A task is its control flow: where it looks at cancellation, where it can fail,
which messages it sends. `LogFilter` never looks; a capture (`PcapStopped`,
`PcapFailed`, `PcapCaptured`) ends when it is stopped, fails or reaches a limit,
which a live capture without limit never does; `PcapCheck` and `PcapChunk` are
two steps, so a cancellation can come between the look and the chunk.

Left out: the texts of errors and reasons, `state_` (it is only logged),
`RequestPause` (nobody calls it), test hooks. `Ping` changes nothing here.

### ControlStream

A step is one access to shared state, because `OnStreamReady` calls
`MaybeStartWriteLocked` without `write_mu_`. That function is two steps for
every caller, `MaybeStart` (the checks and the copy of `reactor_`) and
`StartWrite`; callers that hold `write_mu` exclude each other, `StartBacklog`
holds nothing. Messages are numbered in the order of `EnqueueWrite`; `wire` is
what was written on the current call.

gRPC is external, as the code uses it: a call is `"open"`, then `"failed"` (it
has ended, reactions are still to come), then `"ended"` (`OnDone` was called).
Writes succeed on an open call, may fail on a failed one. `OnDone` comes when no
read, write or reaction is left; `Start` takes no hold on the call, so with
`EarlyDone` it may come before `Start` has returned. A write started on an ended
call is undefined behaviour; in the model it fails or is never completed, and
`late_start` remembers it. The `front()` of an empty deque, which the unlocked
call can reach, is modelled as no message; `unlocked_start` remembers that the
unlocked call started a write.

The delay of `backoff_fn` is a step of any length.

A failed write and the end of a call clear the queue that all threads share.
`DropsOnlyWithTheCall` is what may be asked of that: nothing that waits is
dropped while a call is open, so what is lost was owed to the call that has
failed.

### OperationLifecycle

An abstract specification: operations are accepted one after the other, run one
at a time in the order of acceptance, send Data only while they run, and end
with one `OpEof` or `OpError`; one that waits may be withdrawn and then fails.
It knows no threads, queue or registry. `TaskDispatcher` maps its state to it
(`OpStatus`, `StageOf` task by task: one in `task_queue_` is queued, a pending one
outside is running, one whose error is owed is withdrawn) and `SerialLifecycle` is the
refinement. It holds without immediate shutdowns; an immediate shutdown breaks
it by the second error.

### AuthClient and Authorization

`AuthClient` has the stream loop, `Stop` and the reactions of the reactor,
step by step as they access `running_`, `active_reactor_`, `reconnect_needed_`
and `finished_`. Both inner waits of the loop are one step, since what ends the
first also ends the second. `Authorization` extends it with what the callbacks
do: a licence is persisted (the file is truncated, then written) and, in online
mode, decides; the end of a call sets state and mode. `UpdateAuthState` is two
steps, the exchange and the `Publish`. `main` starts the manager, checks the
persisted licence, makes the dispatcher (subscribe, `LastEvent`, apply), runs
it, and stops and destroys everything. The dispatcher is reduced to whether its
features are on; what it does when they change is `TaskDispatcher`'s subject.

A call is external: it is made, may be cancelled before or after it starts, and
ends with status OK or another; a message may still arrive after `TryCancel`.

The code relies on time, and the model does not have it: the sleeps of the loop
(50 ms after a reactor has finished, 5 s before the next call) wait for nobody, as
in the code. `Settle` and `Reconnect` can therefore happen while a callback runs.
The reactor is then destroyed (`Destroyed`), its callbacks go on beside those of
the next call, and what they read of it is undefined: `FinishedOf` and `LicenceOf`
give any value. That such a read may also crash the process is not modelled.
`main` likewise may check the licence file, or be between its exchange and its
`Publish`, while the stream comes back.

Three history variables tell these behaviours apart. `overrun`: an `OnDone` has
outlasted the reconnect delay. `crossed`: two threads have been inside
`UpdateAuthState` at once. `stale_start`: the constructor has applied an outdated
event. They appear in properties, never in a guard, and the properties say what
still holds: `ReactorOutlivesCall` that nothing else makes the running client lose
a reactor too early (after `Stop` the loop does destroy reactors whose `OnDone` is
still to come, and nothing is claimed), `FeaturesFollowState` that nothing else
parts the features from the last event or the last event from the state.
`missed_stop` says that `Stop` found no reactor although there was a call (the loop
had passed its look at `running_`, or had already unset the pointer); such a call
is not cancelled, and `StopSilences` exempts it.

### LoggerManager

Threads hold references to loggers, share them and drop them without the mutex;
who drops the last one runs the deleter. Operations of the manager that lock weak
pointers hold one reference at a time (`temp`) under the mutex, so a step of
another thread can make it the last one; `Release` then runs the deleter under
the mutex and the thread waits for itself (`"deadlocked"`). A logger may also die
between the cleanup of the table and `lock()`: then `set_level` stores a pending
level beside the expired entry (`level_of_expired`). A sink list only
grows at its end, so its length stands for it. Patterns are left out.

### LogScan

The scan goes through the candidates base first, newest rotation to oldest; each
is looked for, then opened, by name. The logger, spdlog's rotating sink as
`agent_main` sets it up, is external: it appends lines, which may reach the file
in two parts, and rotates by removing and renaming one name after the other. A
file that is open keeps its identity. Since the scan goes the way the files go,
a file that moves is still ahead of it; `NothingMissed` says so, and its mutant,
which reads the oldest file first, misses lines. Lines can be read twice.

Lines are records of what the filters look at: format, time, level, text, size.
Timestamps are normalised, as `google.protobuf.Timestamp` prescribes
(`Timestamps`); the code does not check it, and `TimestampLess` relies on it.
The sink prints local time down to the millisecond and the digits are read as UTC:
`ParsedLine` adds `ZoneOffset` and drops what is below `NanosPerMilli`. The
reference definitions do without both: `WallTime` is the time at which the line
was logged, by the clock on the wall. `Wanted` is a line that is in the window
whatever its digits below the millisecond (it must be in the output), `Admitted`
one that shares its printed time with a line in the window (no other may be).
Neither takes the window in UTC, which the code does not meet. The limit passes
through `ToInt64`, since the code casts it.

Every failure is there: refused requests, a temporary file that cannot be created,
the limit, a failed write, a failed flush on closing (which nobody notices), a
temporary file that cannot be opened again, a consumer that gives up. The four
places that remove the temporary file are four actions (`FilterFailed`,
`StreamFailed`, `StreamSucceeded`, `FillEof`), each of which may fail to remove it
(`remove_failed`), and `ExistsThrows` is the one way out that passes none of them:
`fs::exists` throws, and the agent ends.

## Runs

Bounds are named in the modules: `MaxTasks`, `MaxChunks`, `MaxCalls`,
`MaxMessages`, `MaxLoggers`, `MaxSinks`, `MaxRotations`.

| Run | Bounds | Result |
|---|---|---|
| `DispatcherSafety` | 2 op_ids, 2 tasks, 1 chunk, all kinds, both shutdowns | holds: types, `RegistryConsistent`, `AuthorisedWork`, `NeverLost`, `NoStrandedWork`, `SilentAfterOutcome` |
| `DispatcherDrainOnly` | 3 op_ids, 3 tasks, exec, no immediate shutdown | holds: `ExactlyOneOutcome`, `RunsInOrder`, the refinement `SerialLifecycle` |
| `DispatcherLiveness` | 2 tasks, captures with or without an end, both shutdowns | holds: `AcceptedIsReported`, `CancelledIsReported`, `ShutdownNowTerminates`, `StopTerminates` |
| `StreamSafety` | 3 calls, 3 messages and the Hellos, worker sending, early ends | holds: types, `SerialUnlessUnlocked`, `NoGapOnTheWire`, `NoIdleBacklog`, `FlagHasWrite`, `ReactorNotDangling`, `DropsOnlyWithTheCall`, `HelloIsWritten` |
| `Authorization` | 2 licence calls, a valid and an invalid licence, any file, every mode | holds: types, `FeaturesFollowState`, `ReactorOutlivesCall`, `ActiveReactorLives`, `StopSilences` |
| `AuthLiveness` | 2 licence calls without licences, every mode | holds: `Reconnects`, `Exits` |
| `LoggerRegistry` | 2 threads, 2 names, 2 loggers, 2 sinks, 2 levels | holds: types, `LiveIsRegistered`, `NoDanglingEntry`, `SinksShared`, `PendingAwaitsLogger` |
| `LogScan` | 4 lines in a zone one second from UTC, base and 2 rotated files, 2 rotations, depth 1 and the default 2, 2 filters, no limit, a small one and one beyond int64, with and without extension and cleanup | holds: types, `NothingMissed`, `OutputAsAsked`, `RepeatsNeedRotation`, `TempFileFate`, `LimitIsHard`, `ChunksMatchEof` |
| `DispatcherShutdownNow` | 2 tasks | `AtMostOneTerminal` fails |
| `DispatcherDrainExit` | 1 task | `DrainTerminates` fails |
| `AuthStartup` | 1 licence call | `OnlineRestoresFeatures` fails |
| `LoggerDeadlock` | as `LoggerRegistry` | `NoSelfDeadlock` fails |

Why the bounds are enough. Two tasks with two op_ids give one running and one
queued operation and the reuse of an op_id; the order of the queue needs three
queued at once, hence the separate run. One chunk is enough since chunks of one
task differ in nothing. Op_ids are compared with 0 and looked up as numbers, so
no symmetry is used. Three calls give a stream before and after the one in
question; three messages let reader, worker and closer each add one. Two licence
calls give a reconnect and what the first call leaves to the second. Two loggers
are enough for a name to be given away while the deleter of its first logger is
late; threads are interchangeable (`ThreadSymmetry`). Two rotations during a
scan move a file past two candidates, the whole depth. A second of 4 nanos, 2 to
a millisecond, has lines that truncation moves and lines it does not, at both ends
of a window; with `Int64Half` 100 the limit 150 is negative after the cast.

`LoggerRegistry` is not checked for deadlock, since threads may deadlock there,
which is what `LoggerDeadlock` shows; nor is `LogScan`, whose operation ends.

### Disagreements

Each failing run is a disagreement between the code and a document of the
repository; `PROJECT.json` quotes both.

1. An immediate shutdown reports each queued operation twice: the loop over
   `tasks_` meets the tasks that the loop over `task_queue_` has already added.
2. A drained agent does not exit. An idle one is never told; one that has worked
   stops its worker but waits for the server to end the stream.
3. The constructor of the dispatcher can apply an event that was overtaken: the
   agent is online and its features stay off.
4. The logger manager can destroy a logger while it holds its own mutex, and
   then waits for itself.

Others have no run of their own. The models have the behaviour, and where
something can be said in spite of it, a property of a passing run says it.

* The unlocked call in `OnStreamReady` can start a second concurrent write, while
  `CallbackClient.README.md:119` says that the queue prevents it.
  `SerialUnlessUnlocked` says that it is the only way to one.
* The exchange of `auth_state_` and the `Publish` are not one step: the bus can be
  left with the older of two states (`CallbackClient.README.md:68` says that it
  caches the last). It takes an `OnDone` held up between the two for longer than
  the reconnect delay, 5 s; nothing else keeps the threads apart.
  `FeaturesFollowState` says that this and 3 are the only ways for the features to
  differ from the state.
* A log filter never looks at its cancellation: cancelled before its first chunk
  it still sends its output and `OpEof`, where `documentation/callback_tasks.md:12`
  promises an error.
* A limit of 2^63 or more is cast to a negative number, and the first selected
  line fails with `RESOURCE_EXHAUSTED`, though `third_party/os.proto:136` has a
  uint64. `LimitIsHard` says that smaller limits mean what they say, and that no
  limit is exceeded.
* When the flush on closing the temporary file fails, the EOF states a size that
  the file does not have (`third_party/os.proto:147` says it is the size of that
  file). `ChunksMatchEof` says that this is the only way.
* Lines are compared with the time window by their local time, read as UTC;
  the window of `third_party/os.proto:125` is made of timestamps, which are UTC.
* A message about an operation can precede its Ack, which is sent after the task
  was enqueued (`AckStartOp` is a step after `EnqueueTask`;
  `CallbackClient.README.md:163` says the Ack comes first).
* The errors for a lost stream are the first messages of the next one, before its
  Hello (`ReportCancelled` adds to the queue that `SendHello` appends to;
  `third_party/os.proto:78` says the Hello is first).
* After SIGTERM an agent with a healthy stream waits for the server to end it.
  `StopTerminates` covers an agent that is not connected, and no document says
  what is to happen to one that is.

`HelloIsWritten` has an exception: a call that ends while it is being started
can leave `write_in_flight_` set for a write that is never completed, and the
next call stays open without Hello; but that rests on a write on an ended call,
which gRPC leaves undefined. `FlagHasWrite` says that such a write is the only
way to it.

### What the properties exempt

Where the code is at the mercy of a race, a property names the race and says that
nothing else breaks it. `FlagHasWrite` and `DropsOnlyWithTheCall` exempt a write
that is started on an ended call or without the lock; `NoIdleBacklog` and
`ReactorNotDangling` do not. `ReactorOutlivesCall` is about the running client.
That the check of the licence file is not overtaken by the stream is not claimed.

### Fairness

`TaskDispatcher`: the worker (`WF`), the continuation of a handler, the sending
of revocations and the main thread proceed; the fairness is strong where a
thread needs `mu_`, which the worker may take and release between two attempts.
A call on which `TryCancel` was called ends, which gRPC guarantees. Nothing is
assumed of the server, of signals, of authorization changes or of a capture;
`AcceptedIsReported` exempts a worker that stays in a capture for ever, and
`BoundedCaptureSpec` adds that captures end, so that the failure of
`DrainTerminates` has another cause.

`ControlStream`: every thread proceeds, strongly where it needs `write_mu_`.
gRPC completes the reads and writes of a call that has failed, and the writes of
an open one as long as the server reads. Nothing is assumed of writes on a call
that has ended.

`Authorization`: weak fairness only. main, the loop, whose sleeps end, and the
callbacks proceed, and gRPC finishes the reactions of a call that has ended. Nobody
owes a licence, the end of a call or the end of `Run`. `LoggerManager` and
`LogScan` have no liveness property: callers owe nothing, and a scan of a log
that grows faster than it is read need not end.

## Proofs

Every invariant and every action property of the passing runs, and the
refinement, is proved for every value of the constants, hence without the bounds
of the runs. What is assumed of the constants is their types and sizes (the
`ASSUME` of each module, which TLC evaluates). One theorem states a hypothesis of
its own: `FALSE \notin ShutdownDrains` (no immediate shutdown) for
`ImplementsLifecycle`, since an immediate shutdown reports twice. `ExactlyOneOutcome`
has it inside.

None of the properties is
inductive by itself. Each module of theorems defines the invariant that is
(`Inv`, and in `LogScanProofs` `ScanInv`, `LogInv`, `Once` and `NotMissed`), a
conjunction of named parts; TLC has checked each on the instance of the run
before it was proved. The steps are first sorted by what they touch (`StepCases`,
`ClientCases`, `ScanCases`), then each part of the invariant has its lemma.

**TaskDispatcher.** `WorkerTask`: the worker is inside a task exactly while
`current_task_` is set. `ReaderState`: between the two critical sections of
`HandleStartOp` the op_id stays free (only the reader registers tasks), and the
reader owes errors only inside `HandleCancel` and `HandleShutdown`. `Registry`:
`RegistryConsistent` with the queue as a sequence, and the bound `admitted`.
`Accounted`: a pending task has no final message, sent or owed; an accepted one
that is no longer pending has one, or more only if immediate shutdowns occur.
`AllowedPartCases` shows that a change of the features always empties the queue,
and `NotRunningIsQueued` and `RevokedIsQueued` that what the handlers compute
from `tasks_` is the queue. `SilentAfterOutcome` follows since only the running
task sends Data and OpEof, and while it is pending it has no final message.
`EndOfWork` carries `NoStrandedWork`: on a stream that was not cancelled
`running_` is cleared only with the queue empty, and no StartOp is then between
its critical sections.

**TaskDispatcherRefinement.** Under `Inv` the cases of `OpStatus` are disjoint and
complete (`StatusTable`). For each step of the lifecycle a lemma says which
change of the dispatcher's state it stands for; `StepRefines` goes through the
dispatcher's steps.

**ControlStream.** `Locking`: `write_mu_` is held exactly at the places inside
its critical sections. `Targets` and `CallState`: a thread may hold the reactor
of an earlier call, the main thread never; between two calls nothing is left of
the first. `Outstanding`: until the unlocked start of a call every write that
gRPC has not completed has `write_in_flight_` set; after it one of two may go
unnoticed, which is why two is the most. `QueueOrder` and `WireOrder`: the queue
holds the messages pushed last and the wire of an open call the ones before.

**AuthClient and Authorization.** `Reactors` relates the pointer, the calls and their
reactions, for calls that overlap too.
`Running`: while the client runs and no `OnDone` has outlasted the delay, only the
`OnDone` of the current call sets `finished_` and `reconnect_needed_`; this is why
waiting for `finished_` is enough although `Stop` sets it too. `Stopping` and
`Misses`: once `Stop` has dealt with the reactor no licence is handed over, unless
it has missed the call. `Published`: as long as no two threads have crossed, at
most one is between exchange and `Publish`, and what it is about to publish is the
state. `Features` does the same for the dispatcher, and needs no assumption on who
published.

**LoggerManager.** `Mutex`: the manager has a reference of its own only inside a
loop. `VictimsDead`: a logger whose deleter runs is out of use for good, and a
deleter that leaves the entry alone has found another logger there. `SinkCount`:
inside the loop of `add_sink` a logger lacks a sink exactly if it is still to be
visited.

**LogScan.** `CandidatesAre`: the list of `EnumerateCandidates` never goes back to
a newer file, leaves none out and has each file under one proper name.
`ScanInv`: the stages of the operation; `ChunkChain`: the chunks reach from 0 to
the offset. `LogInv`: lines are numbered as they are written, each is at one
place in one file, each file has one name at most, also between the removal and
the renaming of a rotation. `Once`: without rotation, what is in the output is
behind the scan. `NotMissed`: a wanted line in reach is in the output, still to
be read in the open file, or in the file of a candidate ahead; a rotation moves a
file to a later candidate only (`FileMovesOn`), and the one line that may be
read in part was not whole at the start (`Started`). `TimeOrder`: comparing
seconds, then nanos, is comparing times; `ParsedTime` bounds what zone and
truncation do to a time, and `SelectedMeans` puts the filters of the code between
`Wanted` and `Admitted`. `Phases` and `Ends`: a failure leads to the cleanup that
belongs to its stage. `WithinLimit` and `StopsAtLimit`: the sum stays below the
limit, cast or not, and an operation that has failed at it stays at the line that
would have gone beyond.

Only model-checked: the seven liveness properties (`AcceptedIsReported`,
`CancelledIsReported`, `ShutdownNowTerminates`, `StopTerminates`,
`HelloIsWritten`, `Reconnects`, `Exits`), since fairness and `ENABLED` are beyond
the prover, and the four failing runs, which are counterexamples. No operator is
declared `RECURSIVE`.

## Not modelled

* The contents of messages and files, and the characters of log lines: data the
  properties do not tell apart.
* Resolution of the log path (`MakeRoot`, `ResolvePath`): one of the refusals of
  `LogScan`; the rotated files are beside the base, so the second look at the
  root changes nothing for plain files.
* Limits, statistics and the file format of captures; unique file names; lengths
  of backoff delays; patterns of loggers: sequential computations without state
  that outlives a call.
* Command line and configuration, other than the order in which `main` starts
  and stops the parts: sequential I/O.
* Time: delays are steps of any length. What a callback does to the process when it
  uses a destroyed reactor, other than to read anything from it; lifetimes of the
  members of `AuthManager` during its destruction, and callbacks after it.
* An I/O error of a candidate that the scan skips without an error (its name cannot
  be resolved, or it cannot be opened although it exists): `NothingMissed` is about
  files that can be read.

## Plan

1. Done: `TaskDispatcher`, `OperationLifecycle`, `ControlStream`, `AuthClient` and
   `Authorization`, `LoggerManager`, `LogScan`, and the proofs of their invariants,
   action properties and of the refinement.
2. Next, proofs: the safety core of the liveness properties, such as that the
   worker's wait never misses the work it waits for, and that the exceptions of
   `HelloIsWritten` are the only ones; what `OperationLifecycle` implies by itself,
   so that the refinement yields `RunsInOrder` a second time.
3. Later: dispatcher and stream composed (what the server receives about an
   operation across reconnects), capture limits as operators.
