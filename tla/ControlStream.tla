---------------------------- MODULE ControlStream ----------------------------
(***************************************************************************)
(* The bidirectional stream of the agent: ControlStreamClient with its     *)
(* StreamReactor, over the gRPC callback API.  Five threads meet here:     *)
(*                                                                         *)
(*   main    Run, which makes one call after the other, and OnStreamReady  *)
(*   reader  OnReadDone, which hands a message to the dispatcher           *)
(*   writer  OnWriteDone                                                   *)
(*   closer  OnDone                                                        *)
(*   worker  the thread that runs a task and sends its messages            *)
(*                                                                         *)
(* Messages are numbered in the order in which EnqueueWrite pushes them;   *)
(* calls are numbered in the order in which Run makes them, and a reactor  *)
(* is named by its call; 0 is no message and the null reactor.  A step is  *)
(* one access to shared state, so that the parts of a critical section of  *)
(* write_mu_ can interleave with the code that does not take it.           *)
(***************************************************************************)
EXTENDS Naturals, Sequences

CONSTANTS
    MaxCalls,       \* bound: calls Run makes
    MaxMessages,    \* bound: messages besides the Hellos
    WorkerSends,    \* is a task running, whose messages come at any time
    EarlyDone       \* may a call end before StreamReactor::Start has returned

ASSUME StreamAssumption ==
    /\ MaxCalls \in Nat
    /\ MaxMessages \in Nat
    /\ WorkerSends \in BOOLEAN
    /\ EarlyDone \in BOOLEAN

VARIABLES
    pending_writes,     \* pending_writes_
    current_write,      \* current_write_
    write_in_flight,    \* write_in_flight_
    reactor,            \* reactor_
    write_mu,           \* holder of write_mu_
    should_run,         \* options_.should_run: ShouldStreamContinue
    pc,                 \* program counter of each thread
    target,             \* the reactor MaybeStartWriteLocked has read, by thread
    enqueued,           \* messages pushed so far
    hello,              \* the Hello of the current call, 0 before it is pushed
    calls,              \* calls made so far; the last one is the current call
    call,               \* state of the current call
    outstanding,        \* writes of the current reactor that are not completed
    wire,               \* messages written on the current call
    unlocked_start,     \* has OnStreamReady started a write without write_mu_
    late_start          \* has a write been started on a call that had ended

writeVars == <<pending_writes, current_write, write_in_flight>>
callVars == <<calls, call, outstanding, wire>>
historyVars == <<unlocked_start, late_start>>
vars == <<writeVars, reactor, write_mu, should_run, pc, target, enqueued, hello,
          callVars, historyVars>>

----------------------------------------------------------------------------
Messages == 1..(MaxCalls + MaxMessages)

Threads == {"main", "reader", "writer", "closer", "worker"}

MainPCs == {"loop", "ready", "hello", "hello_check", "hello_take", "ready_check",
            "ready_take", "start_read", "wait", "closed", "sleep", "returned", "stopped"}
ReaderPCs == {"none", "reading", "check", "take"}
WriterPCs == {"idle", "check", "take"}
CloserPCs == {"idle", "reactor", "lock", "callback", "check", "take", "done"}
WorkerPCs == {"idle", "check", "take"}

Goto(p, at) == pc' = [pc EXCEPT ![p] = at]

(* The reactor lives on the stack of Run, within one turn of the loop.      *)
ReactorExists == pc["main"] \notin {"loop", "returned", "stopped"}

(* The call has not been reported as ended by OnDone.                       *)
CallInProgress == call \in {"open", "failed"}

(* running_ of this class is true while Run is in its loop.                 *)
ShouldContinue == should_run

Init ==
    /\ pending_writes = <<>>
    /\ current_write = 0
    /\ write_in_flight = FALSE
    /\ reactor = 0
    /\ write_mu = "free"
    /\ should_run = TRUE
    /\ pc = [p \in Threads |-> CASE p = "main" -> "loop"
                                 [] p = "reader" -> "none"
                                 [] OTHER -> "idle"]
    /\ target = [p \in Threads |-> 0]
    /\ enqueued = 0
    /\ hello = 0
    /\ calls = 0
    /\ call = "ended"
    /\ outstanding = 0
    /\ wire = <<>>
    /\ unlocked_start = FALSE
    /\ late_start = FALSE

----------------------------------------------------------------------------
(* EnqueueWrite, and what it shares with OnWriteFinished and OnStreamReady. *)

(* Faulty variant: the message overtakes those that wait.                   *)
PushFront(q, m) == <<m>> \o q

PushBack(q, m) == Append(q, m)

(* EnqueueWrite up to its call of MaybeStartWriteLocked.                    *)
EnqueueWrite(p, check) ==
    /\ write_mu = "free"
    /\ write_mu' = p
    /\ enqueued' = enqueued + 1
    /\ pending_writes' = PushBack(pending_writes, enqueued')
    /\ Goto(p, check)
    /\ UNCHANGED <<current_write, write_in_flight, reactor, should_run, target,
                   callVars, historyVars>>

(* Faulty variant: a write that is in flight does not hold back the next.   *)
StartsAnyway == pending_writes # <<>> /\ reactor # 0

(* The condition under which MaybeStartWriteLocked starts a write.          *)
MayStart == ~write_in_flight /\ pending_writes # <<>> /\ reactor # 0

Unlock(p) == write_mu' = IF write_mu = p THEN "free" ELSE write_mu

(* MaybeStartWriteLocked: first the checks and the copy of reactor_, ...    *)
MaybeStart(p, check, take, done) ==
    /\ pc[p] = check
    /\ \/ /\ MayStart
          /\ target' = [target EXCEPT ![p] = reactor]
          /\ Goto(p, take)
          /\ UNCHANGED write_mu
       \/ /\ ~MayStart
          /\ Goto(p, done)
          /\ Unlock(p)
          /\ UNCHANGED target
    /\ UNCHANGED <<writeVars, reactor, should_run, enqueued, hello, callVars,
                   historyVars>>

(* The message at the front; front() of an empty deque is no message.       *)
Front == IF pending_writes = <<>> THEN 0 ELSE Head(pending_writes)

Popped == IF pending_writes = <<>> THEN <<>> ELSE Tail(pending_writes)

(* ... then the move out of the queue and StartWrite.  StartWrite on a call *)
(* that has ended is undefined; the write fails or is never completed.      *)
StartWrite(p, take, done) ==
    /\ pc[p] = take
    /\ current_write' = Front
    /\ pending_writes' = Popped
    /\ write_in_flight' = TRUE
    /\ Goto(p, done)
    /\ Unlock(p)
    /\ target' = [target EXCEPT ![p] = 0]
    /\ outstanding' = IF target[p] = calls THEN outstanding + 1 ELSE outstanding
    /\ wire' = IF target[p] = calls /\ CallInProgress THEN Append(wire, Front) ELSE wire
    /\ late_start' = (late_start \/ target[p] # calls \/ ~CallInProgress)
    /\ unlocked_start' = (unlocked_start \/ write_mu # p)
    /\ UNCHANGED <<reactor, should_run, enqueued, hello, calls, call>>

----------------------------------------------------------------------------
(* The main thread: Run and OnStreamReady.                                  *)

MainGoto(from, to) ==
    /\ pc["main"] = from
    /\ Goto("main", to)

(* A new reactor, reactor_ and StartCall.                                   *)
Connect ==
    /\ MainGoto("loop", "ready")
    /\ ShouldContinue
    /\ calls < MaxCalls
    /\ calls' = calls + 1
    /\ call' = "open"
    /\ reactor' = calls'
    /\ outstanding' = 0
    /\ wire' = <<>>
    /\ hello' = 0
    /\ UNCHANGED <<writeVars, write_mu, should_run, target, enqueued, historyVars>>

OnStreamReady ==
    /\ MainGoto("ready", "hello")
    /\ reactor' = calls
    /\ UNCHANGED <<writeVars, write_mu, should_run, target, enqueued, hello, callVars,
                   historyVars>>

(* callback_mu_ is held by OnStreamClosed while it reports the operations   *)
(* it cancels; the other callbacks cannot meet this one.                    *)
SendHello ==
    /\ pc["main"] = "hello"
    /\ pc["closer"] \notin {"callback", "check", "take"}
    /\ EnqueueWrite("main", "hello_check")
    /\ hello' = enqueued'

StartHello ==
    \/ MaybeStart("main", "hello_check", "hello_take", "ready_check")
    \/ StartWrite("main", "hello_take", "ready_check")

(* The last call of OnStreamReady, which does not take write_mu_.           *)
StartBacklog ==
    \/ MaybeStart("main", "ready_check", "ready_take", "start_read")
    \/ StartWrite("main", "ready_take", "start_read")

StartRead ==
    /\ pc["main"] = "start_read"
    /\ pc' = [pc EXCEPT !["main"] = "wait",
                        !["reader"] = IF CallInProgress THEN "reading" ELSE @]
    /\ UNCHANGED <<writeVars, reactor, write_mu, should_run, target, enqueued, hello,
                   callVars, historyVars>>

(* Faulty variant: Run leaves reactor_ to OnStreamClosed.                   *)
KeepReactor == reactor

ResetReactor == IF reactor = calls THEN 0 ELSE reactor

(* Wait returns once OnDone has set done_.                                  *)
CallEnded ==
    /\ pc["main"] = "wait"
    /\ pc["closer"] = "done"
    /\ pc' = [pc EXCEPT !["main"] = "closed", !["closer"] = "idle"]
    /\ reactor' = ResetReactor
    /\ UNCHANGED <<writeVars, write_mu, should_run, target, enqueued, hello, callVars,
                   historyVars>>

MainOnly ==
    UNCHANGED <<writeVars, reactor, write_mu, should_run, target, enqueued, hello,
                callVars, historyVars>>

Backoff == ShouldContinue /\ MainGoto("closed", "sleep") /\ MainOnly

WakeUp == MainGoto("sleep", "loop") /\ MainOnly

LeaveLoop ==
    /\ ~ShouldContinue
    /\ MainGoto("loop", "returned") \/ MainGoto("closed", "returned")
    /\ MainOnly

(* Stop, called by the destructor after Run has returned.                   *)
Stop ==
    /\ MainGoto("returned", "stopped")
    /\ call' = IF reactor # 0 THEN "failed" ELSE call
    /\ UNCHANGED <<writeVars, reactor, write_mu, should_run, target, enqueued, hello,
                   calls, outstanding, wire, historyVars>>

----------------------------------------------------------------------------
(* Reactions of the call, and the worker.                                   *)

(* The bound on messages, which leaves room for the Hello of each call.     *)
MayEnqueue == enqueued + (IF hello = 0 THEN 1 ELSE 0) < MaxMessages + calls

(* OnReadDone(true): the handler of the message sends a Pong, an Ack or an  *)
(* OpError.                                                                 *)
HandleMessage ==
    /\ pc["reader"] = "reading"
    /\ CallInProgress
    /\ MayEnqueue
    /\ EnqueueWrite("reader", "check")
    /\ UNCHANGED hello

FinishMessage ==
    \/ MaybeStart("reader", "check", "take", "reading")
    \/ StartWrite("reader", "take", "reading")

(* HandleShutdown(drain = false): CancelStream, and the loop may not go on. *)
CancelStream ==
    /\ pc["reader"] = "reading"
    /\ CallInProgress
    /\ should_run' = FALSE
    /\ call' = IF reactor # 0 THEN "failed" ELSE call
    /\ UNCHANGED <<writeVars, reactor, write_mu, pc, target, enqueued, hello, calls,
                   outstanding, wire, historyVars>>

ReadFails ==
    /\ pc["reader"] = "reading"
    /\ call = "failed"
    /\ Goto("reader", "none")
    /\ UNCHANGED <<writeVars, reactor, write_mu, should_run, target, enqueued, hello,
                   callVars, historyVars>>

(* Faulty variant: the flag is left set.                                    *)
FlagKept == write_in_flight

FlagCleared == FALSE

(* Faulty variant: the queue is emptied after every write.                  *)
AlwaysCleared(ok) == <<>>

QueueAfterWrite(ok) == IF ok THEN pending_writes ELSE <<>>

(* OnWriteFinished up to its call of MaybeStartWriteLocked.                 *)
OnWriteFinished(ok) ==
    /\ pc["writer"] = "idle"
    /\ outstanding > 0
    /\ ReactorExists
    /\ call # "open" \/ ok
    /\ CallInProgress \/ ~ok
    /\ write_mu = "free"
    /\ write_mu' = "writer"
    /\ outstanding' = outstanding - 1
    /\ write_in_flight' = FlagCleared
    /\ current_write' = 0
    /\ pending_writes' = QueueAfterWrite(ok)
    /\ Goto("writer", "check")
    /\ UNCHANGED <<reactor, should_run, target, enqueued, hello, calls, call, wire,
                   historyVars>>

(* Faulty variant: the next write is left to the next EnqueueWrite.         *)
NoRestart ==
    /\ pc["writer"] = "check"
    /\ Goto("writer", "idle")
    /\ Unlock("writer")
    /\ UNCHANGED <<writeVars, reactor, should_run, target, enqueued, hello, callVars,
                   historyVars>>

FinishWrite ==
    \/ MaybeStart("writer", "check", "take", "idle")
    \/ StartWrite("writer", "take", "idle")

(* The peer or the network ends the call.                                   *)
CallFails ==
    /\ call = "open"
    /\ call' = "failed"
    /\ UNCHANGED <<writeVars, reactor, write_mu, should_run, pc, target, enqueued, hello,
                   calls, outstanding, wire, historyVars>>

(* OnDone comes when no read, write or reaction of the call is left.  Start *)
(* takes no hold on the call, so gRPC does not wait for it.                 *)
NothingOutstanding ==
    /\ outstanding = 0
    /\ pc["reader"] = "none"
    /\ pc["writer"] = "idle"
    /\ EarlyDone \/ pc["main"] = "wait"

(* OnStreamClosed: the write state, then reactor_, then the callback.       *)
ClearWrites ==
    /\ call = "failed"
    /\ NothingOutstanding
    /\ pc["closer"] = "idle"
    /\ write_mu = "free"
    /\ write_in_flight' = FALSE
    /\ current_write' = 0
    /\ pending_writes' = <<>>
    /\ call' = "ended"
    /\ Goto("closer", "reactor")
    /\ UNCHANGED <<reactor, write_mu, should_run, target, enqueued, hello, calls,
                   outstanding, wire, historyVars>>

ClearReactor ==
    /\ pc["closer"] = "reactor"
    /\ reactor' = 0
    /\ Goto("closer", "lock")
    /\ UNCHANGED <<writeVars, write_mu, should_run, target, enqueued, hello, callVars,
                   historyVars>>

LockCallback ==
    /\ pc["closer"] = "lock"
    /\ pc["main"] \notin {"hello_check", "hello_take"}
    /\ Goto("closer", "callback")
    /\ MainOnly

(* CancelAllLocked: an OpError for each operation it cancels.               *)
ReportCancelled ==
    /\ pc["closer"] = "callback"
    /\ MayEnqueue
    /\ EnqueueWrite("closer", "check")
    /\ UNCHANGED hello

StartReport ==
    \/ MaybeStart("closer", "check", "take", "callback")
    \/ StartWrite("closer", "take", "callback")

StreamClosed ==
    /\ pc["closer"] = "callback"
    /\ Goto("closer", "done")
    /\ MainOnly

WorkerEnqueues ==
    /\ WorkerSends
    /\ pc["worker"] = "idle"
    /\ MayEnqueue
    /\ EnqueueWrite("worker", "check")
    /\ UNCHANGED hello

WorkerStarts ==
    \/ MaybeStart("worker", "check", "take", "idle")
    \/ StartWrite("worker", "take", "idle")

RequestStop ==
    /\ should_run
    /\ should_run' = FALSE
    /\ UNCHANGED <<writeVars, reactor, write_mu, pc, target, enqueued, hello, callVars,
                   historyVars>>

Terminated == pc["main"] = "stopped" /\ UNCHANGED vars

----------------------------------------------------------------------------
MainStep ==
    \/ Connect
    \/ OnStreamReady
    \/ SendHello
    \/ StartHello
    \/ StartBacklog
    \/ StartRead
    \/ CallEnded
    \/ Backoff
    \/ WakeUp
    \/ LeaveLoop
    \/ Stop

CloserStep ==
    \/ ClearWrites
    \/ ClearReactor
    \/ LockCallback
    \/ StartReport
    \/ StreamClosed

Next ==
    \/ MainStep
    \/ HandleMessage
    \/ FinishMessage
    \/ CancelStream
    \/ ReadFails
    \/ \E ok \in BOOLEAN : OnWriteFinished(ok)
    \/ FinishWrite
    \/ CallFails
    \/ CloserStep
    \/ ReportCancelled
    \/ WorkerEnqueues
    \/ WorkerStarts
    \/ RequestStop
    \/ Terminated

Spec == Init /\ [][Next]_vars

(* Every thread goes on; strong fairness stands for write_mu_.  gRPC        *)
(* completes the writes of a call it has not reported as ended, which asks  *)
(* of an open call that the peer keeps reading.  Nobody owes a message, the *)
(* end of a call, or the completion of a write on a call that has ended.    *)
Fairness ==
    /\ SF_vars(MainStep)
    /\ WF_vars(FinishMessage)
    /\ WF_vars(ReadFails)
    /\ SF_vars(CallInProgress /\ \E ok \in BOOLEAN : OnWriteFinished(ok))
    /\ WF_vars(FinishWrite)
    /\ SF_vars(CloserStep)
    /\ WF_vars(WorkerStarts)

FairSpec == Spec /\ Fairness

----------------------------------------------------------------------------
(* Types; the unlocked call in OnStreamReady runs once for each call, so it *)
(* can add one outstanding write to the one the queue allows.               *)
TypeOK ==
    /\ pending_writes \in Seq(Messages)
    /\ current_write \in Messages \cup {0}
    /\ write_in_flight \in BOOLEAN
    /\ reactor \in 0..MaxCalls
    /\ write_mu \in Threads \cup {"free"}
    /\ should_run \in BOOLEAN
    /\ pc \in [Threads -> MainPCs \cup ReaderPCs \cup WriterPCs \cup CloserPCs \cup WorkerPCs]
    /\ pc["main"] \in MainPCs /\ pc["reader"] \in ReaderPCs /\ pc["writer"] \in WriterPCs
    /\ pc["closer"] \in CloserPCs /\ pc["worker"] \in WorkerPCs
    /\ target \in [Threads -> 0..MaxCalls]
    /\ enqueued \in 0..(MaxCalls + MaxMessages)
    /\ hello \in Messages \cup {0}
    /\ calls \in 0..MaxCalls
    /\ call \in {"open", "failed", "ended"}
    /\ outstanding \in 0..2
    /\ wire \in Seq(Messages \cup {0})
    /\ unlocked_start \in BOOLEAN
    /\ late_start \in BOOLEAN

(* The unlocked call in OnStreamReady is the only way to two outstanding    *)
(* writes: completions, failures, the end of a call and messages of all     *)
(* threads in any order do not lead to a second one.                        *)
SerialUnlessUnlocked == ~unlocked_start => outstanding <= 1

(* On an open call messages are written in the order in which they were     *)
(* enqueued, each once and none left out, also those enqueued while there   *)
(* was no stream.                                                           *)
NoGapOnTheWire ==
    LET all == wire \o pending_writes
    IN  call = "open" /\ ~unlocked_start =>
            \A i \in 1..Len(all) : all[i] = enqueued - Len(all) + i

(* A message never waits in the queue of a stream on which nothing is being *)
(* written: whoever ends a write, or sets reactor_, starts the next.        *)
NoIdleBacklog ==
    /\ write_mu = "free"
    /\ reactor # 0
    /\ pending_writes # <<>>
    /\ pc["main"] \notin {"ready", "hello"}
    => write_in_flight

(* write_in_flight_ never outlives the write it stands for, or no message   *)
(* could be sent on any later call, unless a write was started on a call    *)
(* that had already ended.                                                  *)
FlagHasWrite ==
    call = "open" /\ write_mu = "free" /\ write_in_flight /\ ~late_start => outstanding > 0

(* reactor_ never points to a reactor Run has destroyed, also when OnDone   *)
(* ran before OnStreamReady set reactor_ again.                             *)
ReactorNotDangling == reactor # 0 => ReactorExists /\ reactor = calls

(* A message that waits is never dropped while a call is open, unless a     *)
(* write was started without write_mu_ or on the reactor of an ended call:  *)
(* OnWriteFinished and OnStreamClosed both clear the queue all threads      *)
(* share, and what waits then must not be owed to a call that goes on.      *)
DropsOnlyWithTheCall ==
    [][call = "open" /\ ~unlocked_start' /\ ~late_start' =>
          \A i \in 1..Len(pending_writes) :
              \E j \in 1..Len(pending_writes' \o wire') :
                  (pending_writes' \o wire')[j] = pending_writes[i]]_vars

(* Every call that stays open gets its Hello, unless a write was started on *)
(* a call that had ended, which can leave write_in_flight_ set, or without  *)
(* write_mu_.                                                               *)
HelloIsWritten ==
    pc["main"] = "hello" ~>
        \/ call # "open"
        \/ late_start \/ unlocked_start
        \/ \E i \in 1..Len(wire) : wire[i] = hello
=============================================================================
