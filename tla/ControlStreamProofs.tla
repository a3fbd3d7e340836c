------------------------- MODULE ControlStreamProofs -------------------------
(***************************************************************************)
(* Theorems about ControlStream, for any number of calls and messages,     *)
(* with or without a running task, and whether or not a call may end       *)
(* before StreamReactor::Start has returned.                               *)
(***************************************************************************)
EXTENDS ControlStream, SequenceTheorems, TLAPS

(* The places inside the critical section of write_mu_, by thread.          *)
Holds(p, at) ==
    IF p = "main" THEN at \in {"hello_check", "hello_take"} ELSE at \in {"check", "take"}

(* The thread has found, with write_mu_ held, that it may start a write.    *)
Taking(p) == pc[p] = IF p = "main" THEN "hello_take" ELSE "take"

Locking == \A p \in Threads : write_mu = p <=> Holds(p, pc[p])

(* A reactor that was read is that of the current call or of an earlier     *)
(* one; the main thread, which makes the calls, has never an old one.       *)
Targets ==
    /\ \A p \in Threads : target[p] <= calls
    /\ pc["main"] \in {"hello_take", "ready_take"} => target["main"] = calls

BetweenCalls == pc["main"] \in {"loop", "closed", "sleep", "returned", "stopped"}

(* Between two calls of Run nothing is left of the first; messages are read *)
(* from StartRead to the end of the call.                                   *)
CallState ==
    /\ reactor \in {0, calls}
    /\ BetweenCalls => reactor = 0 /\ call = "ended" /\ pc["closer"] = "idle"
    /\ pc["closer"] # "idle" => call = "ended"
    /\ pc["main"] # "wait" \/ pc["closer"] # "idle" => pc["reader"] = "none"

(* There is room for the Hello of the current call.                         *)
Budget ==
    /\ enqueued <= MaxMessages + calls
    /\ pc["main"] \in {"ready", "hello"} => hello = 0 /\ enqueued < MaxMessages + calls

(* OnStreamReady of the current call has not started a write unlocked.      *)
Strict ==
    \/ pc["main"] \in {"ready", "hello", "hello_check", "hello_take", "ready_check",
                       "ready_take"}
    \/ ~unlocked_start

(* What write_in_flight_ says of the writes gRPC has not completed: until   *)
(* the unlocked start of a call, each has the flag set; after it, one of    *)
(* two may go unnoticed.                                                    *)
Outstanding ==
    /\ Strict => outstanding <= 1 /\ (outstanding = 1 => write_in_flight)
    /\ outstanding = 2 => write_in_flight
    /\ \A p \in Threads : Taking(p) /\ target[p] = calls =>
          outstanding <= 1 /\ (Strict => ~write_in_flight)

FlagState == ~late_start /\ write_in_flight => CallInProgress /\ outstanding > 0

(* The queue holds the last messages that were pushed, in their order; what *)
(* is on the wire of an open call comes right before them.                  *)
QueueOrder ==
    \A i \in 1..Len(pending_writes) :
        pending_writes[i] = enqueued - Len(pending_writes) + i

WireOrder ==
    ~unlocked_start =>
        /\ call = "open" => \A i \in 1..Len(wire) :
                                wire[i] = enqueued - Len(pending_writes) - Len(wire) + i
        /\ \A p \in Threads : Taking(p) =>
              pending_writes # <<>> /\ (target[p] # calls => wire = <<>>)

Inv ==
    /\ TypeOK
    /\ Locking
    /\ Targets
    /\ CallState
    /\ Budget
    /\ Outstanding
    /\ FlagState
    /\ QueueOrder
    /\ WireOrder
    /\ NoIdleBacklog

----------------------------------------------------------------------------
USE StreamAssumption

(* The places from which MaybeStartWriteLocked is called.                   *)
Site(p, check, take, done) ==
    \/ p = "main" /\ check = "hello_check" /\ take = "hello_take" /\ done = "ready_check"
    \/ p = "main" /\ check = "ready_check" /\ take = "ready_take" /\ done = "start_read"
    \/ p = "reader" /\ check = "check" /\ take = "take" /\ done = "reading"
    \/ p = "writer" /\ check = "check" /\ take = "take" /\ done = "idle"
    \/ p = "closer" /\ check = "check" /\ take = "take" /\ done = "callback"
    \/ p = "worker" /\ check = "check" /\ take = "take" /\ done = "idle"

SiteStep(p, check, take, done) ==
    MaybeStart(p, check, take, done) \/ StartWrite(p, take, done)

(* EnqueueWrite outside OnStreamReady.                                      *)
Send(p) ==
    /\ p \in {"reader", "closer", "worker"}
    /\ ~Holds(p, pc[p])
    /\ p = "reader" => pc[p] = "reading"
    /\ p = "closer" => pc[p] = "callback"
    /\ MayEnqueue
    /\ EnqueueWrite(p, "check")
    /\ UNCHANGED hello

(* A step that leaves the writes, the calls and the lock as they are.       *)
SameData ==
    /\ should_run' \in BOOLEAN
    /\ UNCHANGED <<writeVars, reactor, write_mu, target, enqueued, hello, callVars,
                   historyVars>>

Move(p, from, to) == pc[p] = from /\ Goto(p, to) /\ SameData

Quiet ==
    \/ StartRead
    \/ Move("main", "closed", "sleep")
    \/ Move("main", "sleep", "loop")
    \/ Move("main", "loop", "returned")
    \/ Move("main", "closed", "returned")
    \/ Move("main", "returned", "stopped")
    \/ Move("reader", "reading", "none")
    \/ Move("closer", "lock", "callback")
    \/ Move("closer", "callback", "done")
    \/ pc' = pc /\ SameData

Fails ==
    /\ call' = "failed"
    /\ CallInProgress
    /\ should_run' \in BOOLEAN
    /\ UNCHANGED <<writeVars, reactor, write_mu, pc, target, enqueued, hello, calls,
                   outstanding, wire, historyVars>>

(* The steps of the stream, those with the same effect taken together.      *)
LEMMA StepCases ==
    ASSUME TypeOK, CallState, [Next]_vars
    PROVE  \/ \E p, check, take, done :
                 Site(p, check, take, done) /\ SiteStep(p, check, take, done)
           \/ \E p \in Threads : Send(p)
           \/ Connect
           \/ OnStreamReady
           \/ SendHello
           \/ CallEnded
           \/ \E ok \in BOOLEAN : OnWriteFinished(ok)
           \/ Fails
           \/ ClearWrites
           \/ ClearReactor
           \/ Quiet
<1>1. ASSUME StartHello \/ StartBacklog \/ FinishMessage \/ FinishWrite \/ StartReport
                \/ WorkerStarts
      PROVE  \E p, check, take, done :
                 Site(p, check, take, done) /\ SiteStep(p, check, take, done)
  <2>1. CASE StartHello
    <3>1. Site("main", "hello_check", "hello_take", "ready_check")
      BY DEF Site
    <3>2. SiteStep("main", "hello_check", "hello_take", "ready_check")
      BY <2>1 DEF StartHello, SiteStep
    <3> QED
      BY <3>1, <3>2
  <2>2. CASE StartBacklog
    <3>1. Site("main", "ready_check", "ready_take", "start_read")
      BY DEF Site
    <3>2. SiteStep("main", "ready_check", "ready_take", "start_read")
      BY <2>2 DEF StartBacklog, SiteStep
    <3> QED
      BY <3>1, <3>2
  <2>3. CASE FinishMessage
    <3>1. Site("reader", "check", "take", "reading")
      BY DEF Site
    <3>2. SiteStep("reader", "check", "take", "reading")
      BY <2>3 DEF FinishMessage, SiteStep
    <3> QED
      BY <3>1, <3>2
  <2>4. CASE FinishWrite
    <3>1. Site("writer", "check", "take", "idle")
      BY DEF Site
    <3>2. SiteStep("writer", "check", "take", "idle")
      BY <2>4 DEF FinishWrite, SiteStep
    <3> QED
      BY <3>1, <3>2
  <2>5. CASE StartReport
    <3>1. Site("closer", "check", "take", "callback")
      BY DEF Site
    <3>2. SiteStep("closer", "check", "take", "callback")
      BY <2>5 DEF StartReport, SiteStep
    <3> QED
      BY <3>1, <3>2
  <2>6. CASE WorkerStarts
    <3>1. Site("worker", "check", "take", "idle")
      BY DEF Site
    <3>2. SiteStep("worker", "check", "take", "idle")
      BY <2>6 DEF WorkerStarts, SiteStep
    <3> QED
      BY <3>1, <3>2
  <2> QED
    BY <1>1, <2>1, <2>2, <2>3, <2>4, <2>5, <2>6
<1>2. ASSUME HandleMessage \/ ReportCancelled \/ WorkerEnqueues
      PROVE  \E p \in Threads : Send(p)
  <2>1. CASE HandleMessage
    <3>1. Send("reader")
      BY <2>1 DEF HandleMessage, Send, Holds
    <3> QED
      BY <3>1 DEF Threads
  <2>2. CASE ReportCancelled
    <3>1. Send("closer")
      BY <2>2 DEF ReportCancelled, Send, Holds
    <3> QED
      BY <3>1 DEF Threads
  <2>3. CASE WorkerEnqueues
    <3>1. Send("worker")
      BY <2>3 DEF WorkerEnqueues, Send, Holds
    <3> QED
      BY <3>1 DEF Threads
  <2> QED
    BY <1>2, <2>1, <2>2, <2>3
<1>3. ASSUME \/ StartRead \/ Backoff \/ WakeUp \/ LeaveLoop \/ ReadFails
             \/ LockCallback \/ StreamClosed \/ RequestStop \/ Terminated
             \/ UNCHANGED vars
      PROVE  Quiet
  <2>1. ASSUME Backoff \/ WakeUp \/ LeaveLoop \/ ReadFails \/ LockCallback \/ StreamClosed
        PROVE  \/ Move("main", "closed", "sleep")
               \/ Move("main", "sleep", "loop")
               \/ Move("main", "loop", "returned")
               \/ Move("main", "closed", "returned")
               \/ Move("reader", "reading", "none")
               \/ Move("closer", "lock", "callback")
               \/ Move("closer", "callback", "done")
    BY <2>1 DEF Backoff, WakeUp, LeaveLoop, ReadFails, LockCallback, StreamClosed,
                MainGoto, MainOnly, Move, SameData, TypeOK
  <2>2. ASSUME RequestStop \/ Terminated \/ UNCHANGED vars
        PROVE  pc' = pc /\ SameData
    BY <2>2 DEF RequestStop, Terminated, vars, SameData, TypeOK
  <2> QED
    BY <1>3, <2>1, <2>2 DEF Quiet
<1>4. ASSUME CallFails
      PROVE  Fails
  BY <1>4 DEF CallFails, Fails, CallInProgress, TypeOK
<1>5. ASSUME CancelStream
      PROVE  Fails \/ Quiet
  <2>1. CASE reactor # 0
    BY <1>5, <2>1 DEF CancelStream, Fails
  <2>2. CASE reactor = 0
    <3>1. pc' = pc /\ SameData
      BY <1>5, <2>2 DEF CancelStream, SameData, callVars
    <3> QED
      BY <3>1 DEF Quiet
  <2> QED
    BY <2>1, <2>2
<1>6. ASSUME Stop
      PROVE  Quiet
  <2>1. reactor = 0
    BY <1>6 DEF Stop, MainGoto, CallState, BetweenCalls
  <2>2. Move("main", "returned", "stopped")
    BY <1>6, <2>1 DEF Stop, MainGoto, Move, SameData, callVars, TypeOK
  <2> QED
    BY <2>2 DEF Quiet
<1> QED
  BY <1>1, <1>2, <1>3, <1>4, <1>5, <1>6 DEF Next, MainStep, CloserStep

(* No thread enters or leaves a critical section in a quiet step.           *)
LEMMA QuietMoves ==
    ASSUME TypeOK, CallState, Quiet
    PROVE  /\ SameData
           /\ write_mu' = write_mu
           /\ \A p \in Threads : Holds(p, pc'[p]) <=> Holds(p, pc[p])
           /\ \A p \in Threads : Taking(p)' <=> Taking(p)
           /\ Strict' => Strict
           /\ pc["main"] \in {"ready", "hello"} => pc'["main"] = pc["main"]
<1>1. SameData /\ write_mu' = write_mu /\ unlocked_start' = unlocked_start
  BY DEF Quiet, StartRead, Move, SameData, historyVars, TypeOK
<1>2. CASE StartRead
  <2>1. pc["main"] = "start_read" /\ pc["reader"] = "none"
    BY <1>2 DEF StartRead, CallState
  <2>2. /\ pc' = [pc EXCEPT !["main"] = "wait", !["reader"] = pc'["reader"]]
        /\ pc'["reader"] \in {"none", "reading"}
    BY <1>2, <2>1 DEF StartRead, TypeOK, Threads
  <2> QED
    BY <1>1, <2>1, <2>2 DEF TypeOK, Holds, Taking, Strict, Threads
<1>3. ASSUME NEW p \in Threads, NEW from, NEW to, Move(p, from, to),
             \/ p = "main" /\ to \in {"sleep", "loop", "returned", "stopped"}
                /\ from \in {"closed", "sleep", "loop", "returned"}
             \/ p = "reader" /\ from = "reading" /\ to = "none"
             \/ p = "closer" /\ from \in {"lock", "callback"} /\ to \in {"callback", "done"}
      PROVE  /\ \A q \in Threads : Holds(q, pc'[q]) <=> Holds(q, pc[q])
             /\ \A q \in Threads : Taking(q)' <=> Taking(q)
             /\ Strict' => Strict
             /\ pc["main"] \in {"ready", "hello"} => pc'["main"] = pc["main"]
  BY <1>1, <1>3 DEF Move, Goto, TypeOK, Holds, Taking, Strict, Threads
<1>4. CASE pc' = pc
  BY <1>1, <1>4 DEF Taking, Strict
<1> QED
  BY <1>1, <1>2, <1>3, <1>4 DEF Quiet, Threads

----------------------------------------------------------------------------
(* Room for the messages.                                                   *)
LEMMA BudgetStep ==
    ASSUME TypeOK, CallState, Budget, [Next]_vars
    PROVE  Budget'
<1> USE DEF Budget, TypeOK
<1>1. CASE \E p, check, take, done :
               Site(p, check, take, done) /\ SiteStep(p, check, take, done)
  BY <1>1 DEF Site, SiteStep, MaybeStart, StartWrite, Goto, callVars, Threads
<1>2. CASE \E p \in Threads : Send(p)
  BY <1>2 DEF Send, MayEnqueue, EnqueueWrite, Goto, callVars
<1>3. CASE Connect
  BY <1>3 DEF Connect, MainGoto, Goto, Threads
<1>4. CASE OnStreamReady
  BY <1>4 DEF OnStreamReady, MainGoto, Goto, callVars
<1>5. CASE SendHello
  BY <1>5 DEF SendHello, EnqueueWrite, Goto, callVars, Threads
<1>6. CASE CallEnded
  BY <1>6 DEF CallEnded, callVars, Threads
<1>7. CASE \E ok \in BOOLEAN : OnWriteFinished(ok)
  BY <1>7 DEF OnWriteFinished, Goto
<1>8. CASE Fails
  BY <1>8 DEF Fails
<1>9. CASE ClearWrites
  BY <1>9 DEF ClearWrites, Goto
<1>10. CASE ClearReactor
  BY <1>10 DEF ClearReactor, Goto, callVars
<1>11. CASE Quiet
  BY <1>11 DEF Quiet, StartRead, Move, SameData, Goto, callVars, Threads
<1> QED
  BY StepCases, <1>1, <1>2, <1>3, <1>4, <1>5, <1>6, <1>7, <1>8, <1>9, <1>10, <1>11

(* The queue of messages.                                                   *)
LEMMA QueueFacts ==
    ASSUME NEW S, NEW q \in Seq(S), q # <<>>
    PROVE  /\ Head(q) = q[1]
           /\ Head(q) \in S
           /\ Tail(q) \in Seq(S)
           /\ Len(Tail(q)) = Len(q) - 1
           /\ \A i \in 1..Len(Tail(q)) : Tail(q)[i] = q[i + 1]
           /\ Len(q) \in Nat /\ Len(q) >= 1
  BY HeadTailProperties, EmptySeq, LenProperties

(* What push_back does to the queue.                                        *)
LEMMA AppendFacts ==
    ASSUME NEW S, NEW q \in Seq(S), NEW m \in S
    PROVE  /\ Append(q, m) \in Seq(S)
           /\ Append(q, m) # <<>>
           /\ Len(Append(q, m)) = Len(q) + 1
           /\ \A i \in 1..Len(q) : Append(q, m)[i] = q[i]
           /\ Append(q, m)[Len(q) + 1] = m
  BY AppendProperties

(* Types of what the queue and the wire hold.                               *)
LEMMA TypeStep ==
    ASSUME Inv, [Next]_vars
    PROVE  TypeOK'
<1>0. TypeOK
  BY DEF Inv
<1> USE <1>0 DEF TypeOK
<1>1. ASSUME NEW p, NEW check, NEW take, NEW done,
             Site(p, check, take, done), MaybeStart(p, check, take, done)
      PROVE  TypeOK'
  BY <1>1 DEF Inv, Site, MaybeStart, Goto, Unlock, writeVars, callVars, historyVars,
              Threads, MainPCs, ReaderPCs, WriterPCs, CloserPCs, WorkerPCs
<1>2. ASSUME NEW p, NEW check, NEW take, NEW done,
             Site(p, check, take, done), StartWrite(p, take, done)
      PROVE  TypeOK'
  <2>1. Front \in Messages \cup {0} /\ Popped \in Seq(Messages)
    BY QueueFacts DEF Front, Popped
  <2>2. wire' \in Seq(Messages \cup {0})
    BY <1>2, <2>1, AppendFacts DEF StartWrite
  <2>3. outstanding' \in 0..2
    <3>1. target[p] = calls => outstanding <= 1
      BY <1>2 DEF Site, StartWrite, Inv, Outstanding, Taking, Strict, Threads
    <3> QED
      BY <1>2, <3>1 DEF StartWrite
  <2>4. /\ pc' \in [Threads -> MainPCs \cup ReaderPCs \cup WriterPCs \cup CloserPCs
                                 \cup WorkerPCs]
        /\ pc'["main"] \in MainPCs /\ pc'["reader"] \in ReaderPCs
        /\ pc'["writer"] \in WriterPCs /\ pc'["closer"] \in CloserPCs
        /\ pc'["worker"] \in WorkerPCs
    BY <1>2 DEF Site, StartWrite, Goto, Threads, MainPCs, ReaderPCs, WriterPCs, CloserPCs,
                WorkerPCs
  <2>5. target' \in [Threads -> 0..MaxCalls] /\ write_mu' \in Threads \cup {"free"}
    <3>1. 0 \in 0..MaxCalls
      OBVIOUS
    <3> QED
      BY <1>2, <3>1 DEF StartWrite, Unlock
  <2>6. unlocked_start' \in BOOLEAN /\ late_start' \in BOOLEAN /\ write_in_flight' \in BOOLEAN
    BY <1>2 DEF StartWrite
  <2> QED
    BY <1>2, <2>1, <2>2, <2>3, <2>4, <2>5, <2>6 DEF StartWrite
<1>3. ASSUME NEW p \in Threads, NEW check, EnqueueWrite(p, check), enqueued < MaxMessages + calls
      PROVE  /\ enqueued' \in Messages
             /\ pending_writes' \in Seq(Messages)
  <2>1. enqueued' \in Messages
    BY <1>3 DEF EnqueueWrite, Messages
  <2> QED
    BY <1>3, <2>1, AppendFacts DEF EnqueueWrite, PushBack
<1>4. CASE \E p \in Threads : Send(p)
  <2>1. PICK p \in Threads : Send(p)
    BY <1>4
  <2>2. enqueued < MaxMessages + calls
    BY <2>1 DEF Send, MayEnqueue
  <2>3. enqueued' \in Messages /\ pending_writes' \in Seq(Messages)
    BY <1>3, <2>1, <2>2 DEF Send
  <2>4. enqueued' \in 0..(MaxCalls + MaxMessages)
    BY <2>3 DEF Messages
  <2> QED
    BY <2>1, <2>3, <2>4 DEF Send, EnqueueWrite, Goto, callVars, historyVars, Threads,
       MainPCs, ReaderPCs, WriterPCs, CloserPCs, WorkerPCs
<1>5. CASE SendHello
  <2>1. enqueued' \in Messages /\ pending_writes' \in Seq(Messages)
    BY <1>3, <1>5 DEF SendHello, Inv, Budget, Threads
  <2>2. enqueued' \in 0..(MaxCalls + MaxMessages)
    BY <2>1 DEF Messages
  <2> QED
    BY <1>5, <2>1, <2>2 DEF SendHello, EnqueueWrite, Goto, callVars, historyVars, Threads,
       MainPCs
<1>6. CASE Connect
  <2>1. <<>> \in Seq(Messages \cup {0})
    BY EmptySeq
  <2> QED
    BY <1>6, <2>1 DEF Connect, MainGoto, Goto, writeVars, historyVars, Threads, MainPCs
<1>7. CASE OnStreamReady
  BY <1>7 DEF OnStreamReady, MainGoto, Goto, writeVars, callVars, historyVars, Threads,
              MainPCs
<1>8. CASE CallEnded
  BY <1>8 DEF CallEnded, ResetReactor, writeVars, callVars, historyVars, Threads, MainPCs,
              CloserPCs
<1>9. ASSUME NEW ok \in BOOLEAN, OnWriteFinished(ok)
      PROVE  TypeOK'
  <2>1. pending_writes' \in Seq(Messages)
    BY <1>9, EmptySeq DEF OnWriteFinished, QueueAfterWrite
  <2>2. outstanding' \in 0..2 /\ current_write' \in Messages \cup {0}
    BY <1>9 DEF OnWriteFinished
  <2>3. /\ pc' = [pc EXCEPT !["writer"] = "check"]
        /\ write_mu' = "writer" /\ write_in_flight' = FALSE
        /\ UNCHANGED <<reactor, should_run, target, enqueued, hello, calls, call, wire,
                       unlocked_start, late_start>>
    BY <1>9 DEF OnWriteFinished, FlagCleared, Goto, historyVars
  <2> QED
    BY <2>1, <2>2, <2>3 DEF Threads, WriterPCs
<1>10. CASE Fails
  <2>1. /\ call' \in {"open", "failed", "ended"}
        /\ should_run' \in BOOLEAN
        /\ UNCHANGED <<pending_writes, current_write, write_in_flight, reactor, write_mu, pc,
                       target, enqueued, hello, calls, outstanding, wire, unlocked_start,
                       late_start>>
    BY <1>10 DEF Fails, writeVars, historyVars
  <2> QED
    BY <2>1, Zenon
<1>11. CASE ClearWrites
  <2>1. <<>> \in Seq(Messages)
    BY EmptySeq
  <2> QED
    BY <1>11, <2>1 DEF ClearWrites, Goto, historyVars, Threads, CloserPCs
<1>12. CASE ClearReactor
  BY <1>12 DEF ClearReactor, Goto, writeVars, callVars, historyVars, Threads, CloserPCs
<1>13. CASE Quiet
  <2>1. SameData /\ UNCHANGED writeVars
    BY <1>13 DEF Quiet, StartRead, Move, SameData
  <2>2. /\ pc' \in [Threads -> MainPCs \cup ReaderPCs \cup WriterPCs \cup CloserPCs
                                 \cup WorkerPCs]
        /\ pc'["main"] \in MainPCs /\ pc'["reader"] \in ReaderPCs
        /\ pc'["writer"] \in WriterPCs /\ pc'["closer"] \in CloserPCs
        /\ pc'["worker"] \in WorkerPCs
    BY <1>13 DEF Quiet, StartRead, Move, Goto, Threads, MainPCs, ReaderPCs, CloserPCs
  <2> QED
    BY <2>1, <2>2 DEF SameData, writeVars, callVars, historyVars
<1> QED
  BY StepCases, <1>1, <1>2, <1>4, <1>5, <1>6, <1>7, <1>8, <1>9, <1>10, <1>11, <1>12, <1>13
     DEF SiteStep, Inv

(* write_mu_ and the places where it is held.                               *)
LEMMA LockingStep ==
    ASSUME TypeOK, CallState, Locking, [Next]_vars
    PROVE  Locking'
<1> USE DEF Locking, TypeOK, Holds
<1>1. ASSUME NEW p, NEW check, NEW take, NEW done,
             Site(p, check, take, done), MaybeStart(p, check, take, done)
      PROVE  Locking'
  BY <1>1 DEF Site, MaybeStart, Goto, Unlock, Threads
<1>2. ASSUME NEW p, NEW check, NEW take, NEW done,
             Site(p, check, take, done), StartWrite(p, take, done)
      PROVE  Locking'
  BY <1>2 DEF Site, StartWrite, Goto, Unlock, Threads
<1>3. CASE \E p \in Threads : Send(p)
  BY <1>3 DEF Send, EnqueueWrite, Goto, Threads
<1>4. CASE SendHello
  BY <1>4 DEF SendHello, EnqueueWrite, Goto, Threads
<1>5. CASE Connect \/ OnStreamReady \/ CallEnded
  BY <1>5 DEF Connect, OnStreamReady, CallEnded, MainGoto, Goto, Threads
<1>6. CASE \E ok \in BOOLEAN : OnWriteFinished(ok)
  BY <1>6 DEF OnWriteFinished, Goto, Threads
<1>7. CASE Fails
  BY <1>7 DEF Fails
<1>8. CASE ClearWrites \/ ClearReactor
  BY <1>8 DEF ClearWrites, ClearReactor, Goto, Threads
<1>9. CASE Quiet
  <2>1. \A p \in Threads : Holds(p, pc'[p]) <=> Holds(p, pc[p])
    BY <1>9, QuietMoves
  <2> QED
    BY <1>9, <2>1, QuietMoves
<1> QED
  BY StepCases, <1>1, <1>2, <1>3, <1>4, <1>5, <1>6, <1>7, <1>8, <1>9 DEF SiteStep

(* A reactor that was read never becomes one of a later call.               *)
LEMMA TargetsStep ==
    ASSUME TypeOK, CallState, Targets, [Next]_vars
    PROVE  Targets'
<1> USE DEF Targets, TypeOK
<1>1. ASSUME NEW p, NEW check, NEW take, NEW done,
             Site(p, check, take, done), MaybeStart(p, check, take, done)
      PROVE  Targets'
  BY <1>1 DEF Site, MaybeStart, MayStart, CallState, Goto, callVars, Threads
<1>2. ASSUME NEW p, NEW check, NEW take, NEW done,
             Site(p, check, take, done), StartWrite(p, take, done)
      PROVE  Targets'
  BY <1>2 DEF Site, StartWrite, Goto, Threads
<1>3. CASE \E p \in Threads : Send(p)
  BY <1>3 DEF Send, EnqueueWrite, Goto, callVars, Threads
<1>4. CASE SendHello
  BY <1>4 DEF SendHello, EnqueueWrite, Goto, callVars, Threads
<1>5. CASE Connect \/ OnStreamReady \/ CallEnded
  BY <1>5 DEF Connect, OnStreamReady, CallEnded, MainGoto, Goto, callVars, Threads
<1>6. CASE \E ok \in BOOLEAN : OnWriteFinished(ok)
  BY <1>6 DEF OnWriteFinished, Goto, Threads
<1>7. CASE Fails
  BY <1>7 DEF Fails
<1>8. CASE ClearWrites \/ ClearReactor
  BY <1>8 DEF ClearWrites, ClearReactor, Goto, callVars, Threads
<1>9. CASE Quiet
  BY <1>9 DEF Quiet, StartRead, Move, SameData, Goto, callVars, Threads
<1> QED
  BY StepCases, <1>1, <1>2, <1>3, <1>4, <1>5, <1>6, <1>7, <1>8, <1>9 DEF SiteStep

(* The state of the current call.  A step of MaybeStartWriteLocked happens  *)
(* outside the closer only within one turn of the loop of Run.              *)
LEMMA CallStateStep ==
    ASSUME TypeOK, CallState, [Next]_vars
    PROVE  CallState'
<1> USE DEF CallState, BetweenCalls, TypeOK
<1>1. ASSUME NEW p, NEW check, NEW take, NEW done,
             Site(p, check, take, done), MaybeStart(p, check, take, done)
      PROVE  CallState'
  BY <1>1 DEF Site, MaybeStart, Goto, callVars, Threads
<1>2. ASSUME NEW p, NEW check, NEW take, NEW done,
             Site(p, check, take, done), StartWrite(p, take, done)
      PROVE  CallState'
  BY <1>2 DEF Site, StartWrite, Goto, Threads
<1>3. CASE \E p \in Threads : Send(p)
  BY <1>3 DEF Send, EnqueueWrite, Goto, callVars, Threads
<1>4. CASE SendHello
  BY <1>4 DEF SendHello, EnqueueWrite, Goto, callVars, Threads
<1>5. CASE Connect \/ OnStreamReady \/ CallEnded
  BY <1>5 DEF Connect, OnStreamReady, CallEnded, ResetReactor, MainGoto, Goto, callVars,
              Threads
<1>6. CASE \E ok \in BOOLEAN : OnWriteFinished(ok)
  BY <1>6 DEF OnWriteFinished, Goto, Threads
<1>7. CASE Fails
  BY <1>7 DEF Fails, CallInProgress
<1>8. CASE ClearWrites \/ ClearReactor
  BY <1>8 DEF ClearWrites, ClearReactor, NothingOutstanding, Goto, callVars, Threads
<1>9. CASE Quiet
  BY <1>9 DEF Quiet, StartRead, Move, SameData, CallInProgress, Goto, callVars, Threads
<1> QED
  BY StepCases, <1>1, <1>2, <1>3, <1>4, <1>5, <1>6, <1>7, <1>8, <1>9 DEF SiteStep

----------------------------------------------------------------------------
(* Whoever takes a message off the queue under write_mu_ is alone; only the *)
(* last call of OnStreamReady does so without it.                           *)
LEMMA TakeFacts ==
    ASSUME TypeOK, Locking, NEW p, NEW check, NEW take, NEW done,
           Site(p, check, take, done), StartWrite(p, take, done)
    PROVE  /\ p \in Threads
           /\ write_mu = p <=> take # "ready_take"
           /\ take = "ready_take" => p = "main"
           /\ take # "ready_take" => Taking(p)
           /\ unlocked_start' = (unlocked_start \/ take = "ready_take")
           /\ \A q \in Threads : q # p => (Taking(q)' <=> Taking(q))
           /\ ~Taking(p)'
           /\ take # "ready_take" => \A q \in Threads : q # p => ~Taking(q)
           /\ Strict' => Strict /\ take # "ready_take"
           /\ take = "ready_take" => Strict
<1>1. p \in Threads /\ (take = "ready_take" => p = "main" /\ done = "start_read")
  BY DEF Site, Threads
<1>2. pc[p] = take /\ pc' = [pc EXCEPT ![p] = done]
  BY DEF StartWrite, Goto
<1>3. write_mu = p <=> take # "ready_take"
  BY <1>1, <1>2 DEF Site, Locking, Holds
<1>4. unlocked_start' = (unlocked_start \/ take = "ready_take")
  BY <1>3 DEF StartWrite
<1>5. take # "ready_take" => Taking(p)
  BY <1>2 DEF Site, Taking
<1>6. \A q \in Threads : q # p => (Taking(q)' <=> Taking(q))
  BY <1>1, <1>2 DEF TypeOK, Taking
<1>7. ~Taking(p)'
  BY <1>1, <1>2 DEF TypeOK, Taking, Site
<1>8. take # "ready_take" => \A q \in Threads : q # p => ~Taking(q)
  BY <1>3 DEF Locking, Holds, Taking
<1>9. take = "ready_take" => Strict
  BY <1>1, <1>2 DEF Strict
<1>10. ASSUME Strict'
       PROVE  Strict /\ take # "ready_take"
  <2>1. unlocked_start' => pc'["main"] \in {"ready", "hello", "hello_check", "hello_take",
                                            "ready_check", "ready_take"}
    BY <1>10 DEF Strict
  <2>2. CASE p = "main"
    BY <1>2, <1>4, <2>1, <2>2 DEF Strict, TypeOK, Site, Threads
  <2>3. CASE p # "main"
    BY <1>1, <1>2, <1>4, <2>1, <2>3 DEF Strict, TypeOK, Threads
  <2> QED
    BY <2>2, <2>3
<1> QED
  BY <1>1, <1>3, <1>4, <1>5, <1>6, <1>7, <1>8, <1>9, <1>10

(* A thread that finds it may start a write has read the current reactor.   *)
LEMMA CheckFacts ==
    ASSUME TypeOK, Locking, CallState, NEW p, NEW check, NEW take, NEW done,
           Site(p, check, take, done), MaybeStart(p, check, take, done)
    PROVE  /\ p \in Threads
           /\ \A q \in Threads : q # p => (Taking(q)' <=> Taking(q)) /\ target'[q] = target[q]
           /\ Taking(p)' => MayStart /\ target'[p] = calls
           /\ Strict' => Strict
           /\ UNCHANGED <<pending_writes, current_write, write_in_flight, reactor, enqueued,
                          hello, calls, call, outstanding, wire, unlocked_start, late_start>>
<1>1. p \in Threads
  BY DEF Site, Threads
<1>2. UNCHANGED <<pending_writes, current_write, write_in_flight, reactor, enqueued, hello,
                  calls, call, outstanding, wire, unlocked_start, late_start>>
  BY DEF MaybeStart, writeVars, callVars, historyVars
<1>3. \A q \in Threads : q # p => (Taking(q)' <=> Taking(q)) /\ target'[q] = target[q]
  BY <1>1 DEF MaybeStart, Goto, Taking, TypeOK
<1>4. Taking(p)' => MayStart /\ target'[p] = calls
  BY <1>1 DEF MaybeStart, MayStart, Goto, Taking, TypeOK, Site, CallState
<1>5. ASSUME Strict'
      PROVE  Strict
  BY <1>2, <1>5 DEF MaybeStart, Goto, Strict, TypeOK, Site, Threads
<1> QED
  BY <1>1, <1>2, <1>3, <1>4, <1>5

(* Nobody is inside the critical section while write_mu_ is free.           *)
LEMMA FreeFacts ==
    ASSUME TypeOK, Locking, write_mu = "free"
    PROVE  \A p \in Threads : ~Taking(p) /\ ~Holds(p, pc[p])
  BY DEF Locking, Holds, Taking, Threads

(* A message is pushed by a thread that has just taken write_mu_.           *)
LEMMA PushFacts ==
    ASSUME TypeOK, Locking, Budget, SendHello \/ \E p \in Threads : Send(p)
    PROVE  /\ write_mu = "free" /\ write_mu' # "free"
           /\ \A p \in Threads : ~Taking(p)'
           /\ Strict' => Strict
           /\ enqueued' = enqueued + 1
           /\ enqueued' \in Messages
           /\ pending_writes' = Append(pending_writes, enqueued')
           /\ UNCHANGED <<write_in_flight, reactor, target, calls, call, outstanding, wire,
                          unlocked_start, late_start>>
<1>1. PICK p \in Threads, check \in {"hello_check", "check"} :
          /\ EnqueueWrite(p, check)
          /\ check = "hello_check" <=> p = "main"
          /\ p = "main" => pc["main"] = "hello"
          /\ enqueued < MaxMessages + calls
  <2>1. ASSUME SendHello
        PROVE  /\ EnqueueWrite("main", "hello_check") /\ pc["main"] = "hello"
               /\ enqueued < MaxMessages + calls /\ "main" \in Threads
    BY <2>1 DEF SendHello, Budget, Threads
  <2>2. ASSUME NEW p \in Threads, Send(p)
        PROVE  EnqueueWrite(p, "check") /\ p # "main" /\ enqueued < MaxMessages + calls
    BY <2>2 DEF Send, MayEnqueue, TypeOK
  <2> QED
    BY <2>1, <2>2
<1>2. /\ write_mu = "free" /\ write_mu' = p
      /\ enqueued' = enqueued + 1
      /\ pending_writes' = Append(pending_writes, enqueued')
      /\ pc' = [pc EXCEPT ![p] = check]
      /\ UNCHANGED <<write_in_flight, reactor, target, calls, call, outstanding, wire,
                     unlocked_start, late_start>>
  BY <1>1 DEF EnqueueWrite, PushBack, Goto, callVars, historyVars
<1>3. \A q \in Threads : ~Taking(q)'
  BY <1>1, <1>2, FreeFacts DEF Taking, TypeOK
<1>4. Strict' => Strict
  BY <1>1, <1>2 DEF Strict, TypeOK, Threads
<1>5. enqueued' \in Messages
  BY <1>1, <1>2 DEF TypeOK, Messages
<1>6. write_mu' # "free"
  BY <1>2 DEF Threads
<1> QED
  BY <1>2, <1>3, <1>4, <1>5, <1>6

(* A completed write: nobody is about to start one.                         *)
LEMMA FinishFacts ==
    ASSUME TypeOK, Locking, NEW ok \in BOOLEAN, OnWriteFinished(ok)
    PROVE  /\ \A p \in Threads : ~Taking(p)'
           /\ Strict' => Strict
           /\ outstanding > 0 /\ outstanding' = outstanding - 1
           /\ write_in_flight' = FALSE
           /\ write_mu' = "writer"
           /\ pending_writes' = QueueAfterWrite(ok)
           /\ call = "open" => ok
           /\ UNCHANGED <<reactor, target, enqueued, calls, call, wire, unlocked_start,
                          late_start>>
<1>1. /\ write_mu = "free"
      /\ pc' = [pc EXCEPT !["writer"] = "check"]
      /\ outstanding > 0 /\ outstanding' = outstanding - 1
      /\ write_in_flight' = FALSE
      /\ write_mu' = "writer"
      /\ pending_writes' = QueueAfterWrite(ok)
      /\ call = "open" => ok
      /\ UNCHANGED <<reactor, target, enqueued, calls, call, wire, unlocked_start, late_start>>
  BY DEF OnWriteFinished, FlagCleared, Goto, historyVars
<1>2. \A p \in Threads : ~Taking(p)'
  BY <1>1, FreeFacts DEF Taking, TypeOK, Threads
<1>3. Strict' => Strict
  BY <1>1 DEF Strict, TypeOK, Threads
<1> QED
  BY <1>1, <1>2, <1>3

(* OnStreamClosed clears the write state.                                   *)
LEMMA ClearFacts ==
    ASSUME TypeOK, Locking, ClearWrites
    PROVE  /\ \A p \in Threads : ~Taking(p)'
           /\ call = "failed" /\ call' = "ended"
           /\ outstanding = 0 /\ write_in_flight' = FALSE /\ pending_writes' = <<>>
           /\ UNCHANGED <<reactor, target, enqueued, calls, outstanding, wire,
                          unlocked_start, late_start>>
<1>1. /\ write_mu = "free"
      /\ pc' = [pc EXCEPT !["closer"] = "reactor"]
      /\ call = "failed" /\ call' = "ended"
      /\ outstanding = 0 /\ write_in_flight' = FALSE /\ pending_writes' = <<>>
      /\ UNCHANGED <<reactor, target, enqueued, calls, outstanding, wire, unlocked_start,
                     late_start>>
  BY DEF ClearWrites, NothingOutstanding, Goto, historyVars
<1>2. \A p \in Threads : ~Taking(p)'
  BY <1>1, FreeFacts DEF Taking, TypeOK, Threads
<1> QED
  BY <1>1, <1>2

(* The steps that leave the queue, the writes and the call as they are.     *)
LEMMA CalmFacts ==
    ASSUME TypeOK, CallState, OnStreamReady \/ CallEnded \/ ClearReactor \/ Fails \/ Quiet
    PROVE  /\ \A p \in Threads : Taking(p)' <=> Taking(p)
           /\ Strict' => Strict
           /\ call' # call => Fails
           /\ UNCHANGED <<pending_writes, write_in_flight, write_mu, target, enqueued, calls,
                          outstanding, wire, unlocked_start, late_start>>
<1>1. CASE OnStreamReady
  BY <1>1 DEF OnStreamReady, MainGoto, Goto, Taking, Strict, TypeOK, Threads, writeVars,
              callVars, historyVars
<1>2. CASE CallEnded
  BY <1>2 DEF CallEnded, Taking, Strict, TypeOK, Threads, writeVars, callVars, historyVars
<1>3. CASE ClearReactor
  BY <1>3 DEF ClearReactor, Goto, Taking, Strict, TypeOK, Threads, writeVars, callVars,
              historyVars
<1>4. CASE Fails
  BY <1>4 DEF Fails, Taking, Strict, writeVars, historyVars
<1>5. CASE Quiet
  BY <1>5, QuietMoves DEF SameData, writeVars, callVars, historyVars
<1> QED
  BY <1>1, <1>2, <1>3, <1>4, <1>5

----------------------------------------------------------------------------
(* The writes that are not completed.                                       *)
LEMMA OutstandingStep ==
    ASSUME Inv, [Next]_vars
    PROVE  Outstanding'
<1>0. TypeOK /\ Locking /\ CallState /\ Budget
  BY DEF Inv
<1> USE <1>0
<1>1. ASSUME NEW p, NEW check, NEW take, NEW done,
             Site(p, check, take, done), MaybeStart(p, check, take, done)
      PROVE  Outstanding'
  <2>1. /\ outstanding' = outstanding /\ write_in_flight' = write_in_flight
        /\ calls' = calls /\ (Strict' => Strict)
    BY <1>1, CheckFacts
  <2>2. ASSUME NEW q \in Threads, Taking(q)', target'[q] = calls
        PROVE  outstanding <= 1 /\ (Strict => ~write_in_flight)
    <3>1. CASE q = p
      <4>1. ~write_in_flight
        BY <1>1, <2>2, <3>1, CheckFacts DEF MayStart
      <4>2. outstanding # 2
        BY <4>1 DEF Inv, Outstanding
      <4> QED
        BY <4>1, <4>2 DEF TypeOK
    <3>2. CASE q # p
      <4>1. Taking(q) /\ target[q] = calls
        BY <1>1, <2>2, <3>2, CheckFacts
      <4> QED
        BY <4>1 DEF Inv, Outstanding
    <3> QED
      BY <3>1, <3>2
  <2> QED
    BY <2>1, <2>2 DEF Inv, Outstanding
<1>2. ASSUME NEW p, NEW check, NEW take, NEW done,
             Site(p, check, take, done), StartWrite(p, take, done)
      PROVE  Outstanding'
  <2>1. CASE take = "ready_take"
    <3>1. target[p] = calls /\ Strict /\ ~Strict' /\ outstanding <= 1
      BY <1>2, <2>1, TakeFacts DEF Inv, Outstanding, Targets, StartWrite
    <3>2. outstanding' = outstanding + 1 /\ write_in_flight' = TRUE /\ calls' = calls
      BY <1>2, <3>1 DEF StartWrite
    <3>3. ASSUME NEW q \in Threads, Taking(q)', target'[q] = calls
          PROVE  outstanding' <= 1
      <4>1. q # p /\ Taking(q) /\ target[q] = calls
        BY <1>2, <3>3, TakeFacts DEF StartWrite, TypeOK
      <4>2. ~write_in_flight /\ outstanding <= 1
        BY <3>1, <4>1 DEF Inv, Outstanding
      <4>3. outstanding = 0
        BY <3>1, <4>2 DEF Inv, Outstanding, TypeOK
      <4> QED
        BY <3>2, <4>3
    <3> QED
      BY <3>1, <3>2, <3>3 DEF Outstanding
  <2>2. CASE take # "ready_take"
    <3>1. \A q \in Threads : ~Taking(q)'
      BY <1>2, <2>2, TakeFacts
    <3>2. write_in_flight' = TRUE
      BY <1>2 DEF StartWrite
    <3>3. ASSUME Strict'
          PROVE  outstanding' <= 1
      <4>1. Strict /\ Taking(p) /\ p \in Threads
        BY <1>2, <2>2, <3>3, TakeFacts
      <4>2. target[p] = calls => ~write_in_flight /\ outstanding <= 1
        BY <4>1 DEF Inv, Outstanding
      <4>3. target[p] = calls => outstanding = 0
        BY <4>1, <4>2 DEF Inv, Outstanding, TypeOK
      <4>4. outstanding <= 1
        BY <4>1 DEF Inv, Outstanding
      <4> QED
        BY <1>2, <4>3, <4>4 DEF StartWrite
    <3> QED
      BY <3>1, <3>2, <3>3 DEF Outstanding
  <2> QED
    BY <2>1, <2>2
<1>3. CASE SendHello \/ \E p \in Threads : Send(p)
  BY <1>3, PushFacts DEF Inv, Outstanding
<1>4. CASE Connect
  <2>1. outstanding' = 0 /\ \A p \in Threads : target'[p] # calls'
    BY <1>4 DEF Connect, Inv, Targets, TypeOK
  <2> QED
    BY <2>1 DEF Outstanding
<1>5. ASSUME NEW ok \in BOOLEAN, OnWriteFinished(ok)
      PROVE  Outstanding'
  <2>1. outstanding' <= 1 /\ (Strict' => outstanding' = 0)
    <3>1. outstanding' = outstanding - 1 /\ (Strict' => Strict)
      BY <1>5, FinishFacts
    <3>2. Strict => outstanding <= 1
      BY DEF Inv, Outstanding
    <3>3. outstanding \in 0..2 /\ outstanding > 0
      BY <1>5, FinishFacts DEF TypeOK
    <3> QED
      BY <3>1, <3>2, <3>3
  <2>2. outstanding' # 2 /\ (Strict' => outstanding' # 1 /\ outstanding' <= 1)
    BY <2>1
  <2>3. \A p \in Threads : ~Taking(p)'
    BY <1>5, FinishFacts
  <2> QED
    BY <2>2, <2>3 DEF Outstanding
<1>6. CASE ClearWrites
  BY <1>6, ClearFacts DEF Outstanding
<1>7. CASE OnStreamReady \/ CallEnded \/ ClearReactor \/ Fails \/ Quiet
  BY <1>7, CalmFacts DEF Inv, Outstanding
<1> QED
  BY StepCases, <1>1, <1>2, <1>3, <1>4, <1>5, <1>6, <1>7 DEF SiteStep

(* write_in_flight_ stands for a write of the current call.                 *)
LEMMA FlagStep ==
    ASSUME Inv, [Next]_vars
    PROVE  FlagState'
<1>0. TypeOK /\ Locking /\ CallState /\ Budget /\ FlagState
  BY DEF Inv
<1> USE <1>0
<1>1. ASSUME NEW p, NEW check, NEW take, NEW done,
             Site(p, check, take, done), MaybeStart(p, check, take, done)
      PROVE  FlagState'
  BY <1>1, CheckFacts DEF FlagState, CallInProgress
<1>2. ASSUME NEW p, NEW check, NEW take, NEW done,
             Site(p, check, take, done), StartWrite(p, take, done)
      PROVE  FlagState'
  <2>1. ASSUME ~late_start'
        PROVE  target[p] = calls /\ CallInProgress
    BY <1>2, <2>1 DEF StartWrite
  <2>2. ASSUME ~late_start'
        PROVE  outstanding' > 0 /\ CallInProgress'
    BY <1>2, <2>1, <2>2 DEF StartWrite, TypeOK, CallInProgress
  <2> QED
    BY <2>2 DEF FlagState
<1>3. CASE SendHello \/ \E p \in Threads : Send(p)
  BY <1>3, PushFacts DEF FlagState, CallInProgress
<1>4. CASE Connect
  <2>1. ~CallInProgress /\ UNCHANGED <<write_in_flight, late_start>>
    BY <1>4 DEF Connect, MainGoto, CallState, BetweenCalls, CallInProgress, writeVars,
                historyVars
  <2> QED
    BY <2>1 DEF FlagState
<1>5. ASSUME NEW ok \in BOOLEAN, OnWriteFinished(ok)
      PROVE  FlagState'
  BY <1>5, FinishFacts DEF FlagState
<1>6. CASE ClearWrites
  BY <1>6, ClearFacts DEF FlagState
<1>7. CASE OnStreamReady \/ CallEnded \/ ClearReactor \/ Fails \/ Quiet
  <2>1. CallInProgress => CallInProgress'
    BY <1>7, CalmFacts DEF CallInProgress, Fails
  <2> QED
    BY <1>7, <2>1, CalmFacts DEF FlagState
<1> QED
  BY StepCases, <1>1, <1>2, <1>3, <1>4, <1>5, <1>6, <1>7 DEF SiteStep

(* A message waits on a stream only behind a write.                         *)
LEMMA BacklogStep ==
    ASSUME Inv, [Next]_vars
    PROVE  NoIdleBacklog'
<1>0. TypeOK /\ Locking /\ CallState /\ Budget /\ NoIdleBacklog
  BY DEF Inv
<1> USE <1>0
<1>1. ASSUME NEW p, NEW check, NEW take, NEW done,
             Site(p, check, take, done), MaybeStart(p, check, take, done)
      PROVE  NoIdleBacklog'
  <2>1. UNCHANGED <<pending_writes, write_in_flight, reactor>>
    BY <1>1, CheckFacts
  <2>2. CASE MayStart
    <3>1. write_mu' = write_mu
      BY <1>1, <2>2 DEF MaybeStart
    <3>2. write_mu = "free" => pc["main"] = "ready_check"
      BY <1>1 DEF Site, MaybeStart, Locking, Holds, Threads
    <3> QED
      BY <2>1, <3>1, <3>2 DEF NoIdleBacklog
  <2>3. CASE ~MayStart
    BY <2>1, <2>3 DEF NoIdleBacklog, MayStart
  <2> QED
    BY <2>2, <2>3
<1>2. ASSUME NEW p, NEW check, NEW take, NEW done,
             Site(p, check, take, done), StartWrite(p, take, done)
      PROVE  NoIdleBacklog'
  BY <1>2 DEF StartWrite, NoIdleBacklog
<1>3. CASE SendHello \/ \E p \in Threads : Send(p)
  BY <1>3, PushFacts DEF NoIdleBacklog
<1>4. CASE Connect \/ OnStreamReady
  BY <1>4 DEF Connect, OnStreamReady, MainGoto, Goto, NoIdleBacklog, TypeOK, Threads
<1>5. ASSUME NEW ok \in BOOLEAN, OnWriteFinished(ok)
      PROVE  NoIdleBacklog'
  BY <1>5, FinishFacts DEF NoIdleBacklog
<1>6. CASE ClearWrites
  BY <1>6, ClearFacts DEF NoIdleBacklog
<1>7. CASE CallEnded \/ ClearReactor
  <2>1. reactor' = 0
    BY <1>7 DEF CallEnded, ResetReactor, ClearReactor, CallState
  <2> QED
    BY <2>1 DEF NoIdleBacklog
<1>8. CASE Fails
  BY <1>8 DEF Fails, writeVars, NoIdleBacklog
<1>9. CASE Quiet
  <2>1. /\ UNCHANGED <<pending_writes, write_in_flight, reactor, write_mu>>
        /\ pc["main"] \in {"ready", "hello"} => pc'["main"] = pc["main"]
    BY <1>9, QuietMoves DEF SameData, writeVars
  <2> QED
    BY <2>1 DEF NoIdleBacklog
<1> QED
  BY StepCases, <1>1, <1>2, <1>3, <1>4, <1>5, <1>6, <1>7, <1>8, <1>9 DEF SiteStep

----------------------------------------------------------------------------
(* The queue after a push and after a message was taken off it.             *)
LEMMA QueueOrderStep ==
    ASSUME Inv, [Next]_vars
    PROVE  QueueOrder'
<1>0. TypeOK /\ Locking /\ CallState /\ Budget /\ QueueOrder
  BY DEF Inv
<1> USE <1>0
<1>1. ASSUME NEW p, NEW check, NEW take, NEW done,
             Site(p, check, take, done), MaybeStart(p, check, take, done)
      PROVE  QueueOrder'
  BY <1>1, CheckFacts DEF QueueOrder
<1>2. ASSUME NEW p, NEW check, NEW take, NEW done,
             Site(p, check, take, done), StartWrite(p, take, done)
      PROVE  QueueOrder'
  <2>1. pending_writes' = Popped /\ enqueued' = enqueued /\ enqueued \in Nat
    BY <1>2 DEF StartWrite, TypeOK
  <2>2. CASE pending_writes = <<>>
    BY <2>1, <2>2 DEF Popped, QueueOrder
  <2>3. CASE pending_writes # <<>>
    <3>1. pending_writes' = Tail(pending_writes)
      BY <2>1, <2>3 DEF Popped
    <3>2. /\ Len(pending_writes') = Len(pending_writes) - 1
          /\ \A i \in 1..Len(pending_writes') : pending_writes'[i] = pending_writes[i + 1]
          /\ Len(pending_writes) \in Nat /\ Len(pending_writes) >= 1
      BY <2>3, <3>1, QueueFacts DEF TypeOK
    <3> QED
      BY <2>1, <3>2 DEF QueueOrder
  <2> QED
    BY <2>2, <2>3
<1>3. CASE SendHello \/ \E p \in Threads : Send(p)
  <2>1. enqueued' = enqueued + 1 /\ enqueued' \in Messages /\ enqueued \in Nat
        /\ pending_writes' = Append(pending_writes, enqueued')
    BY <1>3, PushFacts DEF TypeOK
  <2>2. /\ Len(pending_writes') = Len(pending_writes) + 1
        /\ \A i \in 1..Len(pending_writes) : pending_writes'[i] = pending_writes[i]
        /\ pending_writes'[Len(pending_writes) + 1] = enqueued'
        /\ Len(pending_writes) \in Nat
    BY <2>1, AppendFacts, LenProperties DEF TypeOK
  <2> QED
    BY <2>1, <2>2 DEF QueueOrder
<1>4. CASE Connect
  BY <1>4 DEF Connect, writeVars, QueueOrder
<1>5. ASSUME NEW ok \in BOOLEAN, OnWriteFinished(ok)
      PROVE  QueueOrder'
  <2>1. pending_writes' \in {pending_writes, <<>>} /\ enqueued' = enqueued
    BY <1>5, FinishFacts DEF QueueAfterWrite
  <2>2. Len(<<>>) = 0
    OBVIOUS
  <2> QED
    BY <2>1, <2>2 DEF QueueOrder
<1>6. CASE ClearWrites
  BY <1>6, ClearFacts DEF QueueOrder
<1>7. CASE OnStreamReady \/ CallEnded \/ ClearReactor \/ Fails \/ Quiet
  BY <1>7, CalmFacts DEF QueueOrder
<1> QED
  BY StepCases, <1>1, <1>2, <1>3, <1>4, <1>5, <1>6, <1>7 DEF SiteStep

(* The wire of an open call goes on where it stopped.                       *)
LEMMA WireOrderStep ==
    ASSUME Inv, [Next]_vars
    PROVE  WireOrder'
<1>0. TypeOK /\ Locking /\ CallState /\ Budget /\ QueueOrder /\ WireOrder
  BY DEF Inv
<1> USE <1>0
<1>1. ASSUME NEW p, NEW check, NEW take, NEW done,
             Site(p, check, take, done), MaybeStart(p, check, take, done)
      PROVE  WireOrder'
  BY <1>1, CheckFacts DEF WireOrder, MayStart
<1>2. ASSUME NEW p, NEW check, NEW take, NEW done,
             Site(p, check, take, done), StartWrite(p, take, done)
      PROVE  WireOrder'
  <2> SUFFICES ASSUME ~unlocked_start'
               PROVE  /\ call' = "open" =>
                            \A i \in 1..Len(wire') :
                               wire'[i] = enqueued' - Len(pending_writes') - Len(wire') + i
                      /\ \A q \in Threads : ~Taking(q)'
    BY DEF WireOrder
  <2>1. ~unlocked_start /\ take # "ready_take" /\ p \in Threads /\ Taking(p)
    BY <1>2, TakeFacts
  <2>2. \A q \in Threads : ~Taking(q)'
    BY <1>2, <2>1, TakeFacts
  <2>3. pending_writes # <<>> /\ (target[p] # calls => wire = <<>>)
    BY <2>1 DEF WireOrder
  <2>4. /\ Len(pending_writes) \in Nat /\ Len(pending_writes) >= 1
        /\ Len(pending_writes') = Len(pending_writes) - 1
        /\ Front \in Messages \cup {0} /\ Front = pending_writes[1]
    BY <1>2, <2>3, QueueFacts DEF StartWrite, Front, Popped, TypeOK
  <2>5. Front = enqueued - Len(pending_writes) + 1 /\ enqueued' = enqueued /\ enqueued \in Nat
    BY <1>2, <2>4 DEF QueueOrder, StartWrite, TypeOK
  <2>6. ASSUME call' = "open"
        PROVE  \A i \in 1..Len(wire') :
                   wire'[i] = enqueued' - Len(pending_writes') - Len(wire') + i
    <3>1. CallInProgress /\ call = "open"
      BY <1>2, <2>6 DEF StartWrite, CallInProgress
    <3>2. CASE target[p] = calls
      <4>1. wire' = Append(wire, Front)
        BY <1>2, <3>1, <3>2 DEF StartWrite
      <4>2. /\ Len(wire') = Len(wire) + 1 /\ Len(wire) \in Nat
            /\ \A i \in 1..Len(wire) : wire'[i] = wire[i]
            /\ wire'[Len(wire) + 1] = Front
        BY <2>4, <4>1, AppendFacts, LenProperties DEF TypeOK
      <4>3. \A i \in 1..Len(wire) :
                wire[i] = enqueued - Len(pending_writes) - Len(wire) + i
        BY <2>1, <3>1 DEF WireOrder
      <4> QED
        BY <2>4, <2>5, <4>2, <4>3
    <3>3. CASE target[p] # calls
      <4>1. wire' = <<>>
        BY <1>2, <2>3, <3>3 DEF StartWrite
      <4> QED
        BY <4>1
    <3> QED
      BY <3>2, <3>3
  <2> QED
    BY <2>2, <2>6
<1>3. CASE SendHello \/ \E p \in Threads : Send(p)
  <2>1. /\ enqueued' = enqueued + 1 /\ enqueued' \in Messages /\ enqueued \in Nat
        /\ pending_writes' = Append(pending_writes, enqueued')
        /\ wire' = wire /\ call' = call /\ unlocked_start' = unlocked_start
        /\ \A q \in Threads : ~Taking(q)'
    BY <1>3, PushFacts DEF TypeOK
  <2>2. /\ Len(pending_writes') = Len(pending_writes) + 1
        /\ Len(pending_writes) \in Nat /\ Len(wire) \in Nat
    BY <2>1, AppendFacts, LenProperties DEF TypeOK
  <2>3. enqueued' - Len(pending_writes') = enqueued - Len(pending_writes)
    BY <2>1, <2>2
  <2> QED
    BY <2>1, <2>3 DEF WireOrder
<1>4. CASE Connect
  <2>1. /\ wire' = <<>>
        /\ UNCHANGED <<pending_writes, unlocked_start>>
        /\ \A q \in Threads : Taking(q)' => Taking(q)
    BY <1>4 DEF Connect, MainGoto, Goto, writeVars, historyVars, Taking, TypeOK, Threads
  <2>2. Len(<<>>) = 0
    OBVIOUS
  <2> QED
    BY <2>1, <2>2 DEF WireOrder
<1>5. ASSUME NEW ok \in BOOLEAN, OnWriteFinished(ok)
      PROVE  WireOrder'
  <2>1. /\ UNCHANGED <<wire, enqueued, call, unlocked_start>>
        /\ call = "open" => pending_writes' = pending_writes
        /\ \A q \in Threads : ~Taking(q)'
    BY <1>5, FinishFacts DEF QueueAfterWrite
  <2> QED
    BY <2>1 DEF WireOrder
<1>6. CASE ClearWrites
  BY <1>6, ClearFacts DEF WireOrder
<1>7. CASE OnStreamReady \/ CallEnded \/ ClearReactor \/ Fails \/ Quiet
  <2>1. /\ UNCHANGED <<wire, enqueued, unlocked_start, pending_writes, target, calls>>
        /\ call' = "open" => call = "open"
        /\ \A q \in Threads : Taking(q)' => Taking(q)
    BY <1>7, CalmFacts DEF Fails
  <2> QED
    BY <2>1 DEF WireOrder
<1> QED
  BY StepCases, <1>1, <1>2, <1>3, <1>4, <1>5, <1>6, <1>7 DEF SiteStep

----------------------------------------------------------------------------
(* The invariant holds initially.                                           *)
LEMMA InitInv ==
    ASSUME Init
    PROVE  Inv
<1>1. <<>> \in Seq(Messages) /\ <<>> \in Seq(Messages \cup {0}) /\ Len(<<>>) = 0
  BY EmptySeq
<1>2. /\ pc["main"] = "loop" /\ pc["reader"] = "none" /\ pc["writer"] = "idle"
      /\ pc["closer"] = "idle" /\ pc["worker"] = "idle"
  BY DEF Init, Threads
<1>3. pc \in [Threads -> MainPCs \cup ReaderPCs \cup WriterPCs \cup CloserPCs \cup WorkerPCs]
  BY DEF Init, Threads, MainPCs, ReaderPCs, WriterPCs, CloserPCs, WorkerPCs
<1>4. TypeOK
  <2>1. target \in [Threads -> 0..MaxCalls]
    BY DEF Init
  <2>2. /\ pc["main"] \in MainPCs /\ pc["reader"] \in ReaderPCs
        /\ pc["writer"] \in WriterPCs /\ pc["closer"] \in CloserPCs
        /\ pc["worker"] \in WorkerPCs
    BY <1>2 DEF MainPCs, ReaderPCs, WriterPCs, CloserPCs, WorkerPCs
  <2>3. write_mu \in Threads \cup {"free"} /\ call \in {"open", "failed", "ended"}
    BY DEF Init
  <2>4. 0 \in 0..MaxCalls /\ 0 \in 0..(MaxCalls + MaxMessages) /\ 0 \in 0..2
    OBVIOUS
  <2> QED
    BY <1>1, <1>3, <2>1, <2>2, <2>3, <2>4 DEF Init, TypeOK
<1>5. \A p \in Threads : ~Taking(p) /\ ~Holds(p, pc[p])
  BY <1>2 DEF Taking, Holds, Threads
<1>6. Locking /\ Targets
  BY <1>2, <1>5 DEF Init, Locking, Targets, Threads
<1>7. CallState /\ Budget
  BY <1>2 DEF Init, CallState, BetweenCalls, Budget
<1>8. Outstanding /\ FlagState
  BY <1>5 DEF Init, Outstanding, FlagState
<1>9. QueueOrder /\ WireOrder /\ NoIdleBacklog
  BY <1>1, <1>5 DEF Init, QueueOrder, WireOrder, NoIdleBacklog
<1> QED
  BY <1>4, <1>6, <1>7, <1>8, <1>9 DEF Inv

(* Every behaviour of the stream keeps the invariant.                       *)
THEOREM Invariance == Spec => []Inv
<1>1. Init => Inv
  BY InitInv
<1>2. Inv /\ [Next]_vars => Inv'
  BY BudgetStep, TypeStep, LockingStep, TargetsStep, CallStateStep, OutstandingStep,
     FlagStep, QueueOrderStep, WireOrderStep, BacklogStep DEF Inv
<1> QED
  BY <1>1, <1>2, PTL DEF Spec

(* Types, the number of messages pushed and of writes not completed.        *)
THEOREM TypeCorrect == Spec => []TypeOK
<1>1. Inv => TypeOK
  BY DEF Inv
<1> QED
  BY <1>1, Invariance, PTL

(* As long as OnStreamReady has not started a write without write_mu_, at   *)
(* most one write is outstanding on a call, however the threads interleave. *)
THEOREM WritesAreSerial == Spec => []SerialUnlessUnlocked
<1>1. Inv => SerialUnlessUnlocked
  BY DEF Inv, Outstanding, Strict, SerialUnlessUnlocked
<1> QED
  BY <1>1, Invariance, PTL

(* The messages of an open call are written in the order of EnqueueWrite,   *)
(* without a gap and without a repetition.                                  *)
THEOREM WireHasNoGap == Spec => []NoGapOnTheWire
<1>1. Inv => NoGapOnTheWire
  <2> SUFFICES ASSUME Inv, call = "open", ~unlocked_start,
                      NEW i \in 1..Len(wire \o pending_writes)
               PROVE  (wire \o pending_writes)[i]
                        = enqueued - Len(wire \o pending_writes) + i
    BY DEF NoGapOnTheWire
  <2>1. /\ wire \in Seq(Messages \cup {0}) /\ pending_writes \in Seq(Messages \cup {0})
        /\ enqueued \in Nat
    <3>1. Messages \subseteq Messages \cup {0}
      OBVIOUS
    <3> QED
      BY <3>1, SeqMonotonic DEF Inv, TypeOK
  <2>2. Len(wire) \in Nat /\ Len(pending_writes) \in Nat
    BY <2>1, LenProperties
  <2>3. /\ Len(wire \o pending_writes) = Len(wire) + Len(pending_writes)
        /\ (wire \o pending_writes)[i]
             = IF i <= Len(wire) THEN wire[i] ELSE pending_writes[i - Len(wire)]
    BY <2>1, <2>2, ConcatProperties
  <2>4. \A k \in 1..Len(wire) : wire[k] = enqueued - Len(pending_writes) - Len(wire) + k
    BY DEF Inv, WireOrder
  <2>5. \A k \in 1..Len(pending_writes) :
            pending_writes[k] = enqueued - Len(pending_writes) + k
    BY DEF Inv, QueueOrder
  <2> QED
    BY <2>1, <2>2, <2>3, <2>4, <2>5
<1> QED
  BY <1>1, Invariance, PTL

(* Whoever frees write_mu_ leaves no message waiting on an idle stream.     *)
THEOREM BacklogIsStarted == Spec => []NoIdleBacklog
<1>1. Inv => NoIdleBacklog
  BY DEF Inv
<1> QED
  BY <1>1, Invariance, PTL

(* write_in_flight_ is never left set with no write to clear it, unless a   *)
(* write was started on a call that had ended.                              *)
THEOREM FlagStandsForWrite == Spec => []FlagHasWrite
<1>1. Inv => FlagHasWrite
  BY DEF Inv, FlagState, FlagHasWrite
<1> QED
  BY <1>1, Invariance, PTL

(* reactor_ is null or the reactor of the current call, which exists.       *)
THEOREM ReactorIsCurrent == Spec => []ReactorNotDangling
<1>1. Inv => ReactorNotDangling
  BY DEF Inv, CallState, BetweenCalls, ReactorNotDangling, ReactorExists
<1> QED
  BY <1>1, Invariance, PTL

----------------------------------------------------------------------------
(* The messages that wait after a write was started, with the one it took.  *)
LEMMA TakenIsOnTheWire ==
    ASSUME NEW S, NEW q \in Seq(S), NEW w \in Seq(S), q # <<>>, NEW i \in 1..Len(q)
    PROVE  \E j \in 1..Len(Tail(q) \o Append(w, Head(q))) :
               (Tail(q) \o Append(w, Head(q)))[j] = q[i]
<1> DEFINE a == Append(w, Head(q))
           all == Tail(q) \o a
<1>1. /\ Head(q) = q[1] /\ Head(q) \in S /\ Tail(q) \in Seq(S)
      /\ Len(Tail(q)) = Len(q) - 1 /\ Len(q) \in Nat /\ Len(q) >= 1
      /\ \A k \in 1..Len(Tail(q)) : Tail(q)[k] = q[k + 1]
  BY QueueFacts
<1>2. a \in Seq(S) /\ Len(a) = Len(w) + 1 /\ a[Len(w) + 1] = q[1] /\ Len(w) \in Nat
  BY <1>1, AppendFacts, LenProperties
<1>3. /\ Len(all) = Len(Tail(q)) + Len(a)
      /\ \A k \in 1..Len(all) :
            all[k] = IF k <= Len(Tail(q)) THEN Tail(q)[k] ELSE a[k - Len(Tail(q))]
  <2>1. ASSUME NEW s1 \in Seq(S), NEW s2 \in Seq(S)
        PROVE  /\ Len(s1 \o s2) = Len(s1) + Len(s2)
               /\ \A k \in 1..Len(s1 \o s2) :
                     (s1 \o s2)[k] = IF k <= Len(s1) THEN s1[k] ELSE s2[k - Len(s1)]
    BY ConcatProperties, LenProperties
  <2> QED
    BY <1>1, <1>2, <2>1, Zenon
<1>4. CASE i = 1
  <2>1. Len(all) \in 1..Len(all) /\ Len(all) - Len(Tail(q)) = Len(w) + 1
        /\ ~(Len(all) <= Len(Tail(q)))
    BY <1>1, <1>2, <1>3
  <2>2. all[Len(all)] = q[i]
    BY <1>2, <1>3, <1>4, <2>1
  <2> QED
    BY <2>1, <2>2
<1>5. CASE i # 1
  <2>1. i - 1 \in 1..Len(all) /\ i - 1 <= Len(Tail(q)) /\ i - 1 \in 1..Len(Tail(q))
    BY <1>1, <1>2, <1>3, <1>5
  <2>2. all[i - 1] = q[i]
    BY <1>1, <1>3, <2>1
  <2> QED
    BY <2>1, <2>2
<1> QED
  BY <1>4, <1>5

(* What waits in front of something else is still there.                    *)
LEMMA KeptInFront ==
    ASSUME NEW S, NEW q \in Seq(S), NEW w \in Seq(S), NEW i \in 1..Len(q)
    PROVE  \E j \in 1..Len(q \o w) : (q \o w)[j] = q[i]
<1>1. /\ Len(q \o w) = Len(q) + Len(w) /\ Len(q) \in Nat /\ Len(w) \in Nat
      /\ \A k \in 1..Len(q \o w) :
            (q \o w)[k] = IF k <= Len(q) THEN q[k] ELSE w[k - Len(q)]
  BY ConcatProperties, LenProperties
<1> QED
  BY <1>1

(* No step drops a message that waits while the call is open, unless a      *)
(* write was started without write_mu_ or on the reactor of an ended call.  *)
THEOREM NoDropOnOpenCall == Spec => DropsOnlyWithTheCall
<1> DEFINE Kept == \A i \in 1..Len(pending_writes) :
                      \E j \in 1..Len(pending_writes' \o wire') :
                          (pending_writes' \o wire')[j] = pending_writes[i]
<1>1. ASSUME Inv, Inv', [Next]_vars, call = "open", ~unlocked_start', ~late_start'
      PROVE  Kept
  <2>0. TypeOK /\ Locking /\ CallState /\ Budget /\ WireOrder /\ TypeOK'
    BY <1>1 DEF Inv
  <2>1. /\ pending_writes \in Seq(Messages \cup {0}) /\ wire \in Seq(Messages \cup {0})
        /\ pending_writes' \in Seq(Messages \cup {0}) /\ wire' \in Seq(Messages \cup {0})
    <3>1. Messages \subseteq Messages \cup {0}
      OBVIOUS
    <3> QED
      BY <2>0, <3>1, SeqMonotonic DEF TypeOK
  <2>2. ASSUME pending_writes' = pending_writes
        PROVE  Kept
    <3>1. \A i \in 1..Len(pending_writes') :
              \E j \in 1..Len(pending_writes' \o wire') :
                  (pending_writes' \o wire')[j] = pending_writes'[i]
      BY <2>1, KeptInFront
    <3> QED
      BY <2>2, <3>1, Zenon
  <2>3. ASSUME NEW p, NEW check, NEW take, NEW done,
               Site(p, check, take, done), StartWrite(p, take, done)
        PROVE  Kept
    <3>1. CASE pending_writes = <<>>
      BY <2>2, <2>3, <3>1 DEF StartWrite, Popped
    <3>2. CASE pending_writes # <<>>
      <4>1. target[p] = calls /\ CallInProgress
        BY <1>1, <2>3 DEF StartWrite
      <4>2. pending_writes' = Tail(pending_writes) /\ wire' = Append(wire, Head(pending_writes))
        BY <2>3, <3>2, <4>1 DEF StartWrite, Popped, Front
      <4>3. \A i \in 1..Len(pending_writes) :
                \E j \in 1..Len(Tail(pending_writes) \o Append(wire, Head(pending_writes))) :
                    (Tail(pending_writes) \o Append(wire, Head(pending_writes)))[j]
                        = pending_writes[i]
        BY <2>1, <3>2, TakenIsOnTheWire, Zenon
      <4> QED
        BY <4>2, <4>3, Zenon
    <3> QED
      BY <3>1, <3>2
  <2>4. CASE SendHello \/ \E p \in Threads : Send(p)
    <3>1. /\ pending_writes' = Append(pending_writes, enqueued')
          /\ enqueued' \in Messages
      BY <2>0, <2>4, PushFacts
    <3>2. /\ Len(pending_writes') = Len(pending_writes) + 1 /\ Len(pending_writes) \in Nat
          /\ \A i \in 1..Len(pending_writes) : pending_writes'[i] = pending_writes[i]
      BY <2>1, <3>1, AppendFacts, LenProperties
    <3>3. ASSUME NEW i \in 1..Len(pending_writes)
          PROVE  \E j \in 1..Len(pending_writes' \o wire') :
                     (pending_writes' \o wire')[j] = pending_writes[i]
      <4>1. i \in 1..Len(pending_writes')
        BY <3>2
      <4>2. \E j \in 1..Len(pending_writes' \o wire') :
                (pending_writes' \o wire')[j] = pending_writes'[i]
        BY <2>1, <4>1, KeptInFront, Zenon
      <4> QED
        BY <3>2, <4>2
    <3> QED
      BY <3>3
  <2>5. ASSUME NEW ok \in BOOLEAN, OnWriteFinished(ok)
        PROVE  Kept
    BY <1>1, <2>0, <2>2, <2>5, FinishFacts DEF QueueAfterWrite
  <2>6. CASE ClearWrites
    BY <1>1, <2>6 DEF ClearWrites
  <2>7. ASSUME NEW p, NEW check, NEW take, NEW done, MaybeStart(p, check, take, done)
        PROVE  Kept
    BY <2>2, <2>7 DEF MaybeStart, writeVars
  <2>8. CASE Connect
    BY <2>2, <2>8 DEF Connect, writeVars
  <2>9. CASE OnStreamReady \/ CallEnded \/ ClearReactor \/ Fails \/ Quiet
    BY <2>0, <2>2, <2>9, CalmFacts
  <2> QED
    BY <1>1, <2>0, StepCases, <2>3, <2>4, <2>5, <2>6, <2>7, <2>8, <2>9 DEF SiteStep
<1>2. Inv /\ Inv' /\ [Next]_vars
        => [call = "open" /\ ~unlocked_start' /\ ~late_start' => Kept]_vars
  BY <1>1
<1> QED
  BY <1>2, Invariance, PTL DEF Spec, DropsOnlyWithTheCall
=============================================================================
