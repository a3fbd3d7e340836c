---------------------- MODULE TaskDispatcherRefinement ----------------------
(***************************************************************************)
(* The dispatcher implements OperationLifecycle, for every value of its    *)
(* constants, when the server asks for no immediate shutdown.  OpStatus is *)
(* the refinement mapping; every step of the dispatcher maps to one step   *)
(* of the lifecycle or to none.                                            *)
(***************************************************************************)
EXTENDS TaskDispatcherProofs

(* OpStatus without its CASE: under the invariant exactly one line applies  *)
(* to each task.                                                            *)
StatusTable ==
    /\ OpStatus = [t \in Tasks |-> OpStatus[t]]
    /\ \A t \in Tasks :
          /\ t > admitted => OpStatus[t] = "none"
          /\ t \in Queued => OpStatus[t] = "queued"
          /\ t = current_task /\ worker # "finish" => OpStatus[t] = "running"
          /\ t <= admitted /\ ~Pending(t) /\ ~Reported(t) => OpStatus[t] = "withdrawn"
          /\ t <= admitted /\ ~Pending(t) /\ Reported(t) => OpStatus[t] = "ended"
          /\ t > admitted => ~Pending(t)

----------------------------------------------------------------------------
USE DispatcherAssumption

(* What the invariant says of one task.                                     *)
LEMMA TaskFacts ==
    ASSUME Inv, NEW t \in Tasks
    PROVE  /\ t \in Nat /\ t # 0 /\ admitted \in Nat
           /\ t \in Queued => t <= admitted /\ t # current_task
           /\ t = current_task => t <= admitted
           /\ Pending(t) => t <= admitted /\ ~Reported(t)
           /\ eofs[t] \in Nat /\ errors[t] \in Nat
           /\ reader_errors[t] \in Nat /\ auth_errors[t] \in Nat
<1>a. TypeOK /\ Registry /\ RunsInOrder /\ AccountedFor(t)
  BY DEF Inv, Accounted
<1>1. t \in Nat /\ t # 0 /\ admitted \in Nat
  BY <1>a, TaskNumbers, TypeFacts
<1>2. t \in Queued => t <= admitted /\ t # current_task
  BY <1>a, LiveAdmitted, NotRunningIsQueued DEF Queued
<1>3. t = current_task => t <= admitted
  BY <1>a, LiveAdmitted
<1>4. /\ eofs[t] \in Nat /\ errors[t] \in Nat
      /\ reader_errors[t] \in Nat /\ auth_errors[t] \in Nat
  BY <1>a, FinalFacts
<1>5. Pending(t) => t <= admitted
  BY <1>2, <1>3 DEF Pending
<1>6. Pending(t) => ~Reported(t)
  BY <1>a, <1>4 DEF AccountedFor, Final, Reported
<1> QED
  BY <1>1, <1>2, <1>3, <1>4, <1>5, <1>6

(* The invariant makes the cases of OpStatus disjoint and complete.         *)
LEMMA StatusTableHolds == Inv => StatusTable
<1> SUFFICES ASSUME Inv
             PROVE  StatusTable
  OBVIOUS
<1>1. OpStatus = [t \in Tasks |-> OpStatus[t]]
  BY DEF OpStatus
<1>2. ASSUME NEW t \in Tasks
      PROVE  /\ t > admitted => OpStatus[t] = "none"
             /\ t \in Queued => OpStatus[t] = "queued"
             /\ t = current_task /\ worker # "finish" => OpStatus[t] = "running"
             /\ t <= admitted /\ ~Pending(t) /\ ~Reported(t) => OpStatus[t] = "withdrawn"
             /\ t <= admitted /\ ~Pending(t) /\ Reported(t) => OpStatus[t] = "ended"
             /\ t > admitted => ~Pending(t)
  <2>1. /\ t \in Nat /\ admitted \in Nat
        /\ t \in Queued => t <= admitted /\ t # current_task
        /\ t = current_task => t <= admitted
    BY TaskFacts
  <2>2. t \in Queued => Pending(t)
    BY DEF Pending
  <2>3. t = current_task /\ worker # "finish" => Pending(t)
    BY DEF Pending
  <2>4. ~(t > admitted /\ t <= admitted)
    BY <2>1
  <2>5. Pending(t) => t <= admitted
    BY <2>1 DEF Pending
  <2> HIDE DEF Pending
  <2> QED
    BY <2>1, <2>2, <2>3, <2>4, <2>5 DEF OpStatus, StageOf
<1> QED
  BY <1>1, <1>2 DEF StatusTable

(* A task that is neither queued nor running is one of the rest.            *)
LEMMA StatusCases ==
    ASSUME Inv, NEW t \in Tasks
    PROVE  \/ t > admitted
           \/ t \in Queued
           \/ t = current_task /\ worker # "finish"
           \/ t <= admitted /\ ~Pending(t) /\ ~Reported(t)
           \/ t <= admitted /\ ~Pending(t) /\ Reported(t)
<1>1. t > admitted \/ t <= admitted
  BY TaskFacts
<1> QED
  BY <1>1 DEF Pending

(* What a status says about its task.                                       *)
LEMMA StatusMeans ==
    ASSUME Inv, NEW t \in Tasks
    PROVE  /\ OpStatus[t] = "none" => t > admitted
           /\ OpStatus[t] = "queued" => t \in Queued
           /\ OpStatus[t] = "running" => t = current_task
  BY StatusCases, StatusTableHolds DEF StatusTable

(* The same facts after a step.                                             *)
LEMMA StatusAfter ==
    ASSUME Inv', NEW t \in Tasks
    PROVE  /\ OpStatus' = [u \in Tasks |-> OpStatus'[u]]
           /\ t > admitted' => OpStatus'[t] = "none"
           /\ t \in Queued' => OpStatus'[t] = "queued"
           /\ t = current_task' /\ worker' # "finish" => OpStatus'[t] = "running"
           /\ t <= admitted' /\ ~Pending(t)' /\ ~Reported(t)' => OpStatus'[t] = "withdrawn"
           /\ t <= admitted' /\ ~Pending(t)' /\ Reported(t)' => OpStatus'[t] = "ended"
<1>1. Inv' => StatusTable'
  BY StatusTableHolds, PTL
<1> QED
  BY <1>1 DEF StatusTable

(* A task about which nothing changed keeps its status.                     *)
LEMMA StatusSame ==
    ASSUME Inv, Inv', NEW t \in Tasks, admitted' = admitted,
           t \in Queued' <=> t \in Queued, Pending(t)' <=> Pending(t),
           Reported(t)' <=> Reported(t)
    PROVE  OpStatus'[t] = OpStatus[t]
  BY DEF OpStatus, StageOf

(* The steps that only move threads, flags and acknowledgements.            *)
LEMMA Stutters ==
    ASSUME Inv, Inv', UNCHANGED <<admitted, task_queue, data, eofs, errors>>,
           \A t \in Tasks : Pending(t)' <=> Pending(t)
    PROVE  UNCHANGED Lifecycle!vars
<1>1. Queued' = Queued
  BY DEF Queued
<1>2. ASSUME NEW t \in Tasks
      PROVE  OpStatus'[t] = OpStatus[t]
  <2>1. Reported(t)' <=> Reported(t)
    BY DEF Reported
  <2> QED
    BY <1>1, <2>1, StatusSame
<1>3. OpStatus' = OpStatus
  BY <1>2 DEF OpStatus
<1> QED
  BY <1>3 DEF Lifecycle!vars

(* HandleCancel takes exactly the task it looked up out of the queue.       *)
LEMMA CancelQueuedSet ==
    ASSUME Inv, NEW op \in OpIds, CancelQueued(op)
    PROVE  tasks[op] \in Queued /\ Queued' = Queued \ {tasks[op]}
<1> DEFINE n == tasks[op]
<1>a. TypeOK /\ RunsInOrder
  BY DEF Inv
<1>1. PICK i \in 1..Len(task_queue) : task_queue[i] = n /\ task_queue' = EraseAt(task_queue, i)
  BY DEF CancelQueued
<1>2. task_queue \in Seq(Tasks)
  BY <1>a DEF TypeOK
<1>3. Len(task_queue') = Len(task_queue) - 1
  BY <1>1, <1>2, EraseAtType
<1>4. \A j \in 1..(Len(task_queue) - 1) :
         task_queue'[j] = IF j < i THEN task_queue[j] ELSE task_queue[j + 1]
  BY <1>1, <1>2, EraseAtType
<1>5. ASSUME NEW j \in 1..(Len(task_queue) - 1)
      PROVE  \E k \in 1..Len(task_queue) : k # i /\ task_queue'[j] = task_queue[k]
  BY <1>a, <1>4, TypeFacts
<1>6. ASSUME NEW k \in 1..Len(task_queue), k # i
      PROVE  /\ task_queue[k] # n
             /\ \E j \in 1..(Len(task_queue) - 1) : task_queue'[j] = task_queue[k]
  <2>1. task_queue[k] # n
    <3>1. k < i \/ i < k
      BY <1>a, <1>6, TypeFacts
    <3>2. task_queue[k] < task_queue[i] \/ task_queue[i] < task_queue[k]
      BY <1>a, <3>1 DEF RunsInOrder
    <3> QED
      BY <1>a, <1>1, <3>2, TypeFacts
  <2>2. CASE k < i
    <3>1. k \in 1..(Len(task_queue) - 1)
      BY <1>a, <2>2, TypeFacts
    <3> QED
      BY <1>4, <2>1, <2>2, <3>1
  <2>3. CASE k > i
    <3>1. k - 1 \in 1..(Len(task_queue) - 1) /\ ~(k - 1 < i) /\ (k - 1) + 1 = k
      BY <1>a, <2>3, TypeFacts
    <3>2. task_queue'[k - 1] = task_queue[(k - 1) + 1]
      BY <1>4, <3>1
    <3> QED
      BY <2>1, <3>1, <3>2
  <2> QED
    BY <1>a, <1>6, <2>1, <2>2, <2>3, TypeFacts
<1>7. Queued' = {task_queue'[j] : j \in 1..(Len(task_queue) - 1)}
  BY <1>3 DEF Queued
<1>8. ASSUME NEW t \in Queued'
      PROVE  t \in Queued \ {n}
  <2>1. PICK j \in 1..(Len(task_queue) - 1) : t = task_queue'[j]
    BY <1>7
  <2>2. PICK k \in 1..Len(task_queue) : k # i /\ task_queue'[j] = task_queue[k]
    BY <1>5
  <2> QED
    BY <1>6, <2>1, <2>2 DEF Queued
<1>9. Queued \ {n} \subseteq Queued'
  BY <1>1, <1>6, <1>7 DEF Queued
<1> QED
  BY <1>1, <1>8, <1>9 DEF Queued

(* A queue that is emptied holds no task.                                   *)
LEMMA EmptiedQueue ==
    ASSUME task_queue' = <<>>
    PROVE  Queued' = {}
<1>1. Len(task_queue') = 0
  OBVIOUS
<1> QED
  BY <1>1 DEF Queued

(* The first task of the queue becomes the running one.                     *)
LEMMA StartTaskSet ==
    ASSUME Inv, StartTask
    PROVE  /\ current_task' \in Queued
           /\ Queued' = Queued \ {current_task'}
           /\ \A t \in Queued : current_task' <= t
           /\ worker' # "finish" /\ current_task = 0
<1>a. TypeOK /\ RunsInOrder /\ WorkerTask
  BY DEF Inv
<1>1. /\ Len(task_queue) \in Nat /\ Len(task_queue) > 0
      /\ current_task' = task_queue[1]
      /\ Len(task_queue') = Len(task_queue) - 1
      /\ \A j \in 1..Len(task_queue') : task_queue'[j] = task_queue[j + 1]
  <2>1. task_queue \in Seq(Tasks)
    BY <1>a DEF TypeOK
  <2> QED
    BY <2>1 DEF StartTask
<1>2. worker' # "finish"
  <2>1. Head(task_queue) \in Tasks
    BY <1>a DEF StartTask, TypeOK
  <2> QED
    BY <1>a, <2>1 DEF StartTask, FirstStep, Kinds, TypeOK
<1>3. current_task = 0
  BY <1>a DEF StartTask, WorkerTask, TaskPCs
<1>4. 1 \in 1..Len(task_queue)
  BY <1>1
<1>5. ASSUME NEW k \in 1..Len(task_queue), k # 1
      PROVE  /\ task_queue[1] < task_queue[k]
             /\ \E j \in 1..Len(task_queue') : task_queue'[j] = task_queue[k]
  <2>1. 1 < k
    BY <1>5
  <2>2. k - 1 \in 1..Len(task_queue') /\ (k - 1) + 1 = k
    BY <1>1, <1>5
  <2> QED
    BY <1>1, <1>4, <1>a, <2>1, <2>2 DEF RunsInOrder
<1>6. ASSUME NEW j \in 1..Len(task_queue')
      PROVE  \E k \in 1..Len(task_queue) : k # 1 /\ task_queue'[j] = task_queue[k]
  BY <1>1
<1>7. \A k \in 1..Len(task_queue) : task_queue[k] \in Nat
  BY <1>a, TypeFacts
<1>8. \A t \in Queued : current_task' <= t
  BY <1>1, <1>4, <1>5, <1>7 DEF Queued
<1>9. ASSUME NEW t \in Queued'
      PROVE  t \in Queued \ {current_task'}
  <2>1. PICK j \in 1..Len(task_queue') : t = task_queue'[j]
    BY DEF Queued
  <2>2. PICK k \in 1..Len(task_queue) : k # 1 /\ task_queue'[j] = task_queue[k]
    BY <1>6
  <2>3. task_queue[1] < task_queue[k] /\ task_queue[1] \in Nat
    BY <1>4, <1>5, <1>7, <2>2
  <2> QED
    BY <1>1, <2>1, <2>2, <2>3 DEF Queued
<1>10. ASSUME NEW t \in Queued \ {current_task'}
       PROVE  t \in Queued'
  <2>1. PICK k \in 1..Len(task_queue) : t = task_queue[k]
    BY DEF Queued
  <2> QED
    BY <1>1, <1>5, <2>1 DEF Queued
<1> QED
  BY <1>1, <1>2, <1>3, <1>4, <1>8, <1>9, <1>10 DEF Queued

----------------------------------------------------------------------------
(* The steps of the lifecycle, each from what its steps of the dispatcher   *)
(* have in common.                                                          *)

LifecycleStep == Lifecycle!Next \/ UNCHANGED Lifecycle!vars

(* Queued tasks that are taken out before anything is said about them.      *)
LEMMA WithdrawStep ==
    ASSUME Inv, Inv', NEW S \in SUBSET Queued,
           UNCHANGED <<admitted, data, eofs, errors>>,
           Queued' = Queued \ S,
           \A t \in S : ~Pending(t)',
           \A t \in Tasks \ S : Pending(t)' <=> Pending(t)
    PROVE  LifecycleStep
<1>1. \A t \in Tasks : Reported(t)' <=> Reported(t)
  BY DEF Reported
<1>2. S \subseteq Tasks
  <2>1. Queued \subseteq Tasks
    BY TypeFacts DEF Inv, Queued
  <2> QED
    BY <2>1
<1>3. ASSUME NEW t \in S
      PROVE  OpStatus[t] = "queued" /\ OpStatus'[t] = "withdrawn"
  <2>1. t \in Tasks /\ t \in Queued
    BY <1>2
  <2>2. OpStatus[t] = "queued"
    BY <2>1, StatusTableHolds DEF StatusTable
  <2>3. t <= admitted /\ ~Reported(t)
    BY <2>1, TaskFacts DEF Pending
  <2>4. t <= admitted' /\ ~Pending(t)' /\ ~Reported(t)'
    BY <1>1, <2>1, <2>3
  <2> QED
    BY <2>1, <2>2, <2>4, StatusAfter
<1>4. ASSUME NEW t \in Tasks, t \notin S
      PROVE  OpStatus'[t] = OpStatus[t]
  BY <1>1, <1>4, StatusSame
<1>5. OpStatus' = [t \in Tasks |-> IF t \in S THEN "withdrawn" ELSE OpStatus[t]]
  BY <1>3, <1>4 DEF OpStatus
<1>6. S \in SUBSET Lifecycle!InStage("queued")
  BY <1>2, <1>3 DEF Lifecycle!InStage
<1>7. Lifecycle!Withdraw(S)
  BY <1>5 DEF Lifecycle!Withdraw
<1> QED
  BY <1>6, <1>7 DEF Lifecycle!Next, LifecycleStep

(* Tasks that wait, or were taken out before, and get their error.          *)
LEMMA FailStep ==
    ASSUME Inv, Inv', NEW S \in SUBSET Tasks,
           UNCHANGED <<admitted, data, eofs>>,
           errors' = [t \in Tasks |-> IF t \in S THEN errors[t] + 1 ELSE errors[t]],
           Queued' = Queued \ S,
           \A t \in S : /\ OpStatus[t] \in {"queued", "withdrawn"}
                        /\ t <= admitted
                        /\ ~Pending(t)',
           \A t \in Tasks \ S : Pending(t)' <=> Pending(t)
    PROVE  LifecycleStep
<1>1. ASSUME NEW t \in S
      PROVE  OpStatus'[t] = "ended"
  <2>1. t \in Tasks
    OBVIOUS
  <2>2. eofs[t] \in Nat /\ errors[t] \in Nat
    BY <2>1, TaskFacts
  <2>3. eofs'[t] = eofs[t] /\ errors'[t] = errors[t] + 1
    BY <2>1
  <2>4. Reported(t)'
    BY <2>2, <2>3 DEF Reported
  <2>5. t <= admitted' /\ ~Pending(t)'
    OBVIOUS
  <2> QED
    BY <2>1, <2>4, <2>5, StatusAfter
<1>2. ASSUME NEW t \in Tasks, t \notin S
      PROVE  OpStatus'[t] = OpStatus[t]
  <2>1. Reported(t)' <=> Reported(t)
    BY <1>2 DEF Reported
  <2> QED
    BY <1>2, <2>1, StatusSame
<1>3. OpStatus' = [t \in Tasks |-> IF t \in S THEN "ended" ELSE OpStatus[t]]
  BY <1>1, <1>2 DEF OpStatus
<1>4. S \in SUBSET (Lifecycle!InStage("queued") \cup Lifecycle!InStage("withdrawn"))
  BY DEF Lifecycle!InStage
<1>5. Lifecycle!Fail(S)
  BY <1>3 DEF Lifecycle!Fail
<1> QED
  BY <1>4, <1>5 DEF Lifecycle!Next, LifecycleStep

(* Without an immediate shutdown a task is owed an error only after it was  *)
(* taken out, and only one.                                                 *)
LEMMA OwedIsWithdrawn ==
    ASSUME Inv, FALSE \notin ShutdownDrains, NEW t \in Tasks,
           reader_errors[t] + auth_errors[t] > 0
    PROVE  OpStatus[t] = "withdrawn" /\ t <= admitted /\ ~Pending(t)
<1>a. AccountedFor(t)
  BY DEF Inv, Accounted
<1>1. /\ t \in Nat /\ admitted \in Nat
      /\ eofs[t] \in Nat /\ errors[t] \in Nat
      /\ reader_errors[t] \in Nat /\ auth_errors[t] \in Nat
  BY TaskFacts
<1>2. Final(t) # 0
  BY <1>1 DEF Final
<1>3. ~(t > admitted) /\ ~Pending(t)
  BY <1>a, <1>2 DEF AccountedFor
<1>4. t <= admitted
  BY <1>1, <1>3
<1>5. Final(t) = 1
  BY <1>a, <1>3, <1>4, Zenon DEF AccountedFor
<1>6. ~Reported(t)
  BY <1>1, <1>5 DEF Final, Reported
<1> QED
  BY <1>3, <1>4, <1>6, StatusTableHolds DEF StatusTable

(* The error that is owed to a task is sent.                                *)
LEMMA OwedErrorStep ==
    ASSUME Inv, Inv', FALSE \notin ShutdownDrains, NEW m \in Tasks,
           reader_errors[m] + auth_errors[m] > 0,
           UNCHANGED <<admitted, task_queue, current_task, worker, data, eofs>>,
           errors' = [errors EXCEPT ![m] = @ + 1]
    PROVE  LifecycleStep
<1>1. OpStatus[m] = "withdrawn" /\ m <= admitted /\ ~Pending(m)
  BY OwedIsWithdrawn
<1>2. Queued' = Queued /\ m \notin Queued
  BY <1>1 DEF Queued, Pending
<1>3. \A t \in Tasks : Pending(t)' <=> Pending(t)
  BY <1>2 DEF Pending
<1>4. errors' = [t \in Tasks |-> IF t \in {m} THEN errors[t] + 1 ELSE errors[t]]
  BY DEF Inv, TypeOK
<1> DEFINE S == {m}
<1>5. S \in SUBSET Tasks /\ Queued' = Queued \ S
  BY <1>2
<1>6. \A t \in S : /\ OpStatus[t] \in {"queued", "withdrawn"}
                   /\ t <= admitted
                   /\ ~Pending(t)'
  BY <1>1, <1>3
<1>7. \A t \in Tasks \ S : Pending(t)' <=> Pending(t)
  BY <1>3
<1>8. errors' = [t \in Tasks |-> IF t \in S THEN errors[t] + 1 ELSE errors[t]]
  BY <1>4
<1> HIDE DEF S
<1> QED
  BY <1>5, <1>6, <1>7, <1>8, FailStep

(* A StartOp that passes the second critical section.                       *)
LEMMA AcceptStep ==
    ASSUME Inv, Inv', EnqueueTask
    PROVE  LifecycleStep
<1> DEFINE n == admitted + 1
<1>1. n \in Tasks /\ admitted' = n /\ admitted \in Nat
  BY DEF Inv, EnqueueTask, ReaderState, TypeOK, Tasks
<1>2. /\ task_queue' = Append(task_queue, n)
      /\ UNCHANGED <<current_task, worker, data, eofs, errors>>
  BY <1>1 DEF EnqueueTask, sentVars
<1>3. Queued' = Queued \cup {n}
  <2>1. task_queue \in Seq(Tasks) /\ Len(task_queue) \in Nat
    BY DEF Inv, TypeOK
  <2>2. /\ Len(task_queue') = Len(task_queue) + 1
        /\ task_queue'[Len(task_queue) + 1] = n
        /\ \A j \in 1..Len(task_queue) : task_queue'[j] = task_queue[j]
    BY <1>1, <1>2, <2>1
  <2> QED
    BY <2>1, <2>2 DEF Queued
<1>4. OpStatus[n] = "none"
  BY <1>1, StatusTableHolds DEF StatusTable
<1>5. \A u \in Lifecycle!InStage("none") : n <= u
  <2>1. ASSUME NEW u \in Tasks, OpStatus[u] = "none"
        PROVE  n <= u
    <3>1. u > admitted /\ u \in Nat
      BY <2>1, StatusMeans, TaskFacts
    <3> QED
      BY <1>1, <3>1
  <2> QED
    BY <2>1 DEF Lifecycle!InStage
<1>6. OpStatus'[n] = "queued"
  BY <1>1, <1>3, StatusAfter
<1>7. ASSUME NEW t \in Tasks, t # n
      PROVE  OpStatus'[t] = OpStatus[t]
  <2>1. t \in Queued' <=> t \in Queued
    BY <1>3, <1>7
  <2>2. Pending(t)' <=> Pending(t)
    BY <1>2, <2>1 DEF Pending
  <2>3. Reported(t)' <=> Reported(t)
    BY <1>2 DEF Reported
  <2>4. t \in Nat
    BY TaskNumbers
  <2>5. (t > admitted' <=> t > admitted) /\ (t <= admitted' <=> t <= admitted)
    BY <1>1, <1>7, <2>4
  <2>6. /\ t > admitted => OpStatus[t] = "none" /\ OpStatus'[t] = "none"
        /\ t \in Queued => OpStatus[t] = "queued" /\ OpStatus'[t] = "queued"
    BY <2>1, <2>5, StatusTableHolds, StatusAfter DEF StatusTable
  <2>7. t = current_task /\ worker # "finish"
           => OpStatus[t] = "running" /\ OpStatus'[t] = "running"
    BY <1>2, StatusTableHolds, StatusAfter DEF StatusTable
  <2>8. t <= admitted /\ ~Pending(t) => OpStatus'[t] = OpStatus[t]
    BY <2>2, <2>3, <2>5, StatusTableHolds, StatusAfter DEF StatusTable
  <2> QED
    BY <2>6, <2>7, <2>8, StatusCases
<1>8. OpStatus' = [OpStatus EXCEPT ![n] = "queued"]
  <2>1. OpStatus' = [t \in Tasks |-> IF t = n THEN "queued" ELSE OpStatus[t]]
    BY <1>6, <1>7 DEF OpStatus
  <2>2. OpStatus = [t \in Tasks |-> OpStatus[t]]
    BY DEF OpStatus
  <2> HIDE DEF n
  <2> QED
    BY <1>1, <2>1, <2>2
<1>9. Lifecycle!Accept(n)
  BY <1>2, <1>4, <1>5, <1>8 DEF Lifecycle!Accept
<1> QED
  BY <1>1, <1>9 DEF Lifecycle!Next, LifecycleStep

(* The worker takes the first task of the queue.                            *)
LEMMA StartStep ==
    ASSUME Inv, Inv', StartTask
    PROVE  LifecycleStep
<1> DEFINE h == current_task'
<1>1. /\ h \in Queued /\ Queued' = Queued \ {h}
      /\ \A t \in Queued : h <= t
      /\ worker' # "finish" /\ current_task = 0
  BY StartTaskSet
<1>2. UNCHANGED <<admitted, data, eofs, errors>>
  BY DEF StartTask, taskVars, sentVars
<1>3. h \in Tasks
  BY <1>1, TypeFacts DEF Inv, Queued
<1>4. OpStatus[h] = "queued" /\ OpStatus'[h] = "running"
  BY <1>1, <1>3, StatusTableHolds, StatusAfter DEF StatusTable
<1>5. Lifecycle!InStage("running") = {}
  <2>1. ASSUME NEW t \in Tasks, OpStatus[t] = "running"
        PROVE  FALSE
    BY <1>1, <2>1, StatusMeans, TaskNumbers
  <2> QED
    BY <2>1 DEF Lifecycle!InStage
<1>6. \A u \in Lifecycle!InStage("queued") : h <= u
  BY <1>1, StatusMeans DEF Lifecycle!InStage
<1>7. ASSUME NEW t \in Tasks, t # h
      PROVE  OpStatus'[t] = OpStatus[t]
  <2>1. t \in Queued' <=> t \in Queued
    BY <1>1, <1>7
  <2>2. t # current_task
    BY <1>1, TaskNumbers
  <2>3. Pending(t)' <=> Pending(t)
    BY <1>7, <2>1, <2>2 DEF Pending
  <2>4. Reported(t)' <=> Reported(t)
    BY <1>2 DEF Reported
  <2> QED
    BY <1>2, <2>1, <2>3, <2>4, StatusSame
<1>8. OpStatus' = [OpStatus EXCEPT ![h] = "running"]
  <2>1. OpStatus' = [t \in Tasks |-> IF t = h THEN "running" ELSE OpStatus[t]]
    BY <1>4, <1>7 DEF OpStatus
  <2>2. OpStatus = [t \in Tasks |-> OpStatus[t]]
    BY DEF OpStatus
  <2> HIDE DEF h
  <2> QED
    BY <1>3, <2>1, <2>2
<1>9. Lifecycle!Start(h)
  BY <1>2, <1>4, <1>5, <1>6, <1>8 DEF Lifecycle!Start
<1> QED
  BY <1>3, <1>9 DEF Lifecycle!Next, LifecycleStep

(* The running task sends Data.                                             *)
LEMMA SendStep ==
    ASSUME Inv, Inv', worker \in TaskPCs, NEW pc \in TaskPCs, SendData(pc)
    PROVE  LifecycleStep
<1>1. current_task \in Tasks
  BY DEF Inv, TypeOK, WorkerTask
<1>2. OpStatus[current_task] = "running"
  BY <1>1, StatusTableHolds DEF StatusTable, TaskPCs
<1>3. UNCHANGED <<admitted, task_queue, current_task, eofs, errors>>
  BY DEF SendData, TaskUnchanged, taskVars
<1>4. worker # "finish" /\ worker' # "finish"
  BY DEF SendData, TaskPCs
<1>5. Queued' = Queued
  BY <1>3 DEF Queued
<1>6. ASSUME NEW t \in Tasks
      PROVE  OpStatus'[t] = OpStatus[t]
  <2>1. Pending(t)' <=> Pending(t)
    BY <1>3, <1>4, <1>5 DEF Pending
  <2>2. Reported(t)' <=> Reported(t)
    BY <1>3 DEF Reported
  <2> QED
    BY <1>3, <1>5, <2>1, <2>2, StatusSame
<1>7. OpStatus' = OpStatus
  BY <1>6 DEF OpStatus
<1>8. Lifecycle!Send(current_task)
  BY <1>2, <1>3, <1>7 DEF Lifecycle!Send, SendData
<1> QED
  BY <1>1, <1>8 DEF Lifecycle!Next, LifecycleStep

(* The running task sends its OpEof or OpError.                             *)
LEMMA FinishStep ==
    ASSUME Inv, Inv', EndTask
    PROVE  LifecycleStep
<1> DEFINE c == current_task
<1>1. c \in Tasks /\ c \notin Queued
  BY NotRunningIsQueued DEF Inv, TypeOK, WorkerTask, EndTask
<1>2. /\ UNCHANGED <<admitted, task_queue, current_task, data>>
      /\ worker # "finish" /\ worker' = "finish"
  BY DEF EndTask, SendEof, SendError, TaskUnchanged, TaskPCs, taskVars
<1>3. \/ eofs' = [eofs EXCEPT ![c] = @ + 1] /\ UNCHANGED errors
      \/ errors' = [errors EXCEPT ![c] = @ + 1] /\ UNCHANGED eofs
  BY DEF EndTask, SendEof, SendError
<1>4. Queued' = Queued
  BY <1>2 DEF Queued
<1>5. OpStatus[c] = "running"
  BY <1>1, <1>2, StatusTableHolds DEF StatusTable
<1>6. OpStatus'[c] = "ended"
  <2>1. eofs[c] \in Nat /\ errors[c] \in Nat /\ c <= admitted
    BY <1>1, TaskFacts
  <2>2. Reported(c)'
    <3>1. eofs \in [Tasks -> Nat] /\ errors \in [Tasks -> Nat]
      BY DEF Inv, TypeOK
    <3>2. eofs'[c] + errors'[c] > 0
      BY <1>1, <1>3, <2>1, <3>1
    <3> QED
      BY <1>2, <3>2 DEF Reported
  <2>3. ~Pending(c)'
    BY <1>1, <1>2, <1>4 DEF Pending
  <2>4. c <= admitted'
    BY <1>2, <2>1
  <2> QED
    BY <1>1, <1>2, <2>2, <2>3, <2>4, StatusAfter
<1>7. ASSUME NEW t \in Tasks, t # c
      PROVE  OpStatus'[t] = OpStatus[t]
  <2>1. Pending(t)' <=> Pending(t)
    BY <1>2, <1>4, <1>7 DEF Pending
  <2>2. eofs'[t] = eofs[t] /\ errors'[t] = errors[t]
    BY <1>3, <1>7 DEF Inv, TypeOK
  <2>3. Reported(t)' <=> Reported(t)
    BY <2>2 DEF Reported
  <2> QED
    BY <1>2, <1>4, <2>1, <2>3, StatusSame
<1>8. OpStatus' = [OpStatus EXCEPT ![c] = "ended"]
  <2>1. OpStatus' = [t \in Tasks |-> IF t = c THEN "ended" ELSE OpStatus[t]]
    BY <1>6, <1>7 DEF OpStatus
  <2>2. OpStatus = [t \in Tasks |-> OpStatus[t]]
    BY DEF OpStatus
  <2> HIDE DEF c
  <2> QED
    BY <1>1, <2>1, <2>2
<1>9. Lifecycle!Finish(c)
  BY <1>2, <1>3, <1>5, <1>8 DEF Lifecycle!Finish
<1> QED
  BY <1>1, <1>9 DEF Lifecycle!Next, LifecycleStep

(* The steps that leave the registry alone move at most a Data message.     *)
LEMMA QuietStep ==
    ASSUME Inv, Inv', [Next]_vars, Quiet
    PROVE  LifecycleStep
<1>a. TypeOK /\ WorkerTask
  BY DEF Inv
<1>1. CASE data' = data
  <2>1. UNCHANGED <<admitted, task_queue, current_task, data, eofs, errors>>
    BY <1>1 DEF Quiet, coreVars
  <2>2. \A t \in Tasks : Pending(t)' <=> Pending(t)
    BY <2>1 DEF Quiet, SamePhase, Pending, Queued
  <2> QED
    BY <2>1, <2>2, Stutters DEF LifecycleStep
<1>2. CASE data' # data
  <2>1. TaskStep
    BY <1>2, TasksSendData
  <2>2. worker \in TaskPCs /\ \E pc \in TaskPCs : SendData(pc)
    BY <1>2, <1>a, <2>1, TaskStepCases DEF SendEof, SendError, WorkerGoto, sentVars
  <2> QED
    BY <2>2, SendStep
<1> QED
  BY <1>1, <1>2

(* Every step of the dispatcher is a step of the lifecycle or none.         *)
LEMMA StepRefines ==
    ASSUME Inv, Inv', [Next]_vars, FALSE \notin ShutdownDrains
    PROVE  LifecycleStep
<1> USE DEF sentVars, taskVars, readerVars
<1>a. TypeOK /\ WorkerTask /\ ReaderState /\ Registry /\ RunsInOrder /\ AuthorisedWork
  BY DEF Inv
<1>b. NotRunning = Queued /\ current_task \notin Queued
  BY <1>a, NotRunningIsQueued
<1>c. Queued \subseteq Tasks
  BY <1>a, TypeFacts DEF Queued
<1>d. ASSUME UNCHANGED <<admitted, task_queue, current_task, data, eofs, errors>>,
             worker' = "finish" <=> worker = "finish"
      PROVE  LifecycleStep
  BY <1>d, Stutters DEF LifecycleStep, Pending, Queued
<1>1. CASE Quiet
  BY <1>1, QuietStep
<1>2. ASSUME NEW op \in OpIds, NEW spec \in StartSpecs, HandleStartOp(op, spec)
      PROVE  LifecycleStep
  BY <1>2, <1>d DEF HandleStartOp
<1>3. ASSUME NEW op \in OpIds, CancelCurrent(op)
      PROVE  LifecycleStep
  BY <1>3, <1>d DEF CancelCurrent
<1>4. ASSUME NEW op \in OpIds, CancelQueued(op)
      PROVE  LifecycleStep
  <2>1. UNCHANGED <<admitted, current_task, worker, data, eofs, errors>>
    BY <1>4 DEF CancelQueued
  <2> DEFINE S == {tasks[op]}
  <2>2. S \in SUBSET Queued /\ Queued' = Queued \ S
    BY <1>4, CancelQueuedSet
  <2>3. \A t \in S : ~Pending(t)'
    BY <1>b, <2>1, <2>2 DEF Pending
  <2>4. \A t \in Tasks \ S : Pending(t)' <=> Pending(t)
    BY <2>1, <2>2 DEF Pending
  <2> HIDE DEF S
  <2> QED
    BY <2>1, <2>2, <2>3, <2>4, WithdrawStep
<1>5. CASE HandleShutdownNow
  BY <1>5 DEF HandleShutdownNow, Shutdown
<1>6. CASE LateRejectStartOp
  BY <1>6, <1>d DEF LateRejectStartOp
<1>7. CASE EnqueueTask
  BY <1>7, AcceptStep
<1>8. CASE AckStartOp
  BY <1>8, <1>d, NotifiedPhase DEF AckStartOp
<1>9. CASE SendCancelled
  <2>1. PICK m \in Tasks : reader_errors[m] > 0 /\ errors' = [errors EXCEPT ![m] = @ + 1]
    BY <1>9 DEF SendCancelled
  <2>2. reader_errors[m] + auth_errors[m] > 0
    BY <2>1, TaskFacts
  <2>3. UNCHANGED <<admitted, task_queue, current_task, worker, data, eofs>>
    BY <1>9 DEF SendCancelled
  <2> QED
    BY <2>1, <2>2, <2>3, OwedErrorStep
<1>10. ASSUME NEW m \in Tasks, SendShutdownError(m)
       PROVE  LifecycleStep
  <2>1. reader_errors[m] + auth_errors[m] > 0
    BY <1>10, TaskFacts DEF SendShutdownError
  <2> QED
    BY <1>10, <2>1, OwedErrorStep DEF SendShutdownError
<1>11. CASE FinishShutdown
  BY <1>11, <1>d, NotifiedPhase DEF FinishShutdown
<1>12. ASSUME NEW toggles \in {RequestedFeatures, RestrictedFeatures},
              ApplyFeatureUpdate(toggles)
       PROVE  LifecycleStep
  <2>1. /\ UNCHANGED <<admitted, current_task, data, eofs, errors>>
        /\ worker' = "finish" <=> worker = "finish"
    BY <1>12, NotifiedPhase DEF ApplyFeatureUpdate
  <2>2. Queued' = {}
    BY <1>12, <1>a, AllowedPartCases, EmptiedQueue DEF ApplyFeatureUpdate
  <2>3. \A t \in Queued : ~Pending(t)'
    BY <1>b, <2>1, <2>2 DEF Pending
  <2>4. \A t \in Tasks \ Queued : Pending(t)' <=> Pending(t)
    BY <2>1, <2>2 DEF Pending
  <2> DEFINE S == Queued
  <2>5. /\ S \in SUBSET Queued /\ Queued' = Queued \ S
        /\ \A t \in S : ~Pending(t)'
        /\ \A t \in Tasks \ S : Pending(t)' <=> Pending(t)
    BY <2>2, <2>3, <2>4
  <2> HIDE DEF S
  <2> QED
    BY <2>1, <2>5, WithdrawStep
<1>13. ASSUME NEW m \in Tasks, SendUnauthorized(m)
       PROVE  LifecycleStep
  <2>1. reader_errors[m] + auth_errors[m] > 0
    BY <1>13, TaskFacts DEF SendUnauthorized
  <2> QED
    BY <1>13, <2>1, OwedErrorStep DEF SendUnauthorized
<1>14. CASE StartTask
  BY <1>14, StartStep
<1>15. CASE EndTask
  BY <1>15, FinishStep
<1>16. CASE FinishTask
  <2>1. /\ UNCHANGED <<admitted, task_queue, data, eofs, errors>>
        /\ worker = "finish" /\ current_task' = 0
    BY <1>16 DEF FinishTask
  <2>2. \A t \in Tasks : Pending(t)' <=> Pending(t)
    BY <2>1, TaskNumbers DEF Pending, Queued
  <2> QED
    BY <2>1, <2>2, Stutters DEF LifecycleStep
<1>17. CASE HandleStreamClosed
  <2>1. UNCHANGED <<admitted, current_task, worker, data, eofs>>
    BY <1>17 DEF HandleStreamClosed
  <2>2. Queued' = {}
    BY <1>17, EmptiedQueue DEF HandleStreamClosed
  <2>3. errors' = [t \in Tasks |-> IF t \in Queued THEN errors[t] + 1 ELSE errors[t]]
    BY <1>17, <1>b DEF HandleStreamClosed
  <2>4. \A t \in Queued : OpStatus[t] \in {"queued", "withdrawn"} /\ t <= admitted
    BY <1>c, StatusTableHolds, TaskFacts DEF StatusTable
  <2>5. \A t \in Queued : ~Pending(t)'
    BY <1>b, <2>1, <2>2 DEF Pending
  <2>6. \A t \in Tasks \ Queued : Pending(t)' <=> Pending(t)
    BY <2>1, <2>2 DEF Pending
  <2> DEFINE S == Queued
  <2>7. /\ S \in SUBSET Tasks /\ Queued' = Queued \ S
        /\ errors' = [t \in Tasks |-> IF t \in S THEN errors[t] + 1 ELSE errors[t]]
    BY <1>c, <2>2, <2>3
  <2>8. /\ \A t \in S : /\ OpStatus[t] \in {"queued", "withdrawn"}
                        /\ t <= admitted
                        /\ ~Pending(t)'
        /\ \A t \in Tasks \ S : Pending(t)' <=> Pending(t)
    BY <2>4, <2>5, <2>6
  <2> HIDE DEF S
  <2> QED
    BY <2>1, <2>7, <2>8, FailStep
<1> QED
  BY <1>a, <1>1, <1>2, <1>3, <1>4, <1>5, <1>6, <1>7, <1>8, <1>9, <1>10, <1>11, <1>12,
     <1>13, <1>14, <1>15, <1>16, <1>17, StepCases DEF LoudStep, OnAuthStateChanged

(* An agent that is not asked to shut down at once behaves towards the      *)
(* server as OperationLifecycle says, whatever its four threads do: one     *)
(* operation at a time in the order of acceptance, Data only while it runs, *)
(* one final message.                                                       *)
THEOREM ImplementsLifecycle ==
    ASSUME FALSE \notin ShutdownDrains
    PROVE  Spec => SerialLifecycle
<1>1. Init => Lifecycle!Init
  <2> SUFFICES ASSUME Init
               PROVE  Lifecycle!Init
    OBVIOUS
  <2>1. Inv
    BY InvInit
  <2>2. \A t \in Tasks : t > admitted
    BY TaskNumbers DEF Init
  <2>3. \A t \in Tasks : OpStatus[t] = "none"
    BY <2>1, <2>2, StatusTableHolds DEF StatusTable
  <2>4. OpStatus = [t \in Tasks |-> "none"]
    BY <2>3 DEF OpStatus
  <2> QED
    BY <2>4 DEF Init, Lifecycle!Init
<1>2. Inv /\ Inv' /\ [Next]_vars => [Lifecycle!Next]_Lifecycle!vars
  BY StepRefines DEF LifecycleStep
<1> QED
  BY <1>1, <1>2, Invariance, PTL DEF Spec, SerialLifecycle, Lifecycle!Spec
=============================================================================
