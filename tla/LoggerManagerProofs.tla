------------------------ MODULE LoggerManagerProofs -------------------------
(***************************************************************************)
(* Theorems about LoggerManager, for any number of threads, names, levels, *)
(* loggers and sinks.                                                      *)
(***************************************************************************)
EXTENDS LoggerManager, TLAPS

(* The mutex is held by the thread inside a loop over the loggers, inside   *)
(* set_level, inside a deleter that has found another logger, or stuck in   *)
(* one of them; only there does the manager hold a reference of its own.    *)
Mutex ==
    \A t \in Threads :
        /\ mu = t <=> pc[t] \in {"loop", "set_level", "removing", "deadlocked"}
        /\ temp[t] # 0 => pc[t] \in {"loop", "set_level", "removing"}
        /\ pc[t] = "set_level" => use[t] \in Levels
        /\ pc[t] \in {"deleting", "removing"} => victim[t] # 0

(* Whatever names a logger names one that was created.                      *)
Numbered ==
    /\ \A t \in Threads :
          /\ held[t] \subseteq 1..created
          /\ temp[t] <= created
          /\ victim[t] <= created
    /\ deleted \subseteq 1..created
    /\ \A n \in Names : loggers[n] <= created

UnderItsName == \A n \in Names : loggers[n] # 0 => name[loggers[n]] = n

(* A logger whose deleter runs is out of use for good, and the deleter that *)
(* leaves the entry has found another logger there.                         *)
VictimsDead ==
    \A t \in Threads : victim[t] # 0 =>
        /\ ~Live(victim[t])
        /\ pc[t] = "removing" => loggers[name[victim[t]]] # victim[t]

(* SinksShared also while the mutex is held: the loop of add_sink still has *)
(* to visit the loggers that lack the new sink.                             *)
SinkCount ==
    \A n \in Names : loggers[n] # 0 /\ Live(loggers[n]) =>
        /\ mu = "free" => logger_sinks[loggers[n]] = sinks
        /\ \A t \in Threads :
              /\ pc[t] = "removing" => logger_sinks[loggers[n]] = sinks
              /\ pc[t] \in {"loop", "set_level"} =>
                    logger_sinks[loggers[n]]
                        + (IF use[t] = "sink" /\ n \in todo[t] THEN 1 ELSE 0) = sinks

Inv ==
    /\ TypeOK
    /\ Mutex
    /\ Numbered
    /\ UnderItsName
    /\ VictimsDead
    /\ LiveIsRegistered
    /\ NoDanglingEntry
    /\ SinkCount
    /\ PendingAwaitsLogger

----------------------------------------------------------------------------
USE LoggerAssumption

(* The operations that begin a loop over the loggers.                       *)
BeginLoop(t) ==
    /\ Enter(t)
    /\ default_level' \in Levels
    /\ shutting_down' \in BOOLEAN
    /\ \E p \in {"loop", "set_level"}, ns \in SUBSET Names, u \in Uses :
          /\ Loop(t, p, ns, u)
          /\ p = "set_level" => u \in Levels
          /\ \/ u # "sink" /\ sinks' = sinks
             \/ u = "sink" /\ ns = Entries /\ sinks < MaxSinks /\ sinks' = sinks + 1

Step(t) ==
    \/ BeginLoop(t)
    \/ \E n \in Names, l \in Levels : set_pending_level(t, n, l)
    \/ Visit(t)
    \/ level_of_expired(t)
    \/ Release(t)
    \/ EndLoop(t)
    \/ \E n \in Names : find_logger(t, n)
    \/ \E n \in Names : make_logger(t, n)
    \/ \E u \in Threads, i \in Loggers : Share(t, u, i)
    \/ \E i \in Loggers : Drop(t, i)
    \/ remove_logger(t)
    \/ keep_other(t)
    \/ EndRemove(t)
    \/ shutdown(t)

(* The steps of the manager, those that begin a loop taken together.        *)
LEMMA StepCases ==
    ASSUME TypeOK, [Next]_vars
    PROVE  (\E t \in Threads : Step(t)) \/ UNCHANGED vars
<1>1. Entries \in SUBSET Names
  BY DEF Entries
<1>2. "none" \in Uses /\ "sink" \in Uses /\ Levels \subseteq Uses /\ "sink" \notin Levels
  BY DEF Uses
<1>3. ASSUME NEW t \in Threads, NEW l \in Levels, init(t, l)
      PROVE  BeginLoop(t)
  BY <1>1, <1>2, <1>3 DEF init, BeginLoop
<1>4. ASSUME NEW t \in Threads, add_sink(t)
      PROVE  BeginLoop(t)
  BY <1>1, <1>2, <1>4 DEF add_sink, BeginLoop, TypeOK
<1>5. ASSUME NEW t \in Threads, list_loggers(t)
      PROVE  BeginLoop(t)
  BY <1>1, <1>2, <1>5 DEF list_loggers, BeginLoop, TypeOK
<1>6. ASSUME NEW t \in Threads, NEW n \in Names, NEW l \in Levels, set_level(t, n, l)
      PROVE  BeginLoop(t)
  BY <1>2, <1>6 DEF set_level, BeginLoop, TypeOK
<1> QED
  BY <1>3, <1>4, <1>5, <1>6 DEF Next, Step

(* What the table is after the expired entries have gone.                   *)
LEMMA CleanedFacts ==
    ASSUME TypeOK
    PROVE  /\ Cleaned \in [Names -> Loggers \cup {0}]
           /\ \A n \in Names :
                 /\ Locked(n) = Cleaned[n]
                 /\ Cleaned[n] # 0 => Cleaned[n] = loggers[n] /\ Live(loggers[n])
                 /\ loggers[n] # 0 /\ Live(loggers[n]) => Cleaned[n] = loggers[n]
  BY DEF Cleaned, Locked, TypeOK

(* Loggers are positive numbers, so that 0 is free for an empty entry.       *)
LEMMA LoggerNumbers ==
    /\ 0 \notin Loggers
    /\ \A i \in Loggers : i \in Nat /\ i # 0
  BY DEF Loggers

(* No step brings a logger that is out of use back into use.                *)
LEMMA LiveStep ==
    ASSUME TypeOK, Mutex, Numbered, NEW t \in Threads, Step(t), NEW i \in 1..created,
           Live(i)'
    PROVE  Live(i)
<1> USE DEF Live
<1>0. created \in Nat /\ i \in Nat /\ i # 0
  BY DEF TypeOK
<1>1. ASSUME UNCHANGED <<held, temp>>
      PROVE  Live(i)
  BY <1>1
<1>2. CASE Visit(t)
  <2>1. PICK n \in Names : temp' = [temp EXCEPT ![t] = Cleaned[n]] /\ held' = held
    BY <1>2 DEF Visit, Locked, TypeOK
  <2>2. Cleaned[n] = i => Live(i)
    BY <1>0, CleanedFacts
  <2> QED
    BY <2>1, <2>2 DEF TypeOK
<1>3. CASE Release(t)
  BY <1>0, <1>3 DEF Release, TypeOK
<1>4. ASSUME NEW n \in Names, find_logger(t, n)
      PROVE  Live(i)
  <2>1. Locked(n) = i => Live(i)
    BY <1>0, CleanedFacts
  <2> QED
    BY <1>4, <2>1 DEF find_logger, TypeOK
<1>5. ASSUME NEW n \in Names, make_logger(t, n)
      PROVE  Live(i)
  BY <1>0, <1>5 DEF make_logger, TypeOK
<1>6. ASSUME NEW u \in Threads, NEW j \in Loggers, Share(t, u, j)
      PROVE  Live(i)
  BY <1>6 DEF Share, TypeOK
<1>7. ASSUME NEW j \in Loggers, Drop(t, j)
      PROVE  Live(i)
  BY <1>7 DEF Drop, TypeOK
<1>8. CASE keep_other(t)
  <2>1. Locked(name[victim[t]]) = i => Live(i)
    <3>1. name[victim[t]] \in Names
      BY <1>8 DEF keep_other, Mutex, TypeOK
    <3> QED
      BY <1>0, <3>1, CleanedFacts
  <2> QED
    BY <1>8, <2>1 DEF keep_other, TypeOK
<1> QED
  BY <1>1, <1>2, <1>3, <1>4, <1>5, <1>6, <1>7, <1>8
     DEF Step, BeginLoop, Loop, set_pending_level, level_of_expired, EndLoop, remove_logger, EndRemove, shutdown

----------------------------------------------------------------------------
(* Every step keeps the types.                                              *)
LEMMA TypeStep ==
    ASSUME Inv, NEW t \in Threads, Step(t)
    PROVE  TypeOK'
<1> USE DEF TypeOK, tableVars, loggerVars, threadVars
<1>a. TypeOK /\ Mutex /\ Numbered /\ UnderItsName /\ SinkCount
  BY DEF Inv
<1>b. /\ Cleaned \in [Names -> Loggers \cup {0}]
      /\ \A n \in Names : Locked(n) \in Loggers \cup {0}
  BY <1>a, CleanedFacts
<1>1. CASE BeginLoop(t)
  <2>1. sinks' \in 0..MaxSinks
    BY <1>a, <1>1 DEF BeginLoop
  <2> QED
    BY <1>a, <1>b, <1>1, <2>1 DEF BeginLoop, Loop, PCs
<1>2. ASSUME NEW n \in Names, NEW l \in Levels, set_pending_level(t, n, l)
      PROVE  TypeOK'
  BY <1>a, <1>b, <1>2 DEF set_pending_level
<1>3. CASE Visit(t)
  <2>1. PICK n \in todo[t] :
           /\ todo' = [todo EXCEPT ![t] = @ \ {n}]
           /\ temp' = [temp EXCEPT ![t] = Locked(n)]
           /\ level' = IF Locked(n) # 0 /\ use[t] \in Levels
                       THEN [level EXCEPT ![Locked(n)] = use[t]] ELSE level
           /\ logger_sinks' = IF Locked(n) # 0 /\ use[t] = "sink"
                              THEN [logger_sinks EXCEPT ![Locked(n)] = WithSink(@)]
                              ELSE logger_sinks
    BY <1>3 DEF Visit
  <2>2. n \in Names /\ Locked(n) \in Loggers \cup {0}
    BY <1>a, <1>b
  <2>3. todo' \in [Threads -> SUBSET Names] /\ temp' \in [Threads -> Loggers \cup {0}]
    BY <1>a, <2>1, <2>2
  <2>4. level' \in [Loggers -> Levels]
    BY <1>a, <2>1, <2>2
  <2>5. logger_sinks' \in [Loggers -> 0..MaxSinks]
    <3>1. CASE Locked(n) # 0 /\ use[t] = "sink"
      <4>1. Locked(n) = loggers[n] /\ loggers[n] # 0 /\ Live(loggers[n]) /\ pc[t] \in {"loop", "set_level"}
        BY <1>a, <1>3, <2>2, <3>1, CleanedFacts DEF Visit
      <4>2. logger_sinks[Locked(n)] + 1 = sinks
        BY <1>a, <2>1, <2>2, <3>1, <4>1 DEF SinkCount
      <4>3. logger_sinks[Locked(n)] \in 0..MaxSinks /\ sinks \in 0..MaxSinks
        BY <1>a, <2>2, <3>1
      <4>4. WithSink(logger_sinks[Locked(n)]) \in 0..MaxSinks
        BY <4>2, <4>3 DEF WithSink
      <4> QED
        BY <1>a, <2>1, <2>2, <3>1, <4>4
    <3> QED
      BY <1>a, <2>1, <3>1
  <2> QED
    BY <1>a, <1>3, <2>3, <2>4, <2>5 DEF Visit
<1>3a. CASE level_of_expired(t)
  <2>1. PICK n \in todo[t] :
           /\ pending_levels' = [pending_levels EXCEPT ![n] = use[t]]
           /\ todo' = [todo EXCEPT ![t] = @ \ {n}]
    BY <1>3a DEF level_of_expired
  <2>2. n \in Names /\ use[t] \in Levels
    BY <1>a, <1>3a DEF level_of_expired, Mutex
  <2> QED
    BY <1>a, <1>3a, <2>1, <2>2 DEF level_of_expired
<1>4. CASE Release(t)
  BY <1>a, <1>4 DEF Release, PCs
<1>5. CASE EndLoop(t)
  BY <1>a, <1>5 DEF EndLoop, PCs, Uses
<1>6. ASSUME NEW n \in Names, find_logger(t, n)
      PROVE  TypeOK'
  BY <1>a, <1>b, <1>6 DEF find_logger
<1>7. ASSUME NEW n \in Names, make_logger(t, n)
      PROVE  TypeOK'
  <2>1. created' \in Loggers /\ created' \in 0..MaxLoggers
    BY <1>a, <1>7 DEF make_logger, Loggers
  <2>2. InitialLevel(n) \in Levels /\ InitialSinks \in 0..MaxSinks
    BY <1>a DEF InitialLevel, InitialSinks
  <2>3. pending_levels' \in [Names -> Levels \cup {"none"}]
    BY <1>a, <1>7 DEF make_logger, PendingTaken
  <2>4. /\ name' \in [Loggers -> Names]
        /\ level' \in [Loggers -> Levels]
        /\ logger_sinks' \in [Loggers -> 0..MaxSinks]
    BY <1>a, <1>7, <2>1, <2>2 DEF make_logger
  <2>5. loggers' \in [Names -> Loggers \cup {0}] /\ held' \in [Threads -> SUBSET Loggers]
    BY <1>a, <1>b, <1>7, <2>1 DEF make_logger
  <2> QED
    BY <1>a, <1>7, <2>1, <2>3, <2>4, <2>5 DEF make_logger
<1>8. ASSUME NEW u \in Threads, NEW i \in Loggers, Share(t, u, i)
      PROVE  TypeOK'
  BY <1>a, <1>8 DEF Share
<1>9. ASSUME NEW i \in Loggers, Drop(t, i)
      PROVE  TypeOK'
  BY <1>a, <1>9 DEF Drop, PCs
<1>10. CASE remove_logger(t)
  <2>1. victim[t] \in Loggers /\ name[victim[t]] \in Names
    BY <1>a, <1>10 DEF remove_logger, Mutex
  <2> QED
    BY <1>a, <1>10, <2>1 DEF remove_logger, PCs
<1>11. CASE keep_other(t)
  <2>1. name[victim[t]] \in Names
    BY <1>a, <1>11 DEF keep_other, Mutex
  <2> QED
    BY <1>a, <1>b, <1>11, <2>1 DEF keep_other, PCs
<1>12. CASE EndRemove(t)
  <2>1. victim[t] \in Loggers
    BY <1>a, <1>12 DEF EndRemove, Mutex
  <2> QED
    BY <1>a, <1>12, <2>1 DEF EndRemove, PCs
<1>13. CASE shutdown(t)
  BY <1>a, <1>13 DEF shutdown
<1> QED
  BY <1>1, <1>2, <1>3, <1>3a, <1>4, <1>5, <1>6, <1>7, <1>8, <1>9, <1>10, <1>11, <1>12, <1>13
     DEF Step

(* The mutex has one holder, and a deleter has its logger.                  *)
LEMMA MutexStep ==
    ASSUME TypeOK, Mutex, NEW t \in Threads, Step(t)
    PROVE  Mutex'
<1> USE DEF TypeOK, Mutex, threadVars
<1>1. CASE BeginLoop(t)
  BY <1>1 DEF BeginLoop, Loop, Enter
<1>2. ASSUME NEW n \in Names, NEW l \in Levels, set_pending_level(t, n, l)
      PROVE  Mutex'
  BY <1>2 DEF set_pending_level
<1>3. CASE Visit(t)
  <2>1. \A u \in Threads : u # t => temp'[u] = temp[u]
    BY <1>3 DEF Visit
  <2> QED
    BY <1>3, <2>1 DEF Visit
<1>3a. CASE level_of_expired(t)
  BY <1>3a DEF level_of_expired
<1>4. CASE Release(t)
  BY <1>4 DEF Release
<1>5. CASE EndLoop(t)
  BY <1>5 DEF EndLoop
<1>6. ASSUME NEW n \in Names, find_logger(t, n) \/ make_logger(t, n)
      PROVE  Mutex'
  BY <1>6 DEF find_logger, make_logger
<1>8. ASSUME NEW u \in Threads, NEW i \in Loggers, Share(t, u, i)
      PROVE  Mutex'
  BY <1>8 DEF Share
<1>9. ASSUME NEW i \in Loggers, Drop(t, i)
      PROVE  Mutex'
  <2>1. i # 0
    BY LoggerNumbers
  <2> QED
    BY <1>9, <2>1 DEF Drop
<1>10. CASE remove_logger(t)
  BY <1>10 DEF remove_logger
<1>11. CASE keep_other(t)
  BY <1>11 DEF keep_other
<1>12. CASE EndRemove(t)
  BY <1>12 DEF EndRemove
<1>13. CASE shutdown(t)
  BY <1>13 DEF shutdown, Enter
<1> QED
  BY <1>1, <1>2, <1>3, <1>3a, <1>4, <1>5, <1>6, <1>8, <1>9, <1>10, <1>11, <1>12, <1>13
     DEF Step

(* Loggers keep their names.                                                *)
LEMMA NameStep ==
    ASSUME TypeOK, NEW t \in Threads, Step(t)
    PROVE  /\ created' \in {created, created + 1}
           /\ \A i \in 1..created : name'[i] = name[i]
<1> USE DEF TypeOK, loggerVars
<1>1. ASSUME NEW n \in Names, make_logger(t, n)
      PROVE  created' = created + 1 /\ \A i \in 1..created : name'[i] = name[i]
  BY <1>1 DEF make_logger, Loggers
<1>2. CASE created' = created /\ name' = name
  BY <1>2
<1> QED
  BY <1>1, <1>2
     DEF Step, BeginLoop, Loop, set_pending_level, level_of_expired, Visit, Release, EndLoop, find_logger,
         Share, Drop, remove_logger, keep_other, EndRemove, shutdown

(* An entry is kept, removed, or given to a new logger.                     *)
LEMMA TableStep ==
    ASSUME TypeOK, Mutex, NEW t \in Threads, Step(t), NEW n \in Names
    PROVE  \/ loggers'[n] = 0
           \/ loggers'[n] = loggers[n]
           \/ make_logger(t, n) /\ loggers'[n] = created'
<1> USE DEF tableVars
<1>a. Cleaned[n] \in {0, loggers[n]} /\ Cleaned \in [Names -> Loggers \cup {0}]
  BY CleanedFacts
<1>1. CASE loggers' = Cleaned \/ loggers' = loggers \/ loggers' = [m \in Names |-> 0]
  BY <1>a, <1>1
<1>2. ASSUME NEW m \in Names, make_logger(t, m)
      PROVE  \/ loggers'[n] \in {0, loggers[n]}
             \/ make_logger(t, n) /\ loggers'[n] = created'
  <2>1. loggers' = [Cleaned EXCEPT ![m] = created']
    BY <1>2 DEF make_logger
  <2>2. CASE m = n
    BY <1>a, <1>2, <2>1, <2>2
  <2>3. CASE m # n
    <3>1. loggers'[n] = Cleaned[n]
      BY <1>a, <2>1, <2>3
    <3>2. loggers'[n] \in {0, loggers[n]}
      BY <1>a, <3>1
    <3> QED
      BY <3>2
  <2> QED
    BY <2>2, <2>3
<1>3. CASE remove_logger(t)
  BY <1>3 DEF remove_logger, TypeOK
<1> QED
  BY <1>1, <1>2, <1>3
     DEF Step, BeginLoop, Loop, set_pending_level, level_of_expired, Visit, Release, EndLoop, find_logger,
         Share, Drop, keep_other, EndRemove, shutdown

(* Nothing names a logger before it is created.                             *)
LEMMA NumberedStep ==
    ASSUME TypeOK, Mutex, Numbered, NEW t \in Threads, Step(t)
    PROVE  Numbered'
<1> USE DEF Numbered
<1>a. created \in Nat /\ created' \in {created, created + 1}
  BY NameStep DEF TypeOK
<1>b. \A n \in Names : Locked(n) \in 0..created
  <2> SUFFICES ASSUME NEW n \in Names
               PROVE  Locked(n) \in 0..created
    OBVIOUS
  <2>1. Locked(n) \in {0, loggers[n]}
    BY CleanedFacts
  <2>2. loggers[n] \in Nat
    BY DEF TypeOK, Loggers
  <2> QED
    BY <1>a, <2>1, <2>2
<1>1. \A n \in Names : loggers'[n] <= created'
  <2> SUFFICES ASSUME NEW n \in Names
               PROVE  loggers'[n] <= created'
    OBVIOUS
  <2>1. loggers[n] \in Nat
    BY DEF TypeOK, Loggers
  <2> QED
    BY <1>a, <2>1, TableStep
<1>2. ASSUME UNCHANGED <<held, temp, victim, deleted>>
      PROVE  Numbered'
  <2> SUFFICES ASSUME NEW u \in Threads
               PROVE  held[u] \subseteq 1..created' /\ temp[u] <= created' /\ victim[u] <= created'
    BY <1>a, <1>1, <1>2
  <2>1. temp[u] \in Nat /\ victim[u] \in Nat
    BY DEF TypeOK, Loggers
  <2> QED
    BY <1>a, <2>1
<1>3. CASE created' = created
  <2> SUFFICES ASSUME NEW u \in Threads
               PROVE  /\ held'[u] \subseteq 1..created
                      /\ temp'[u] <= created
                      /\ victim'[u] <= created
                      /\ deleted' \subseteq 1..created
    BY <1>3, <1>1, <1>2
  <2>1. CASE Visit(t)
    BY <1>a, <1>b, <2>1 DEF Visit, TypeOK
  <2>2. CASE Release(t)
    BY <1>a, <2>2 DEF Release, TypeOK
  <2>3. ASSUME NEW n \in Names, find_logger(t, n)
        PROVE  held'[u] \subseteq 1..created
    <3>1. Locked(n) \in 1..created
      BY <1>a, <1>b, <2>3 DEF find_logger
    <3> QED
      BY <2>3, <3>1 DEF find_logger, TypeOK
  <2>4. ASSUME NEW v \in Threads, NEW i \in Loggers, Share(t, v, i)
        PROVE  held'[u] \subseteq 1..created
    BY <2>4 DEF Share, TypeOK
  <2>5. ASSUME NEW i \in Loggers, Drop(t, i)
        PROVE  held'[u] \subseteq 1..created /\ victim'[u] <= created
    <3>1. i <= created
      BY <1>a, <2>5 DEF Drop
    <3> QED
      BY <2>5, <3>1 DEF Drop, TypeOK
  <2>6. CASE remove_logger(t) \/ EndRemove(t)
    <3>1. victim[t] \in 1..created
      BY <1>a, <2>6 DEF remove_logger, EndRemove, Mutex, TypeOK, Loggers
    <3>2. deleted' = deleted \cup {victim[t]} /\ victim' = [victim EXCEPT ![t] = 0]
      BY <2>6 DEF remove_logger, EndRemove
    <3>3. victim'[u] \in {0, victim[u]} /\ UNCHANGED <<held, temp>>
      BY <2>6, <3>2 DEF remove_logger, EndRemove, TypeOK
    <3>4. deleted' \subseteq 1..created
      BY <3>1, <3>2
    <3> QED
      BY <1>a, <3>3, <3>4
  <2>7. CASE keep_other(t)
    <3>1. name[victim[t]] \in Names
      BY <2>7 DEF keep_other, Mutex, TypeOK
    <3> QED
      BY <1>a, <1>b, <2>7, <3>1 DEF keep_other, TypeOK
  <2>8. ASSUME UNCHANGED <<held, temp, victim, deleted>>
        PROVE  /\ held'[u] \subseteq 1..created
               /\ temp'[u] <= created
               /\ victim'[u] <= created
               /\ deleted' \subseteq 1..created
    BY <2>8
  <2>9. ASSUME NEW n \in Names, make_logger(t, n)
        PROVE  FALSE
    BY <1>a, <1>3, <2>9 DEF make_logger
  <2> QED
    BY <2>1, <2>2, <2>3, <2>4, <2>5, <2>6, <2>7, <2>8, <2>9
       DEF Step, BeginLoop, Loop, set_pending_level, level_of_expired, Visit, Release, EndLoop, find_logger,
           Share, Drop, remove_logger, keep_other, EndRemove, shutdown, threadVars
<1>4. ASSUME NEW n \in Names, make_logger(t, n)
      PROVE  Numbered'
  <2>1. created' = created + 1 /\ UNCHANGED <<temp, victim, deleted>>
    BY <1>4 DEF make_logger, threadVars
  <2>2. \A u \in Threads : held'[u] \subseteq held[u] \cup {created'}
    BY <1>4 DEF make_logger, TypeOK
  <2>3. \A u \in Threads : temp[u] \in Nat /\ victim[u] \in Nat
    BY DEF TypeOK, Loggers
  <2> QED
    BY <1>a, <1>1, <2>1, <2>2, <2>3
<1> QED
  BY <1>3, <1>4
     DEF Step, BeginLoop, Loop, set_pending_level, level_of_expired, Visit, Release, EndLoop, find_logger,
         Share, Drop, remove_logger, keep_other, EndRemove, shutdown, loggerVars

(* An entry holds a logger of its name.                                     *)
LEMMA UnderItsNameStep ==
    ASSUME TypeOK, Mutex, Numbered, UnderItsName, NEW t \in Threads, Step(t)
    PROVE  UnderItsName'
<1> SUFFICES ASSUME NEW n \in Names, loggers'[n] # 0
             PROVE  name'[loggers'[n]] = n
  BY DEF UnderItsName
<1>1. CASE loggers'[n] = loggers[n]
  <2>1. loggers[n] \in 1..created
    BY <1>1 DEF Numbered, TypeOK, Loggers
  <2> QED
    BY <1>1, <2>1, NameStep DEF UnderItsName
<1>2. CASE make_logger(t, n) /\ loggers'[n] = created'
  <2>1. created' \in Loggers
    BY <1>2 DEF make_logger, TypeOK, Loggers
  <2> QED
    BY <1>2, <2>1 DEF make_logger, TypeOK
<1> QED
  BY <1>1, <1>2, TableStep

(* A deleter runs for a logger nobody uses any more.                        *)
LEMMA VictimsDeadStep ==
    ASSUME TypeOK, TypeOK', Mutex, Numbered, VictimsDead, NEW t \in Threads, Step(t)
    PROVE  VictimsDead'
<1> SUFFICES ASSUME NEW u \in Threads, NEW v \in Loggers, victim'[u] = v
             PROVE  /\ ~Live(v)'
                    /\ pc'[u] = "removing" => loggers'[name'[v]] # v
  <2>1. \A u \in Threads : victim'[u] # 0 => victim'[u] \in Loggers
    BY DEF TypeOK
  <2>2. \A u \in Threads : victim'[u] # 0 =>
           /\ \A x \in Threads : victim'[u] \notin held'[x] /\ temp'[x] # victim'[u]
           /\ pc'[u] = "removing" => loggers'[name'[victim'[u]]] # victim'[u]
    BY <2>1 DEF Live
  <2> QED
    BY <2>2 DEF VictimsDead, Live
<1>a. created \in Nat /\ created' \in {created, created + 1}
  BY NameStep DEF TypeOK
<1>1. ASSUME victim[u] = v, pc'[u] = "removing" => pc[u] = "removing"
      PROVE  /\ ~Live(v)'
             /\ pc'[u] = "removing" => loggers'[name'[v]] # v
  <2>1. v \in 1..created /\ v # 0
    BY <1>1 DEF Numbered, TypeOK, Loggers
  <2>2. ~Live(v)'
    <3>1. ~Live(v)
      BY <1>1, <2>1 DEF VictimsDead
    <3> QED
      BY <2>1, <3>1, LiveStep
  <2>3. name'[v] = name[v] /\ name[v] \in Names
    BY <2>1, NameStep DEF TypeOK
  <2>4. ASSUME pc[u] = "removing"
        PROVE  loggers'[name[v]] # v
    <3>1. loggers[name[v]] # v
      BY <1>1, <2>1, <2>4 DEF VictimsDead
    <3>2. make_logger(t, name[v]) => v # created'
      BY <1>a, <2>1 DEF make_logger
    <3> QED
      BY <2>1, <2>3, <3>1, <3>2, TableStep
  <2> QED
    BY <1>1, <2>2, <2>3, <2>4
<1>2. ASSUME NEW i \in Loggers, Drop(t, i), u = t, ~UsedBesides(t, i)
      PROVE  ~Live(v)' /\ pc'[u] # "removing"
  <2>1. pc'[u] # "removing" /\ v = i
    BY <1>2 DEF Drop, TypeOK
  <2>2. ~Live(i)'
    BY <1>2 DEF Drop, UsedBesides, Live, TypeOK
  <2> QED
    BY <1>2, <2>1, <2>2
<1>3. ASSUME NEW i \in Loggers, Drop(t, i), u # t \/ UsedBesides(t, i)
      PROVE  victim[u] = v /\ pc'[u] = pc[u]
  BY <1>3 DEF Drop, TypeOK
<1>4. CASE keep_other(t) /\ u = t
  <2>1. v \in 1..created /\ v # 0 /\ victim[u] = v
    <3>1. victim[u] = v
      BY <1>4 DEF keep_other
    <3> QED
      BY <1>a, <3>1 DEF Numbered, Loggers
  <2>2. ~Live(v)'
    <3>1. ~Live(v)
      BY <2>1 DEF VictimsDead
    <3> QED
      BY <2>1, <3>1, LiveStep
  <2>3. loggers' = loggers /\ name'[v] = name[v] /\ name[v] \in Names
    BY <1>4, <2>1 DEF keep_other, tableVars, loggerVars, TypeOK
  <2>4. loggers[name[v]] # v
    BY <1>4, <2>1, <2>3, CleanedFacts DEF keep_other, HoldsOther
  <2> QED
    BY <2>1, <2>2, <2>3, <2>4
<1>5. CASE keep_other(t) /\ u # t
  <2>1. victim[u] = v /\ pc'[u] = pc[u]
    BY <1>5 DEF keep_other, TypeOK
  <2> QED
    BY <1>1, <2>1
<1>6. CASE remove_logger(t) \/ EndRemove(t)
  <2>1. u # t
    BY <1>6, LoggerNumbers DEF remove_logger, EndRemove, TypeOK
  <2>2. victim[u] = v /\ pc'[u] = pc[u]
    BY <1>6, <2>1 DEF remove_logger, EndRemove, TypeOK
  <2> QED
    BY <1>1, <2>2
<1>7. CASE BeginLoop(t) \/ EndLoop(t) \/ Release(t)
  <2>1. victim[u] = v /\ (pc'[u] = "removing" => pc[u] = "removing")
    BY <1>7 DEF BeginLoop, Loop, EndLoop, Release, TypeOK
  <2> QED
    BY <1>1, <2>1
<1>8. CASE UNCHANGED <<victim, pc>>
  BY <1>1, <1>8
<1> QED
  BY <1>1, <1>2, <1>3, <1>4, <1>5, <1>6, <1>7, <1>8
     DEF Step, set_pending_level, level_of_expired, Visit, find_logger, make_logger, Share, shutdown, threadVars

(* A live logger is found under its name after the step.                    *)
LEMMA LiveIsRegisteredStep ==
    ASSUME TypeOK, Mutex, Numbered, UnderItsName, VictimsDead, LiveIsRegistered,
           NEW t \in Threads, Step(t)
    PROVE  LiveIsRegistered'
<1> SUFFICES ASSUME NEW i \in 1..created', Live(i)', i \notin forgotten'
             PROVE  loggers'[name'[i]] = i
  BY DEF LiveIsRegistered
<1>a. created \in Nat /\ created \in 0..MaxLoggers /\ created' \in {created, created + 1}
  BY NameStep DEF TypeOK
<1>1. ASSUME NEW n \in Names, make_logger(t, n), i = created'
      PROVE  loggers'[name'[i]] = i
  <2>1. i \in Loggers /\ name' = [name EXCEPT ![i] = n]
    BY <1>a, <1>1 DEF make_logger, Loggers
  <2>2. name'[i] = n
    BY <2>1 DEF TypeOK
  <2>3. loggers'[n] = i
    BY <1>1, CleanedFacts DEF make_logger
  <2> QED
    BY <2>2, <2>3
<1>2. ASSUME i \in 1..created, i \notin forgotten
      PROVE  /\ i \in Loggers /\ Live(i)
             /\ name'[i] = name[i] /\ name[i] \in Names
             /\ loggers[name[i]] = i
             /\ Cleaned[name[i]] = i
  <2>1. i \in Loggers /\ Live(i) /\ name'[i] = name[i]
    BY <1>a, <1>2, LiveStep, NameStep DEF Loggers
  <2>2. name[i] \in Names /\ loggers[name[i]] = i
    BY <1>2, <2>1 DEF LiveIsRegistered, TypeOK
  <2> QED
    BY <2>1, <2>2, CleanedFacts, LoggerNumbers
<1>3. ASSUME NEW n \in Names, make_logger(t, n), i # created'
      PROVE  loggers'[name'[i]] = i
  <2>1. i \in 1..created /\ i \notin forgotten
    BY <1>a, <1>3 DEF make_logger
  <2>2. name[i] # n
    BY <1>2, <1>3, <2>1, CleanedFacts, LoggerNumbers DEF make_logger
  <2> QED
    BY <1>2, <1>3, <2>1, <2>2, CleanedFacts DEF make_logger
<1>4. CASE remove_logger(t)
  <2>1. i \in 1..created /\ i \notin forgotten
    BY <1>4 DEF remove_logger, loggerVars
  <2>2. victim[t] \in Loggers /\ ~Live(victim[t])
    BY <1>4 DEF remove_logger, Mutex, VictimsDead, TypeOK
  <2>3. name[i] # name[victim[t]]
    BY <1>2, <1>4, <2>1, <2>2, CleanedFacts, LoggerNumbers DEF remove_logger, HoldsOther
  <2> QED
    BY <1>2, <1>4, <2>1, <2>3 DEF remove_logger, TypeOK
<1>5. CASE shutdown(t)
  <2>1. i \in 1..created /\ i \in Loggers
    BY <1>a, <1>5 DEF shutdown, loggerVars, Loggers
  <2>2. Live(i)
    BY <2>1, LiveStep
  <2> QED
    BY <1>5, <2>1, <2>2 DEF shutdown
<1>6. ASSUME created' = created, forgotten' = forgotten, loggers' = Cleaned \/ loggers' = loggers
      PROVE  loggers'[name'[i]] = i
  BY <1>2, <1>6
<1> QED
  BY <1>1, <1>3, <1>4, <1>5, <1>6
     DEF Step, BeginLoop, Loop, set_pending_level, level_of_expired, Visit, Release, EndLoop, find_logger,
         Share, Drop, keep_other, EndRemove, tableVars, loggerVars

(* An entry goes before, or with, the end of its logger's deleter.          *)
LEMMA NoDanglingEntryStep ==
    ASSUME TypeOK, Mutex, Numbered, UnderItsName, VictimsDead, NoDanglingEntry,
           NEW t \in Threads, Step(t)
    PROVE  NoDanglingEntry'
<1> SUFFICES ASSUME NEW n \in Names
             PROVE  loggers'[n] \notin deleted'
  BY DEF NoDanglingEntry
<1>a. created \in Nat /\ 0 \notin deleted /\ created + 1 \notin deleted
  BY DEF TypeOK, Numbered
<1>1. CASE deleted' = deleted
  <2>1. make_logger(t, n) => created' = created + 1
    BY DEF make_logger
  <2> QED
    BY <1>a, <1>1, <2>1, TableStep DEF NoDanglingEntry
<1>2. CASE remove_logger(t)
  <2>1. victim[t] \in Loggers /\ victim[t] # 0
    BY <1>2, LoggerNumbers DEF remove_logger, Mutex, TypeOK
  <2>2. loggers[n] = victim[t] => n = name[victim[t]]
    BY <2>1 DEF UnderItsName
  <2>3. loggers'[n] = IF n = name[victim[t]] THEN 0 ELSE loggers[n]
    BY <1>2 DEF remove_logger, TypeOK
  <2>4. deleted' = deleted \cup {victim[t]}
    BY <1>2 DEF remove_logger
  <2> QED
    BY <1>a, <2>1, <2>2, <2>3, <2>4 DEF NoDanglingEntry
<1>3. CASE EndRemove(t)
  <2>1. victim[t] \in Loggers /\ victim[t] # 0 /\ pc[t] = "removing"
    BY <1>3, LoggerNumbers DEF EndRemove, Mutex, TypeOK
  <2>2. loggers[n] # victim[t]
    BY <2>1 DEF UnderItsName, VictimsDead
  <2> QED
    BY <1>3, <2>2 DEF EndRemove, tableVars, NoDanglingEntry
<1> QED
  BY <1>1, <1>2, <1>3
     DEF Step, BeginLoop, Loop, set_pending_level, level_of_expired, Visit, Release, EndLoop, find_logger,
         make_logger, Share, Drop, keep_other, shutdown

(* The sinks of a logger in use are those of the manager, but for the one   *)
(* the loop under way is adding.                                            *)
LEMMA SinkCountStep ==
    ASSUME TypeOK, TypeOK', Mutex, Mutex', Numbered, Numbered', UnderItsName, SinkCount,
           NEW t \in Threads, Step(t)
    PROVE  SinkCount'
<1> DEFINE Count(s, l, m, p, w, d, n) ==
             /\ m = "free" => l = s
             /\ \A u \in Threads :
                   /\ p[u] = "removing" => l = s
                   /\ p[u] \in {"loop", "set_level"} => l + (IF w[u] = "sink" /\ n \in d[u] THEN 1 ELSE 0) = s
<1> SUFFICES ASSUME NEW n \in Names, NEW i \in Loggers, loggers'[n] = i, Live(i)'
             PROVE  Count(sinks', logger_sinks'[i], mu', pc', use', todo', n)
  <2>1. \A n \in Names : loggers'[n] # 0 => loggers'[n] \in Loggers
    BY DEF TypeOK
  <2>2. \A n \in Names : loggers'[n] # 0 /\ Live(loggers[n])' =>
           Count(sinks', logger_sinks'[loggers'[n]], mu', pc', use', todo', n)
    BY <2>1 DEF Live
  <2> QED
    BY <2>2 DEF SinkCount
<1>a. created \in Nat /\ i # 0 /\ sinks \in Nat /\ logger_sinks[i] \in Nat
  BY LoggerNumbers DEF TypeOK
<1>b. ASSUME loggers[n] = i
      PROVE  Live(i) /\ Count(sinks, logger_sinks[i], mu, pc, use, todo, n)
  <2>1. i \in 1..created
    BY <1>a, <1>b DEF Numbered, Loggers
  <2>2. Live(i)
    BY <2>1, LiveStep
  <2> QED
    BY <1>a, <1>b, <2>2 DEF SinkCount
<1>c. loggers[n] = i \/ make_logger(t, n)
  BY <1>a, TableStep
<1>d. mu = "free" => \A u \in Threads : pc[u] \notin {"loop", "set_level", "removing"}
  BY DEF Mutex
<1>e. ASSUME NEW u \in Threads, mu = u
      PROVE  \A x \in Threads : x # u => pc[x] \notin {"loop", "set_level", "removing"}
  BY <1>e DEF Mutex
<1>f. ASSUME NEW u \in Threads, mu' = u
      PROVE  \A x \in Threads : x # u => pc'[x] \notin {"loop", "set_level", "removing"}
  BY <1>f DEF Mutex
<1>g. mu' = "free" => \A u \in Threads : pc'[u] \notin {"loop", "set_level", "removing"}
  BY DEF Mutex
<1>1. CASE BeginLoop(t)
  <2>1. PICK p \in {"loop", "set_level"}, ns \in SUBSET Names, w \in Uses :
           /\ Loop(t, p, ns, w)
           /\ \/ w # "sink" /\ sinks' = sinks
              \/ w = "sink" /\ ns = Entries /\ sinks' = sinks + 1
    BY <1>1 DEF BeginLoop
  <2>2. loggers[n] = i /\ Cleaned[n] = i
    BY <1>a, <2>1, CleanedFacts DEF Loop
  <2>3. logger_sinks'[i] = sinks
    BY <1>1, <1>b, <2>1, <2>2 DEF BeginLoop, Enter, Loop, loggerVars
  <2>4. pc'[t] = p /\ use'[t] = w /\ todo'[t] = ns /\ mu' = t
    BY <2>1 DEF Loop, TypeOK
  <2>5. w = "sink" => n \in ns
    BY <1>a, <2>1, <2>2 DEF Entries
  <2>6. logger_sinks'[i] + (IF w = "sink" /\ n \in ns THEN 1 ELSE 0) = sinks'
    BY <1>a, <2>1, <2>3, <2>5
  <2> QED
    BY <1>f, <2>4, <2>6
<1>2. CASE Visit(t)
  <2>1. PICK m \in todo[t] :
           /\ todo' = [todo EXCEPT ![t] = @ \ {m}]
           /\ logger_sinks' = IF Locked(m) # 0 /\ use[t] = "sink"
                              THEN [logger_sinks EXCEPT ![Locked(m)] = WithSink(@)]
                              ELSE logger_sinks
    BY <1>2 DEF Visit
  <2>2. /\ UNCHANGED <<mu, sinks, loggers, pc, use>>
        /\ pc[t] \in {"loop", "set_level"} /\ mu = t /\ loggers[n] = i /\ m \in Names
    BY <1>2 DEF Visit, tableVars, Mutex, TypeOK
  <2>3. Live(i) /\ logger_sinks[i] + (IF use[t] = "sink" /\ n \in todo[t] THEN 1 ELSE 0) = sinks
    BY <1>b, <2>2
  <2>4. CASE m = n
    <3>1. Locked(n) = i /\ n \in todo[t] /\ n \notin todo'[t]
      BY <1>a, <2>1, <2>2, <2>3, <2>4, CleanedFacts DEF TypeOK
    <3>2. logger_sinks'[i] = IF use[t] = "sink" THEN logger_sinks[i] + 1 ELSE logger_sinks[i]
      BY <1>a, <2>1, <2>4, <3>1 DEF WithSink, TypeOK
    <3>3. logger_sinks'[i] = sinks
      BY <1>a, <2>3, <3>1, <3>2
    <3> QED
      BY <1>a, <1>f, <2>2, <3>1, <3>3
  <2>5. CASE m # n
    <3>1. Locked(m) # i
      BY <1>a, <2>2, <2>5, CleanedFacts DEF UnderItsName
    <3>2. logger_sinks'[i] = logger_sinks[i] /\ (n \in todo'[t] <=> n \in todo[t])
      BY <2>1, <2>5, <3>1 DEF TypeOK
    <3> QED
      BY <1>f, <2>2, <2>3, <3>2
  <2> QED
    BY <2>4, <2>5
<1>2a. CASE level_of_expired(t)
  <2>1. PICK m \in todo[t] : Locked(m) = 0 /\ todo' = [todo EXCEPT ![t] = @ \ {m}]
    BY <1>2a DEF level_of_expired
  <2>2. /\ UNCHANGED <<mu, sinks, logger_sinks, loggers, pc, use>>
        /\ pc[t] = "set_level" /\ mu = t /\ loggers[n] = i /\ m \in Names
    BY <1>2a, <1>a, TableStep DEF level_of_expired, loggerVars, Mutex, TypeOK
  <2>3. Live(i) /\ logger_sinks[i] + (IF use[t] = "sink" /\ n \in todo[t] THEN 1 ELSE 0) = sinks
    BY <1>b, <2>2
  <2>4. m # n
    BY <1>a, <2>1, <2>2, <2>3, CleanedFacts
  <2>5. n \in todo'[t] <=> n \in todo[t]
    BY <2>1, <2>4 DEF TypeOK
  <2> QED
    BY <1>f, <2>2, <2>3, <2>5
<1>3. CASE Release(t)
  <2>1. /\ loggers[n] = i
        /\ UNCHANGED <<mu, sinks, logger_sinks, use, todo>>
        /\ \A u \in Threads : pc'[u] \in {"loop", "set_level", "removing"} => pc'[u] = pc[u]
    BY <1>3 DEF Release, tableVars, loggerVars, TypeOK
  <2> QED
    BY <1>b, <2>1
<1>4. CASE EndLoop(t)
  <2>1. /\ loggers[n] = i /\ pc[t] \in {"loop", "set_level"} /\ todo[t] = {} /\ mu' = "free"
        /\ UNCHANGED <<sinks, logger_sinks>>
    BY <1>4 DEF EndLoop, tableVars, loggerVars
  <2>2. logger_sinks[i] = sinks
    BY <1>a, <1>b, <2>1
  <2> QED
    BY <1>g, <2>1, <2>2
<1>5. ASSUME NEW m \in Names, make_logger(t, m)
      PROVE  Count(sinks', logger_sinks'[i], mu', pc', use', todo', n)
  <2>1. /\ mu' = "free" /\ mu = "free"
        /\ sinks' = sinks
        /\ created' = created + 1
        /\ logger_sinks' = [logger_sinks EXCEPT ![created'] = sinks]
        /\ loggers' = [Cleaned EXCEPT ![m] = created']
    BY <1>5 DEF make_logger, Enter, InitialSinks
  <2>2. CASE n = m
    BY <1>a, <1>g, <2>1, <2>2, CleanedFacts DEF TypeOK
  <2>3. CASE n # m
    <3>1. loggers[n] = i
      BY <1>a, <2>1, <2>3, CleanedFacts
    <3>2. i # created'
      BY <1>a, <2>1, <3>1 DEF Numbered
    <3>3. logger_sinks'[i] = sinks
      BY <1>b, <2>1, <3>1, <3>2 DEF TypeOK
    <3> QED
      BY <1>g, <2>1, <3>3
  <2> QED
    BY <2>2, <2>3
<1>6. CASE keep_other(t)
  <2>1. /\ loggers[n] = i /\ mu = "free" /\ mu' = t /\ pc'[t] = "removing"
        /\ UNCHANGED <<sinks, logger_sinks>>
    BY <1>6 DEF keep_other, tableVars, loggerVars, TypeOK
  <2>2. logger_sinks[i] = sinks
    BY <1>b, <2>1
  <2> QED
    BY <1>f, <2>1, <2>2
<1>7. CASE remove_logger(t) \/ EndRemove(t)
  <2>1. /\ loggers[n] = i
        /\ mu' = "free"
        /\ mu = "free" \/ pc[t] = "removing"
        /\ UNCHANGED <<sinks, logger_sinks>>
    BY <1>a, <1>7 DEF remove_logger, EndRemove, tableVars, loggerVars, TypeOK
  <2>2. logger_sinks[i] = sinks
    BY <1>b, <2>1
  <2> QED
    BY <1>g, <2>1, <2>2
<1>8. CASE shutdown(t)
  BY <1>a, <1>8 DEF shutdown
<1>9. ASSUME NEW j \in Loggers, Drop(t, j)
      PROVE  Count(sinks', logger_sinks'[i], mu', pc', use', todo', n)
  <2>1. /\ loggers[n] = i
        /\ UNCHANGED <<mu, sinks, logger_sinks, use, todo>>
        /\ \A u \in Threads : pc'[u] \in {"loop", "set_level", "removing"} => pc'[u] = pc[u]
    BY <1>9 DEF Drop, tableVars, loggerVars, TypeOK
  <2> QED
    BY <1>b, <2>1
<1>10. ASSUME UNCHANGED <<mu, sinks, logger_sinks, pc, use, todo>>, ~make_logger(t, n)
       PROVE  Count(sinks', logger_sinks'[i], mu', pc', use', todo', n)
  BY <1>b, <1>c, <1>10
<1> QED
  BY <1>1, <1>2, <1>2a, <1>3, <1>4, <1>5, <1>6, <1>7, <1>8, <1>9, <1>10
     DEF Step, set_pending_level, find_logger, Share, tableVars, loggerVars, threadVars

(* A level waits only where there is no logger in use.                      *)
LEMMA PendingStep ==
    ASSUME TypeOK, TypeOK', Mutex, Numbered, PendingAwaitsLogger, NEW t \in Threads, Step(t)
    PROVE  PendingAwaitsLogger'
<1> SUFFICES ASSUME NEW n \in Names, NEW i \in Loggers, loggers'[n] = i, Live(i)'
             PROVE  pending_levels'[n] = "none"
  <2>1. \A n \in Names : loggers'[n] # 0 => loggers'[n] \in Loggers
    BY DEF TypeOK
  <2>2. \A n \in Names : loggers'[n] # 0 /\ Live(loggers[n])' => pending_levels'[n] = "none"
    BY <2>1 DEF Live
  <2> QED
    BY <2>2 DEF PendingAwaitsLogger
<1>a. created \in Nat /\ i # 0
  BY LoggerNumbers DEF TypeOK
<1>b. ASSUME loggers[n] = i
      PROVE  Live(i) /\ pending_levels[n] = "none" /\ Cleaned[n] = i
  <2>1. i \in 1..created
    BY <1>a, <1>b DEF Numbered, Loggers
  <2>2. Live(i)
    BY <2>1, LiveStep
  <2> QED
    BY <1>a, <1>b, <2>2, CleanedFacts DEF PendingAwaitsLogger
<1>c. loggers[n] = i \/ make_logger(t, n)
  BY <1>a, TableStep
<1>1. CASE pending_levels' = pending_levels /\ ~make_logger(t, n)
  BY <1>b, <1>c, <1>1
<1>2. ASSUME NEW m \in Names, NEW l \in Levels, set_pending_level(t, m, l)
      PROVE  pending_levels'[n] = "none"
  <2>1. loggers'[n] = Cleaned[n] /\ Cleaned[m] = 0
    BY <1>2, CleanedFacts DEF set_pending_level
  <2>2. n # m /\ loggers[n] = i
    BY <1>a, <2>1, CleanedFacts
  <2> QED
    BY <1>b, <1>2, <2>2 DEF set_pending_level, TypeOK
<1>2a. CASE level_of_expired(t)
  <2>1. PICK m \in todo[t] : Locked(m) = 0 /\ pending_levels' = [pending_levels EXCEPT ![m] = use[t]]
    BY <1>2a DEF level_of_expired
  <2>2. loggers[n] = i /\ m \in Names
    BY <1>2a DEF level_of_expired, TypeOK
  <2>3. n # m
    BY <1>a, <1>b, <2>1, <2>2, CleanedFacts
  <2> QED
    BY <1>b, <2>1, <2>2, <2>3 DEF TypeOK
<1>3. ASSUME NEW m \in Names, make_logger(t, m)
      PROVE  pending_levels'[n] = "none"
  <2>1. CASE n = m
    BY <1>3, <2>1 DEF make_logger, PendingTaken, TypeOK
  <2>2. CASE n # m
    <3>1. loggers'[n] = Cleaned[n]
      BY <1>3, <2>2, CleanedFacts DEF make_logger
    <3>2. loggers[n] = i
      BY <1>a, <3>1, CleanedFacts
    <3> QED
      BY <1>b, <1>3, <2>2, <3>2 DEF make_logger, PendingTaken, TypeOK
  <2> QED
    BY <2>1, <2>2
<1>4. CASE shutdown(t)
  BY <1>4 DEF shutdown
<1> QED
  BY <1>1, <1>2, <1>2a, <1>3, <1>4
     DEF Step, BeginLoop, Loop, Visit, Release, EndLoop, find_logger, Share, Drop,
         remove_logger, keep_other, EndRemove, tableVars

----------------------------------------------------------------------------
(* The invariant holds at first ...                                         *)
LEMMA InvInit == Init => Inv
<1> SUFFICES ASSUME Init
             PROVE  Inv
  OBVIOUS
<1> USE DEF Init
<1>1. TypeOK
  <2>1. PICK n \in Names : name = [i \in Loggers |-> n]
    <3>1. (CHOOSE n \in Names : TRUE) \in Names
      OBVIOUS
    <3> QED
      BY <3>1
  <2>2. name \in [Loggers -> Names]
    BY <2>1
  <2>3. /\ mu \in Threads \cup {"free"} /\ shutting_down \in BOOLEAN
        /\ default_level \in Levels
        /\ sinks \in 0..MaxSinks /\ created \in 0..MaxLoggers
        /\ deleted \subseteq Loggers /\ forgotten \subseteq Loggers
    <3>1. /\ mu = "free" /\ shutting_down = FALSE /\ default_level = DefaultLevel
          /\ sinks = 0 /\ created = 0 /\ deleted = {} /\ forgotten = {}
      OBVIOUS
    <3> HIDE DEF Init
    <3>2. 0 \in 0..MaxSinks /\ 0 \in 0..MaxLoggers
      OBVIOUS
    <3> QED
      BY <3>1, <3>2, Zenon
  <2>4. /\ loggers \in [Names -> Loggers \cup {0}]
        /\ pending_levels \in [Names -> Levels \cup {"none"}]
        /\ level \in [Loggers -> Levels]
        /\ logger_sinks \in [Loggers -> 0..MaxSinks]
    OBVIOUS
  <2>5. /\ held \in [Threads -> SUBSET Loggers]
        /\ temp \in [Threads -> Loggers \cup {0}]
        /\ pc \in [Threads -> PCs]
        /\ todo \in [Threads -> SUBSET Names]
        /\ use \in [Threads -> Uses]
        /\ victim \in [Threads -> Loggers \cup {0}]
    BY DEF PCs, Uses
  <2> HIDE DEF Init
  <2> QED
    BY <2>2, <2>3, <2>4, <2>5 DEF TypeOK
<1>2. Mutex /\ Numbered /\ UnderItsName /\ VictimsDead
  BY DEF Mutex, Numbered, UnderItsName, VictimsDead
<1>3. LiveIsRegistered /\ NoDanglingEntry /\ SinkCount /\ PendingAwaitsLogger
  BY DEF LiveIsRegistered, NoDanglingEntry, SinkCount, PendingAwaitsLogger
<1> QED
  BY <1>1, <1>2, <1>3 DEF Inv

(* ... and every step keeps it.                                             *)
LEMMA InvNext == Inv /\ [Next]_vars => Inv'
<1> SUFFICES ASSUME Inv, [Next]_vars
             PROVE  Inv'
  OBVIOUS
<1>1. ASSUME NEW t \in Threads, Step(t)
      PROVE  Inv'
  <2>1. TypeOK' /\ Mutex'
    BY <1>1, TypeStep, MutexStep DEF Inv
  <2>2. Numbered'
    BY <1>1, NumberedStep DEF Inv
  <2> QED
    BY <1>1, <2>1, <2>2, UnderItsNameStep, VictimsDeadStep, LiveIsRegisteredStep,
       NoDanglingEntryStep, SinkCountStep, PendingStep DEF Inv
<1>2. CASE UNCHANGED vars
  BY <1>2 DEF Inv, vars, tableVars, loggerVars, threadVars, TypeOK, Mutex, Numbered,
     UnderItsName, VictimsDead, LiveIsRegistered, NoDanglingEntry, SinkCount,
     PendingAwaitsLogger, Live
<1> QED
  BY <1>1, <1>2, StepCases DEF Inv

(* The invariant of the manager's table, mutex and deleters.                *)
THEOREM Invariance == Spec => []Inv
  BY InvInit, InvNext, PTL DEF Spec

(* Type correctness: in particular no logger ever has more sinks than the   *)
(* manager can have, so that add_sink attaches a sink once.                 *)
THEOREM TypeCorrect == Spec => []TypeOK
<1>1. Inv => TypeOK
  BY DEF Inv
<1> QED
  BY <1>1, Invariance, PTL

(* A logger in use is found under its name, whatever deleters run late.     *)
THEOREM LiveLoggersRegistered == Spec => []LiveIsRegistered
<1>1. Inv => LiveIsRegistered
  BY DEF Inv
<1> QED
  BY <1>1, Invariance, PTL

(* No entry of the table outlives the deleter of its logger.                *)
THEOREM NoEntryDangles == Spec => []NoDanglingEntry
<1>1. Inv => NoDanglingEntry
  BY DEF Inv
<1> QED
  BY <1>1, Invariance, PTL

(* Whenever the mutex is free all loggers in use have all sinks.            *)
THEOREM AllShareTheSinks == Spec => []SinksShared
<1>1. Inv => SinksShared
  BY DEF Inv, SinkCount, SinksShared
<1> QED
  BY <1>1, Invariance, PTL

(* No level waits beside a logger in use.                                   *)
THEOREM PendingLevelsAwait == Spec => []PendingAwaitsLogger
<1>1. Inv => PendingAwaitsLogger
  BY DEF Inv
<1> QED
  BY <1>1, Invariance, PTL
=============================================================================
