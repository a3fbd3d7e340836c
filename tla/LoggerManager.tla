--------------------------- MODULE LoggerManager ----------------------------
(***************************************************************************)
(* LoggerManager: a table of weak pointers to the loggers its callers      *)
(* hold.  A logger is destroyed by whoever drops its last reference, and   *)
(* its deleter takes the mutex of the manager to remove the entry.  The    *)
(* manager itself holds references for the moment it uses a logger, while  *)
(* it holds that mutex.  References are counted without it, so a caller    *)
(* can drop one at any time.                                               *)
(*                                                                         *)
(* Loggers are numbered in the order of creation; 0 is an empty entry.  A  *)
(* sink list only ever grows at its end, so its length stands for it.      *)
(***************************************************************************)
EXTENDS Naturals

CONSTANTS
    Threads,            \* callers of the manager
    Names,              \* names of loggers
    Levels,             \* log levels
    DefaultLevel,       \* default_level of a LoggerConfig
    MaxLoggers,         \* bound: loggers created
    MaxSinks            \* bound: sinks the manager has at a time

ASSUME LoggerAssumption ==
    /\ MaxLoggers \in Nat
    /\ MaxSinks \in Nat
    /\ DefaultLevel \in Levels
    /\ Names # {}
    /\ "free" \notin Threads
    /\ {"none", "sink"} \cap Levels = {}

Loggers == 1..MaxLoggers

VARIABLES
    mu,                 \* holder of st.mu
    shutting_down,      \* st.shutting_down
    default_level,      \* st.config.default_level
    sinks,              \* number of st.sinks
    loggers,            \* st.loggers, by name
    pending_levels,     \* st.pending_levels, by name
    created,            \* loggers created so far
    name,               \* name of each logger
    level,              \* its level
    logger_sinks,       \* number of its sinks
    deleted,            \* loggers whose deleter has returned
    held,               \* references each thread holds
    temp,               \* the reference a thread holds inside the manager
    pc,                 \* program counter of each thread
    todo,               \* names a loop over st.loggers still has to visit
    use,                \* what that loop does with a logger
    victim,             \* the logger whose deleter a thread runs
    forgotten           \* loggers that were in use at a shutdown

tableVars == <<shutting_down, default_level, sinks, loggers, pending_levels>>
loggerVars == <<created, name, level, logger_sinks>>
threadVars == <<pc, todo, use, victim>>
vars == <<mu, tableVars, loggerVars, deleted, held, temp, threadVars, forgotten>>

PCs == {"idle", "loop", "set_level", "deleting", "removing", "deadlocked"}

Uses == {"sink", "none"} \cup Levels

Live(i) == \E t \in Threads : i \in held[t] \/ temp[t] = i

(* Are there references to logger i besides the one thread t holds itself,  *)
(* or besides the one it holds inside the manager?                          *)
UsedBesides(t, i) == \E u \in Threads : (u # t /\ i \in held[u]) \/ temp[u] = i
UsedBesidesTemp(t, i) == \E u \in Threads : i \in held[u] \/ (u # t /\ temp[u] = i)

(* st.loggers after cleanup_expired_locked.                                 *)
Cleaned == [n \in Names |-> IF loggers[n] # 0 /\ Live(loggers[n]) THEN loggers[n] ELSE 0]

(* The entry of a name, if its logger can still be locked.                  *)
Locked(n) == Cleaned[n]

Init ==
    /\ mu = "free"
    /\ shutting_down = FALSE
    /\ default_level = DefaultLevel
    /\ sinks = 0
    /\ loggers = [n \in Names |-> 0]
    /\ pending_levels = [n \in Names |-> "none"]
    /\ created = 0
    /\ name = [i \in Loggers |-> CHOOSE n \in Names : TRUE]
    /\ level = [i \in Loggers |-> DefaultLevel]
    /\ logger_sinks = [i \in Loggers |-> 0]
    /\ deleted = {}
    /\ held = [t \in Threads |-> {}]
    /\ temp = [t \in Threads |-> 0]
    /\ pc = [t \in Threads |-> "idle"]
    /\ todo = [t \in Threads |-> {}]
    /\ use = [t \in Threads |-> "none"]
    /\ victim = [t \in Threads |-> 0]
    /\ forgotten = {}

----------------------------------------------------------------------------
Enter(t) == pc[t] = "idle" /\ mu = "free"

(* The table is cleaned and the entries ns are visited to apply u to each   *)
(* logger; mu is held until that ends.                                      *)
Loop(t, p, ns, u) ==
    /\ mu' = t
    /\ pc' = [pc EXCEPT ![t] = p]
    /\ todo' = [todo EXCEPT ![t] = ns]
    /\ use' = [use EXCEPT ![t] = u]
    /\ loggers' = Cleaned
    /\ UNCHANGED <<pending_levels, loggerVars, deleted, held, temp, victim, forgotten>>

Entries == {n \in Names : Cleaned[n] # 0}

init(t, l) ==
    /\ Enter(t)
    /\ default_level' = l
    /\ shutting_down' = FALSE
    /\ Loop(t, "loop", Entries, l)
    /\ UNCHANGED sinks

add_sink(t) ==
    /\ Enter(t)
    /\ ~shutting_down
    /\ sinks < MaxSinks
    /\ sinks' = sinks + 1
    /\ Loop(t, "loop", Entries, "sink")
    /\ UNCHANGED <<shutting_down, default_level>>

list_loggers(t) ==
    /\ Enter(t)
    /\ Loop(t, "loop", Entries, "none")
    /\ UNCHANGED <<shutting_down, default_level, sinks>>

(* set_level of a name whose entry cleanup_expired_locked leaves, ...       *)
set_level(t, n, l) ==
    /\ Enter(t)
    /\ ~shutting_down
    /\ Locked(n) # 0
    /\ Loop(t, "set_level", {n}, l)
    /\ UNCHANGED <<shutting_down, default_level, sinks>>

(* ... and of a name without an entry: the level waits for its logger.      *)
set_pending_level(t, n, l) ==
    /\ Enter(t)
    /\ ~shutting_down
    /\ Locked(n) = 0
    /\ pending_levels' = [pending_levels EXCEPT ![n] = l]
    /\ loggers' = Cleaned
    /\ UNCHANGED <<mu, shutting_down, default_level, sinks, loggerVars, deleted, held,
                   temp, threadVars, forgotten>>

(* Faulty variant: the sink is attached twice.                              *)
WithSinkTwice(k) == k + 2

WithSink(k) == k + 1

(* One turn of a loop, or the body of set_level: lock the weak pointer and  *)
(* use the logger.                                                          *)
Visit(t) ==
    /\ pc[t] \in {"loop", "set_level"}
    /\ temp[t] = 0
    /\ \E n \in todo[t] :
          LET i == Locked(n)
          IN  /\ pc[t] = "set_level" => i # 0
              /\ todo' = [todo EXCEPT ![t] = @ \ {n}]
              /\ temp' = [temp EXCEPT ![t] = i]
              /\ level' = IF i # 0 /\ use[t] \in Levels
                          THEN [level EXCEPT ![i] = use[t]] ELSE level
              /\ logger_sinks' = IF i # 0 /\ use[t] = "sink"
                                 THEN [logger_sinks EXCEPT ![i] = WithSink(@)]
                                 ELSE logger_sinks
    /\ UNCHANGED <<mu, tableVars, created, name, deleted, held, pc, use, victim, forgotten>>

(* The logger died after set_level cleaned the table: the weak pointer does *)
(* not lock, and the level waits beside the expired entry.                  *)
level_of_expired(t) ==
    /\ pc[t] = "set_level"
    /\ \E n \in todo[t] :
          /\ Locked(n) = 0
          /\ pending_levels' = [pending_levels EXCEPT ![n] = use[t]]
          /\ todo' = [todo EXCEPT ![t] = @ \ {n}]
    /\ UNCHANGED <<mu, shutting_down, default_level, sinks, loggers, loggerVars, deleted,
                   held, temp, pc, use, victim, forgotten>>

(* The reference goes out of scope.  If it was the last one, the deleter    *)
(* runs here and waits for the mutex this thread holds.                     *)
Release(t) ==
    /\ temp[t] # 0
    /\ pc[t] # "deadlocked"
    /\ temp' = [temp EXCEPT ![t] = 0]
    /\ pc' = [pc EXCEPT ![t] = IF UsedBesidesTemp(t, temp[t]) THEN @ ELSE "deadlocked"]
    /\ UNCHANGED <<mu, tableVars, loggerVars, deleted, held, todo, use, victim, forgotten>>

EndLoop(t) ==
    /\ pc[t] \in {"loop", "set_level"}
    /\ todo[t] = {}
    /\ temp[t] = 0
    /\ mu' = "free"
    /\ pc' = [pc EXCEPT ![t] = "idle"]
    /\ use' = [use EXCEPT ![t] = "none"]
    /\ UNCHANGED <<tableVars, loggerVars, deleted, held, temp, todo, victim, forgotten>>

----------------------------------------------------------------------------
(* logger, when make_logger_locked finds the logger, ...                    *)
find_logger(t, n) ==
    /\ Enter(t)
    /\ ~shutting_down
    /\ Locked(n) # 0
    /\ loggers' = Cleaned
    /\ held' = [held EXCEPT ![t] = @ \cup {Locked(n)}]
    /\ UNCHANGED <<mu, shutting_down, default_level, sinks, pending_levels, loggerVars,
                   deleted, temp, threadVars, forgotten>>

(* Faulty variant: a new logger starts without the sinks there are.         *)
NoSinks == 0

InitialSinks == sinks

InitialLevel(n) == IF pending_levels[n] = "none" THEN default_level ELSE pending_levels[n]

(* Faulty variant: the level is applied and stays pending.                  *)
PendingKept(n) == pending_levels

PendingTaken(n) == [pending_levels EXCEPT ![n] = "none"]

(* ... and when it makes one.                                               *)
make_logger(t, n) ==
    /\ Enter(t)
    /\ ~shutting_down
    /\ Locked(n) = 0
    /\ created < MaxLoggers
    /\ created' = created + 1
    /\ name' = [name EXCEPT ![created'] = n]
    /\ level' = [level EXCEPT ![created'] = InitialLevel(n)]
    /\ logger_sinks' = [logger_sinks EXCEPT ![created'] = InitialSinks]
    /\ pending_levels' = PendingTaken(n)
    /\ loggers' = [Cleaned EXCEPT ![n] = created']
    /\ held' = [held EXCEPT ![t] = @ \cup {created'}]
    /\ UNCHANGED <<mu, shutting_down, default_level, sinks, deleted, temp,
                   threadVars, forgotten>>

(* A thread gets a reference from another one.                              *)
Share(t, u, i) ==
    /\ pc[t] = "idle" /\ pc[u] = "idle"
    /\ i \in held[t] \ held[u]
    /\ held' = [held EXCEPT ![u] = @ \cup {i}]
    /\ UNCHANGED <<mu, tableVars, loggerVars, deleted, temp, threadVars, forgotten>>

(* A thread drops a reference; with the last one it runs the deleter.       *)
Drop(t, i) ==
    /\ pc[t] = "idle"
    /\ i \in held[t]
    /\ held' = [held EXCEPT ![t] = @ \ {i}]
    /\ \/ /\ UsedBesides(t, i)
          /\ UNCHANGED <<pc, victim>>
       \/ /\ ~UsedBesides(t, i)
          /\ pc' = [pc EXCEPT ![t] = "deleting"]
          /\ victim' = [victim EXCEPT ![t] = i]
    /\ UNCHANGED <<mu, tableVars, loggerVars, deleted, temp, todo, use, forgotten>>

(* Faulty variant: the entry is removed without a look at what it holds.    *)
NeverOther(t) == FALSE

(* Faulty variant: only an entry that still locks to the logger is removed. *)
OtherOrExpired(t) == Locked(name[victim[t]]) # victim[t]

(* The name has been given to another logger that is in use.                *)
HoldsOther(t) == Locked(name[victim[t]]) \notin {0, victim[t]}

(* remove_logger_internal removes the entry, ...                            *)
remove_logger(t) ==
    /\ pc[t] = "deleting"
    /\ mu = "free"
    /\ ~HoldsOther(t)
    /\ loggers' = [loggers EXCEPT ![name[victim[t]]] = 0]
    /\ deleted' = deleted \cup {victim[t]}
    /\ victim' = [victim EXCEPT ![t] = 0]
    /\ pc' = [pc EXCEPT ![t] = "idle"]
    /\ UNCHANGED <<mu, shutting_down, default_level, sinks, pending_levels, loggerVars,
                   held, temp, todo, use, forgotten>>

(* ... or leaves it, holding a reference to the other logger for a moment.  *)
keep_other(t) ==
    /\ pc[t] = "deleting"
    /\ mu = "free"
    /\ HoldsOther(t)
    /\ mu' = t
    /\ temp' = [temp EXCEPT ![t] = Locked(name[victim[t]])]
    /\ pc' = [pc EXCEPT ![t] = "removing"]
    /\ UNCHANGED <<tableVars, loggerVars, deleted, held, todo, use, victim, forgotten>>

EndRemove(t) ==
    /\ pc[t] = "removing"
    /\ temp[t] = 0
    /\ mu' = "free"
    /\ deleted' = deleted \cup {victim[t]}
    /\ victim' = [victim EXCEPT ![t] = 0]
    /\ pc' = [pc EXCEPT ![t] = "idle"]
    /\ UNCHANGED <<tableVars, loggerVars, held, temp, todo, use, forgotten>>

shutdown(t) ==
    /\ Enter(t)
    /\ loggers' = [n \in Names |-> 0]
    /\ pending_levels' = [n \in Names |-> "none"]
    /\ sinks' = 0
    /\ shutting_down' = TRUE
    /\ default_level' = DefaultLevel
    /\ forgotten' = {i \in Loggers : i <= created /\ Live(i)}
    /\ UNCHANGED <<mu, loggerVars, deleted, held, temp, threadVars>>

----------------------------------------------------------------------------
Next ==
    \E t \in Threads :
        \/ \E l \in Levels : init(t, l)
        \/ add_sink(t)
        \/ list_loggers(t)
        \/ \E n \in Names, l \in Levels : set_level(t, n, l)
        \/ \E n \in Names, l \in Levels : set_pending_level(t, n, l)
        \/ Visit(t)
        \/ level_of_expired(t)
        \/ Release(t)
        \/ EndLoop(t)
        \/ \E n \in Names : find_logger(t, n)
        \/ \E n \in Names : make_logger(t, n)
        \/ \E u \in Threads, i \in Loggers : Share(t, u, i)
        \/ \E i \in Loggers : Drop(t, i)
        \/ remove_logger(t)
        \/ keep_other(t)
        \/ EndRemove(t)
        \/ shutdown(t)

Spec == Init /\ [][Next]_vars
----------------------------------------------------------------------------
(* Types; a logger never has more sinks than the manager can.               *)
TypeOK ==
    /\ mu \in Threads \cup {"free"}
    /\ shutting_down \in BOOLEAN
    /\ default_level \in Levels
    /\ sinks \in 0..MaxSinks
    /\ loggers \in [Names -> Loggers \cup {0}]
    /\ pending_levels \in [Names -> Levels \cup {"none"}]
    /\ created \in 0..MaxLoggers
    /\ name \in [Loggers -> Names]
    /\ level \in [Loggers -> Levels]
    /\ logger_sinks \in [Loggers -> 0..MaxSinks]
    /\ deleted \subseteq Loggers
    /\ held \in [Threads -> SUBSET Loggers]
    /\ temp \in [Threads -> Loggers \cup {0}]
    /\ pc \in [Threads -> PCs]
    /\ todo \in [Threads -> SUBSET Names]
    /\ use \in [Threads -> Uses]
    /\ victim \in [Threads -> Loggers \cup {0}]
    /\ forgotten \subseteq Loggers

(* A logger in use is in the table under its name, also when the deleter of *)
(* an earlier logger of that name, dropped before it was made, runs late.   *)
(* So a name never has two loggers at a time, except over a shutdown.       *)
LiveIsRegistered ==
    \A i \in 1..created : Live(i) /\ i \notin forgotten => loggers[name[i]] = i

(* No entry outlives the deleter of its logger.                             *)
NoDanglingEntry == \A n \in Names : loggers[n] \notin deleted

(* All loggers in use share the sinks of the manager, whenever they were    *)
(* made and whenever the sinks were added.                                  *)
SinksShared ==
    mu = "free" =>
        \A n \in Names : loggers[n] # 0 /\ Live(loggers[n]) => logger_sinks[loggers[n]] = sinks

(* A level waits only for a logger that is still to be made, also when      *)
(* set_level finds the entry of a logger that dies before it is locked; one *)
(* that waited beside a logger in use would set the level of a later one.   *)
PendingAwaitsLogger ==
    \A n \in Names : pending_levels[n] # "none" => loggers[n] = 0 \/ ~Live(loggers[n])

(* LogManager.README.md: safe to operate on in a multithreaded environment. *)
NoSelfDeadlock == \A t \in Threads : pc[t] # "deadlocked"
=============================================================================
