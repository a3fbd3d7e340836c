------------------------ MODULE AuthorizationProofs -------------------------
(***************************************************************************)
(* Theorems about Authorization and the AuthClient it extends, for any     *)
(* number of calls and any licences.                                       *)
(***************************************************************************)
EXTENDS Authorization, TLAPS

ClientType ==
    /\ client_running \in BOOLEAN
    /\ active_reactor \in 0..MaxCalls
    /\ reconnect_needed \in BOOLEAN
    /\ reconnect_attempts \in 0..1
    /\ loop \in LoopPCs
    /\ calls \in 0..MaxCalls
    /\ finished \in [Calls -> BOOLEAN]
    /\ call \in [Calls -> CallStates]
    /\ reaction \in [Calls -> ReactionPCs]
    /\ stopping \in StopPCs
    /\ missed_stop \in BOOLEAN
    /\ overrun \in BOOLEAN

ManagerType ==
    /\ mode \in States
    /\ auth_state \in States
    /\ file \in Licences \cup {{}}
    /\ licence \in [Calls -> Licences \cup {{}}]
    /\ verdict \in [Threads -> States \cup {"none"}]
    /\ last_event \in States \cup {"none"}
    /\ subscribed \in BOOLEAN
    /\ features_on \in BOOLEAN
    /\ main \in MainPCs
    /\ initial_event \in States \cup {"none"}
    /\ stale_start \in BOOLEAN
    /\ crossed \in BOOLEAN

(* OnDone of call c has been called.                                        *)
Over(c) == call[c] \in {"ended", "broken"}

(* What the pointer, a call and its reactions know of each other.           *)
Reactors ==
    /\ active_reactor = IF loop \in {"created", "starting", "waiting", "unset"}
                        THEN calls ELSE 0
    /\ loop = "none" => calls = 0
    /\ loop \in {"created", "starting", "waiting", "unset", "settling", "delay"} => calls > 0
    /\ \A c \in Calls :
          /\ c > calls <=> call[c] = "none"
          /\ reaction[c] = "none" <=> call[c] \in {"none", "new", "doomed"}
          /\ reaction[c] \in DonePCs \cup {"done"} <=> Over(c)
          /\ call[c] \in {"new", "doomed"} <=> c = calls /\ loop \in {"created", "starting"}
          /\ call[c] = "cancelled" => finished[c]

Attempts ==
    /\ reconnect_attempts = IF loop = "delay" THEN 1 ELSE 0
    /\ loop = "turn" => calls < MaxCalls

(* As long as no OnDone has outlasted the delay, the earlier calls are over *)
(* and finished_ and reconnect_needed_ are, while the client runs, only set *)
(* by the OnDone of the current call.                                       *)
Running ==
    /\ client_running =>
          /\ loop \notin {"none", "exited"}
          /\ stopping \in {"idle", "flag"}
          /\ ~missed_stop
    /\ ~overrun =>
          /\ \A c \in Calls : c < calls => reaction[c] = "done"
          /\ loop \in {"top", "turn"} /\ calls > 0 => reaction[calls] = "done"
          /\ loop = "delay" => Over(calls)
          /\ client_running =>
                /\ loop = "waiting" /\ finished[calls] => Over(calls)
                /\ loop \in {"starting", "waiting"} /\ reconnect_needed => Over(calls)
                /\ loop \in {"unset", "settling"} => Over(calls)

(* Stop in progress, and after it.                                          *)
Stopping ==
    /\ stopping \in {"reactor", "notify", "join"} => ~client_running
    /\ stopping = "reactor" \/ loop = "none" => ~missed_stop
    /\ ~client_running /\ stopping \in {"idle", "flag"} => loop \in {"none", "exited"}

(* Once Stop has dealt with the reactor, its call is not open or its reads  *)
(* are ignored, unless Stop has missed the call.                            *)
Misses ==
    ~client_running /\ stopping # "reactor" /\ ~missed_stop =>
        /\ loop \in {"created", "starting"} => call[calls] = "doomed"
        /\ loop \in {"waiting", "unset", "settling", "delay"} =>
              finished[calls] \/ call[calls] # "open"

(* main starts the client once, before all else, and calls Stop only while  *)
(* it waits for it.                                                         *)
Startup ==
    /\ main = "start" => loop = "none"
    /\ main \notin {"stopping", "destroying"} => stopping = "idle"

ClientInv ==
    /\ ClientType
    /\ Reactors
    /\ Attempts
    /\ Running
    /\ Stopping
    /\ Misses

(* Is thread p inside UpdateAuthState.                                      *)
Updating(p) ==
    \/ p = Main /\ main \in {"main_exchange", "main_publish"}
    \/ /\ p \in Calls
       /\ reaction[p] \in {"message_exchange", "message_publish", "done_exchange",
                           "done_publish"}

(* One thread at a time publishes what it has made the state, unless two    *)
(* have crossed; then the last event is what the last of them has published.*)
Published ==
    ~crossed =>
        \/ Publishing = {} /\ (last_event # "none" => last_event = auth_state)
        \/ \E p \in Threads : Publishing = {p} /\ verdict[p] = auth_state

Features ==
    /\ main \in {"last_event", "apply", "running"} => subscribed
    /\ main = "running" /\ ~stale_start /\ last_event # "none" =>
          (features_on <=> last_event = "online")

ManagerInv ==
    /\ ManagerType
    /\ \A p \in Threads : Updating(p) => verdict[p] # "none"
    /\ Published
    /\ Features

Inv ==
    /\ ClientInv
    /\ Startup
    /\ ManagerInv

----------------------------------------------------------------------------
USE AuthClientAssumption, AuthorizationAssumption

(* A callback of call c goes on, or OnReadDone returns from it.             *)
CallbackMoves(c) ==
    /\ \E r \in ReactionPCs :
          /\ reaction' = [reaction EXCEPT ![c] = r]
          /\ \/ reaction[c] \in MessagePCs
                /\ r \in (MessagePCs \ {"persist"}) \cup {"idle", "reading"}
             \/ reaction[c] \in DonePCs /\ r \in DonePCs
    /\ UNCHANGED <<client_running, active_reactor, reconnect_needed, loopVars, finished,
                   call, stopping, missed_stop, overrun>>

(* What a step does to the client, other than to start it or to call Stop.  *)
ReactionMoves(c) ==
    \/ CallEnds(c)
    \/ \E f \in BOOLEAN : OnReadDone(c, f)
    \/ ReadFails(c)
    \/ OnDone(c)
    \/ NotifyReconnect(c)
    \/ CallbackMoves(c)

ClientMoves ==
    \/ UNCHANGED clientVars
    \/ LoopStep
    \/ StopStep
    \/ \E c \in Calls : ReactionMoves(c)

(* The steps of main that leave the client alone.                           *)
MainMoves ==
    \/ StartOffline
    \/ CheckAuthorization
    \/ CheckOfflineAuthorization
    \/ MainExchange
    \/ MainPublish
    \/ Subscribe
    \/ LastEvent
    \/ ApplyLastEvent
    \/ Unsubscribe
    \/ StopManager /\ mode # "online"
    \/ ClientStopped

(* Callbacks that leave all of the client but their program counter alone.  *)
ManagerMoves(c) ==
    \/ PersistMessage(c)
    \/ WriteFile(c)
    \/ HandleMessage(c)
    \/ MessageExchange(c)
    \/ MessagePublish(c)
    \/ DoneExchange(c)
    \/ DonePublish(c)
    \/ DoneMode(c)

(* The end of OnReadDone.                                                   *)
LEMMA NextReadsFact ==
    ASSUME NEW c
    PROVE  NextReads(c) \subseteq {"idle", "reading"}
  BY DEF NextReads

(* A callback of the manager moves on within its reaction.                  *)
LEMMA ManagerMovesFact ==
    ASSUME NEW c \in Calls, ManagerMoves(c)
    PROVE  CallbackMoves(c) /\ main' = main
<1> DEFINE Goto(from, to) == InReaction(c, from, to)
<1>1. ASSUME NEW from \in MessagePCs,
             NEW to \in (MessagePCs \ {"persist"}) \cup {"idle", "reading"}, Goto(from, to)
      PROVE  CallbackMoves(c) /\ main' = main
  <2>1. to \in ReactionPCs
    BY DEF ReactionPCs
  <2> QED
    BY <1>1, <2>1 DEF InReaction, ReactionGoto, CallbackMoves, mainVars
<1>2. ASSUME NEW from \in DonePCs, NEW to \in DonePCs, Goto(from, to)
      PROVE  CallbackMoves(c) /\ main' = main
  <2>1. to \in ReactionPCs
    BY DEF ReactionPCs
  <2> QED
    BY <1>2, <2>1 DEF InReaction, ReactionGoto, CallbackMoves, mainVars
<1>3. CASE PersistMessage(c) \/ WriteFile(c) \/ HandleMessage(c)
  <2>1. \E from \in MessagePCs, to \in (MessagePCs \ {"persist"}) \cup {"idle", "reading"} :
           Goto(from, to)
    BY <1>3, NextReadsFact DEF PersistMessage, WriteFile, HandleMessage, MessagePCs
  <2> QED
    BY <1>1, <2>1
<1>4. CASE MessageExchange(c) \/ MessagePublish(c)
  <2>1. \E from \in MessagePCs, to \in (MessagePCs \ {"persist"}) \cup {"idle", "reading"} :
           Goto(from, to)
    BY <1>4, NextReadsFact DEF MessageExchange, MessagePublish, MessagePCs
  <2> QED
    BY <1>1, <2>1
<1>5. CASE DoneExchange(c) \/ DonePublish(c) \/ DoneMode(c)
  <2>1. \E from \in DonePCs, to \in DonePCs : Goto(from, to)
    BY <1>5 DEF DoneExchange, DonePublish, DoneMode, DonePCs
  <2> QED
    BY <1>2, <2>1
<1> QED
  BY <1>3, <1>4, <1>5 DEF ManagerMoves

(* Every step, as main and the client see it.                               *)
LEMMA ClientCases ==
    ASSUME Startup, [Next]_vars
    PROVE  \/ StartOnline /\ ClientStart /\ loop = "none" /\ stopping = "idle"
           \/ (StopManager \/ DestroyManager) /\ StopClient /\ stopping = "idle"
           \/ MainMoves /\ UNCHANGED clientVars
           \/ ClientMoves /\ main' = main
<1>2. ASSUME StartOnline
      PROVE  ClientStart /\ loop = "none" /\ stopping = "idle"
  BY <1>2 DEF StartOnline, MainGoto, Startup
<1>3. ASSUME MainMoves
      PROVE  UNCHANGED clientVars
  BY <1>3 DEF MainMoves, StartOffline, CheckAuthorization, CheckOfflineAuthorization,
              MainExchange, MainPublish, Subscribe, LastEvent, ApplyLastEvent, Unsubscribe,
              StopManager, ClientStopped
<1>4. ASSUME StopManager \/ DestroyManager
      PROVE  stopping = "idle" /\ (StopClient \/ (StopManager /\ mode # "online"))
  <2>1. stopping = "idle"
    BY <1>4 DEF StopManager, DestroyManager, MainGoto, Startup
  <2>2. StopManager => StopClient \/ mode # "online"
    BY DEF StopManager
  <2>3. DestroyManager => StopClient
    BY DEF DestroyManager
  <2> QED
    BY <1>4, <2>1, <2>2, <2>3
<1>5. ASSUME NEW c \in Calls, CloseStream(c) \/ FinishDone(c)
      PROVE  ReactionMoves(c) /\ main' = main
  BY <1>5 DEF CloseStream, FinishDone, ReactionMoves, mainVars
<1>6. ASSUME NEW c \in Calls, NEW lic \in Licences, ReceiveLicence(c, lic)
      PROVE  ReactionMoves(c) /\ main' = main
  BY <1>6 DEF ReceiveLicence, ReactionMoves, mainVars
<1>7. ASSUME NEW c \in Calls, ManagerMoves(c)
      PROVE  ReactionMoves(c) /\ main' = main
  BY <1>7, ManagerMovesFact DEF ReactionMoves
<1>8. ASSUME ClientOnly \/ Terminated \/ UNCHANGED vars
      PROVE  main' = main
  BY <1>8 DEF ClientOnly, Terminated, vars, mainVars
<1>9. ASSUME Terminated \/ UNCHANGED vars
      PROVE  UNCHANGED clientVars
  BY <1>9 DEF Terminated, vars
<1>10. ASSUME NEW c \in Calls, CallbackStep(c)
       PROVE  ReactionMoves(c) /\ main' = main
  BY <1>5, <1>7, <1>8, <1>10 DEF CallbackStep, ManagerMoves, ReactionMoves
<1>11. ASSUME NEW c \in Calls, CallEnds(c), ClientOnly
       PROVE  ReactionMoves(c) /\ main' = main
  BY <1>8, <1>11 DEF ReactionMoves
<1>12. ASSUME MainStep \/ Unsubscribe
       PROVE  \/ StartOnline \/ MainMoves \/ StopManager \/ DestroyManager
              \/ StopStep /\ ClientOnly
  BY <1>12 DEF MainStep, MainMoves
<1>13. CASE MainStep \/ Unsubscribe
  <2>1. CASE StartOnline
    BY <1>2, <2>1
  <2>2. CASE MainMoves
    BY <1>3, <2>2
  <2>3. CASE StopManager \/ DestroyManager
    <3>1. CASE StopManager /\ mode # "online"
      BY <1>3, <3>1 DEF MainMoves
    <3> QED
      BY <1>4, <2>3, <3>1
  <2>4. CASE StopStep /\ ClientOnly
    BY <1>8, <2>4 DEF ClientMoves
  <2> QED
    BY <1>12, <1>13, <2>1, <2>2, <2>3, <2>4
<1>14. CASE LoopStep /\ ClientOnly
  BY <1>8, <1>14 DEF ClientMoves
<1>15. ASSUME NEW c \in Calls,
              \/ CallbackStep(c)
              \/ main # "exited" /\ \E lic \in Licences : ReceiveLicence(c, lic)
              \/ main # "exited" /\ CallEnds(c) /\ ClientOnly
       PROVE  ClientMoves /\ main' = main
  BY <1>6, <1>10, <1>11, <1>15 DEF ClientMoves
<1>16. CASE Terminated \/ UNCHANGED vars
  BY <1>8, <1>9, <1>16 DEF ClientMoves
<1> QED
  BY <1>13, <1>14, <1>15, <1>16 DEF Next

----------------------------------------------------------------------------
(* What StreamLoop, Stop and the reactions do to the client.                *)
LEMMA LoopClientInv ==
    ASSUME ClientInv, LoopStep
    PROVE  ClientInv'
<1> USE DEF ClientInv, ClientType, Reactors, Attempts, Running, Stopping, Misses, Over,
            LoopPCs, CallStates, ReactionPCs, MessagePCs, DonePCs, StopPCs, loopVars,
            callVars, Calls
<1>1. CASE EnterTurn
  BY <1>1 DEF EnterTurn
<1>2. CASE CreateReactor
  <2>0. missed_stop' = (stopping \in {"notify", "join"})
    BY <1>2 DEF CreateReactor
  <2>1. /\ calls' = calls + 1 /\ calls < MaxCalls /\ calls' \in Calls
        /\ active_reactor' = calls'
        /\ finished' = [finished EXCEPT ![calls'] = FALSE]
        /\ call' = [call EXCEPT ![calls'] = "new"]
        /\ loop = "turn" /\ loop' = "created"
        /\ UNCHANGED <<client_running, reconnect_needed, reconnect_attempts, reaction,
                       stopping, overrun>>
    BY <1>2 DEF CreateReactor
  <2>2. ClientType' /\ Attempts'
    BY <2>0, <2>1
  <2>3. Reactors'
    BY <2>0, <2>1
  <2>4. Running' /\ Stopping'
    BY <2>0, <2>1
  <2>5. Misses'
    BY <2>0, <2>1
  <2> QED
    BY <2>2, <2>3, <2>4, <2>5
<1>3. CASE ClearReconnect
  BY <1>3 DEF ClearReconnect, ReconnectCleared
<1>4. CASE StartReactor
  <2>1. /\ loop = "starting" /\ loop' = "waiting" /\ calls \in Calls
        /\ finished' = [finished EXCEPT ![calls] = FALSE]
        /\ call' = [call EXCEPT ![calls] = IF @ = "doomed" THEN "failed" ELSE "open"]
        /\ reaction' = [reaction EXCEPT ![calls] = "reading"]
        /\ UNCHANGED <<client_running, active_reactor, reconnect_needed,
                       reconnect_attempts, calls, stopping, missed_stop, overrun>>
    BY <1>4 DEF StartReactor
  <2>2. ClientType' /\ Attempts'
    BY <2>1
  <2>3. Reactors'
    BY <2>1
  <2>4. Running' /\ Stopping'
    BY <2>1
  <2>5. Misses'
    BY <2>1
  <2> QED
    BY <2>2, <2>3, <2>4, <2>5
<1>5. CASE LeaveWait
  BY <1>5 DEF LeaveWait, WaitOver
<1>6. CASE StopForReconnect
  <2>0. loop = "waiting" /\ calls \in Calls /\ call[calls] # "new"
    BY <1>6 DEF StopForReconnect
  <2>1. /\ loop' = "unset"
        /\ client_running /\ reconnect_needed /\ reconnect_needed' = FALSE
        /\ finished' = [finished EXCEPT ![calls] = TRUE]
        /\ call' = Cancelled(calls)
        /\ UNCHANGED <<client_running, active_reactor, reaction, reconnect_attempts, calls,
                       stopping, missed_stop, overrun>>
    BY <1>6 DEF StopForReconnect
  <2>1a. /\ call' \in [Calls -> CallStates]
         /\ call'[calls] = IF call[calls] = "open" THEN "cancelled" ELSE call[calls]
         /\ \A c \in Calls : c # calls => call'[c] = call[c]
    BY <2>0, <2>1 DEF Cancelled
  <2>2. ClientType' /\ Attempts'
    BY <2>0, <2>1, <2>1a
  <2>3. Reactors'
    BY <2>0, <2>1, <2>1a
  <2>4. Running' /\ Stopping' /\ Misses'
    BY <2>0, <2>1, <2>1a
  <2> QED
    BY <2>2, <2>3, <2>4
<1>7. CASE UnsetActive
  BY <1>7 DEF UnsetActive, UnsetReactor
<1>8. CASE Settle
  BY <1>8 DEF Settle
<1>9. CASE LeaveLoop
  BY <1>9 DEF LeaveLoop
<1>10. CASE Reconnect
  <2>0. overrun' = (overrun \/ reaction[calls] \in DonePCs)
    BY <1>10 DEF Reconnect
  <2>1. /\ loop = "delay" /\ loop' = "top" /\ reconnect_attempts' = 0 /\ calls \in Calls
        /\ UNCHANGED <<client_running, active_reactor, reconnect_needed, calls, finished,
                       call, reaction, stopping, missed_stop>>
    BY <1>10 DEF Reconnect, AttemptsReset
  <2>2. ClientType' /\ Attempts' /\ Reactors' /\ Stopping' /\ Misses'
    BY <2>0, <2>1
  <2>3. Running'
    BY <2>0, <2>1
  <2> QED
    BY <2>2, <2>3
<1> QED
  BY <1>1, <1>2, <1>3, <1>4, <1>5, <1>6, <1>7, <1>8, <1>9, <1>10 DEF LoopStep

(* A step of Stop keeps the client's invariant.                             *)
LEMMA StopClientInv ==
    ASSUME ClientInv, StopStep
    PROVE  ClientInv'
<1> USE DEF ClientInv, ClientType, Reactors, Attempts, Running, Stopping, Misses, Over,
            LoopPCs, CallStates, ReactionPCs, MessagePCs, DonePCs, StopPCs, loopVars,
            callVars, Calls
<1>1. CASE StopAgain
  BY <1>1 DEF StopAgain
<1>2. CASE StopFlag
  BY <1>2 DEF StopFlag
<1>3. CASE StopReactor /\ active_reactor # 0
  <2>0. /\ active_reactor = calls /\ calls \in Calls
        /\ loop \in {"created", "starting", "waiting", "unset"}
    BY <1>3
  <2>1. /\ finished' = [finished EXCEPT ![calls] = TRUE]
        /\ call' = Cancelled(calls)
        /\ stopping = "reactor" /\ stopping' = "notify"
        /\ UNCHANGED <<client_running, active_reactor, reconnect_needed, loop, calls,
                       reconnect_attempts, reaction, missed_stop, overrun>>
    BY <1>3, <2>0 DEF StopReactor, FinishedByStop
  <2>1a. /\ call' \in [Calls -> CallStates]
         /\ call[calls] = "new" => call'[calls] = "doomed"
         /\ call[calls] = "open" => call'[calls] = "cancelled"
         /\ call[calls] \notin {"new", "open"} => call'[calls] = call[calls]
         /\ \A c \in Calls : c # calls => call'[c] = call[c]
    BY <2>0, <2>1 DEF Cancelled
  <2>2. ClientType' /\ Attempts'
    BY <2>0, <2>1, <2>1a
  <2>3. Reactors'
    BY <2>0, <2>1, <2>1a
  <2>4. Running' /\ Stopping'
    BY <2>0, <2>1, <2>1a
  <2>5. Misses'
    BY <2>0, <2>1, <2>1a
  <2> QED
    BY <2>2, <2>3, <2>4, <2>5
<1>4. CASE StopReactor /\ active_reactor = 0
  <2>0. missed_stop' = (\E c \in Calls : call[c] = "open")
    BY <1>4 DEF StopReactor
  <2>1. /\ stopping = "reactor" /\ stopping' = "notify"
        /\ UNCHANGED <<client_running, active_reactor, reconnect_needed, loop, calls,
                       reconnect_attempts, finished, call, reaction, overrun>>
    BY <1>4 DEF StopReactor
  <2>2. missed_stop' \in BOOLEAN
    BY <2>0
  <2>3. ClientType' /\ Attempts' /\ Reactors'
    BY <2>1, <2>2
  <2>4. Running' /\ Stopping'
    <3>1. loop = "none" => ~missed_stop'
      BY <2>0
    <3> QED
      BY <2>1, <2>2, <3>1
  <2>5. Misses'
    BY <1>4, <2>0, <2>1
  <2> QED
    BY <2>3, <2>4, <2>5
<1>5. CASE StopNotify
  BY <1>5 DEF StopNotify
<1>6. CASE StopJoin
  BY <1>6 DEF StopJoin
<1> QED
  BY <1>1, <1>2, <1>3, <1>4, <1>5, <1>6 DEF StopStep

(* So does a reaction of a call, and what the manager does in it.           *)
LEMMA ReactionClientInv ==
    ASSUME ClientInv, NEW c \in Calls, ReactionMoves(c)
    PROVE  ClientInv'
<1> USE DEF ClientInv, ClientType, Reactors, Attempts, Running, Stopping, Misses, Over,
            LoopPCs, CallStates, ReactionPCs, MessagePCs, DonePCs, StopPCs, loopVars,
            Calls
<1>1. CASE CallEnds(c)
  BY <1>1 DEF CallEnds
<1>2. ASSUME NEW f \in BOOLEAN, OnReadDone(c, f)
      PROVE  ClientInv'
  BY <1>2 DEF OnReadDone, ReactionGoto
<1>3. CASE ReadFails(c)
  BY <1>3 DEF ReadFails, ReactionGoto
<1>4. CASE OnDone(c)
  BY <1>4 DEF OnDone, ReactionGoto
<1>5. CASE CallbackMoves(c)
  BY <1>5 DEF CallbackMoves
<1>6. CASE NotifyReconnect(c)
  BY <1>6 DEF NotifyReconnect, ReactionGoto
<1> QED
  BY <1>1, <1>2, <1>3, <1>4, <1>5, <1>6 DEF ReactionMoves

(* Hence every step does.                                                   *)
LEMMA ClientInvStep ==
    ASSUME ClientInv, Startup, [Next]_vars
    PROVE  ClientInv'
<1> USE DEF ClientInv, ClientType, Reactors, Attempts, Running, Stopping, Misses, Over,
            LoopPCs, CallStates, ReactionPCs, MessagePCs, DonePCs, StopPCs, loopVars,
            callVars, Calls
<1>1. CASE UNCHANGED clientVars
  BY <1>1 DEF clientVars
<1>2. CASE ClientStart /\ loop = "none" /\ stopping = "idle"
  BY <1>2 DEF ClientStart
<1>3. CASE StopClient /\ stopping = "idle"
  BY <1>3 DEF StopClient
<1> QED
  BY <1>1, <1>2, <1>3, LoopClientInv, StopClientInv, ReactionClientInv, ClientCases
     DEF ClientMoves

----------------------------------------------------------------------------
(* The manager, the bus and main.                                           *)

UpdatePCs == {"message_exchange", "message_publish", "done_exchange", "done_publish"}

(* The reactions of a call are a thread, and main is another.               *)
LEMMA ThreadFacts ==
    /\ Main \in Threads /\ Main \notin Calls
    /\ Calls \subseteq Threads
    /\ \A p \in Threads : p = Main \/ p \in Calls
  BY DEF Main, Threads, Calls

(* Who is about to publish, after a step of main or of a reaction.          *)
LEMMA PublishingAfterMain ==
    ASSUME reaction' = reaction
    PROVE  /\ main' = "main_publish" => Publishing' = Publishing \cup {Main}
           /\ main' # "main_publish" => Publishing' = Publishing \ {Main}
  BY ThreadFacts DEF Publishing

(* The same for a reaction.                                                 *)
LEMMA PublishingAfterReaction ==
    ASSUME main' = main, NEW c \in Calls,
           \A d \in Calls : d # c => reaction'[d] = reaction[d]
    PROVE  /\ reaction'[c] \in {"message_publish", "done_publish"} =>
                 Publishing' = Publishing \cup {c}
           /\ reaction'[c] \notin {"message_publish", "done_publish"} =>
                 Publishing' = Publishing \ {c}
<1>1. c \in Threads /\ c # Main
  BY ThreadFacts
<1> QED
  BY <1>1 DEF Publishing

(* A step that leaves the state, the events and UpdateAuthState alone.      *)
LEMMA QuietStep ==
    ASSUME ManagerInv,
           UNCHANGED <<auth_state, verdict, last_event, subscribed, features_on, stale_start,
                       main, crossed>>,
           \A c \in Calls : \/ reaction'[c] = reaction[c]
                            \/ reaction[c] \notin UpdatePCs /\ reaction'[c] \notin UpdatePCs
    PROVE  /\ \A p \in Threads : Updating(p)' => verdict'[p] # "none"
           /\ Published'
           /\ Features'
<1>1. \A c \in Calls : /\ reaction'[c] \in UpdatePCs <=> reaction[c] \in UpdatePCs
                       /\ reaction'[c] \in {"message_publish", "done_publish"}
                            <=> reaction[c] \in {"message_publish", "done_publish"}
  BY DEF UpdatePCs
<1>2. Publishing' = Publishing
  BY <1>1 DEF Publishing
<1>3. Published' /\ Features'
  BY <1>2 DEF ManagerInv, Published, Features
<1>4. \A p \in Threads : Updating(p)' => Updating(p)
  BY <1>1 DEF Updating, UpdatePCs
<1> QED
  BY <1>3, <1>4 DEF ManagerInv

(* The exchange of UpdateAuthState.                                         *)
LEMMA ExchangeStep ==
    ASSUME ManagerInv, NEW p \in Threads, Exchange(p), p \notin Publishing,
           Publishing' = IF Changes(p) THEN Publishing \cup {p} ELSE Publishing
    PROVE  Published'
<1>1. crossed' = (crossed \/ (Changes(p) /\ Publishing # {}))
  BY DEF Exchange
<1>2. CASE ~Changes(p)
  <2>1. /\ auth_state' = auth_state /\ last_event' = last_event /\ Publishing' = Publishing
        /\ \A q \in Publishing : verdict'[q] = verdict[q]
        /\ crossed' => crossed
    BY <1>1, <1>2 DEF Exchange, Changes, busVars, ManagerInv, ManagerType, Publishing
  <2>2. CASE Publishing = {} /\ (last_event # "none" => last_event = auth_state)
    BY <2>1, <2>2 DEF Published
  <2>3. CASE \E q \in Threads : Publishing = {q} /\ verdict[q] = auth_state
    <3>1. PICK q \in Threads : Publishing = {q} /\ verdict[q] = auth_state
      BY <2>3
    <3>2. Publishing' = {q} /\ verdict'[q] = auth_state'
      BY <2>1, <3>1
    <3> QED
      BY <3>2 DEF Published
  <2>4. CASE crossed'
    BY <2>4 DEF Published
  <2>5. ~crossed' => ~crossed
    BY <1>1
  <2> QED
    BY <2>2, <2>3, <2>4, <2>5 DEF ManagerInv, Published
<1>3. CASE Changes(p) /\ ~crossed'
  <2>1. Publishing = {}
    BY <1>1, <1>3
  <2>2. Publishing' = {p} /\ auth_state' = verdict[p] /\ verdict' = verdict
    BY <1>3, <2>1 DEF Exchange
  <2> QED
    BY <2>2 DEF Published
<1> QED
  BY <1>2, <1>3 DEF Published

(* Publish.                                                                 *)
LEMMA PublishStep ==
    ASSUME ManagerInv, NEW p \in Threads, Publish(p), p \in Publishing,
           Publishing' = Publishing \ {p}
    PROVE  Published'
<1>1. /\ last_event' = verdict[p]
      /\ UNCHANGED <<auth_state, crossed>>
  BY DEF Publish
<1>2. CASE ~crossed
  <2>1. Publishing = {p} /\ verdict[p] = auth_state
    BY <1>2 DEF ManagerInv, Published
  <2> QED
    BY <1>1, <2>1 DEF Published
<1> QED
  BY <1>1, <1>2 DEF Published

(* The features after Publish.                                              *)
LEMMA PublishFeatures ==
    ASSUME ManagerInv, NEW p \in Threads, Publish(p), main' = "running" => main = "running",
           main' \in {"last_event", "apply", "running"}
               => main \in {"last_event", "apply", "running"}
    PROVE  Features' /\ features_on' \in BOOLEAN
<1>1. /\ last_event' = verdict[p]
      /\ subscribed' = subscribed
      /\ subscribed => features_on' = (verdict[p] = "online")
      /\ ~subscribed => features_on' = features_on
  BY DEF Publish
<1>2. features_on' \in BOOLEAN
  BY <1>1 DEF ManagerInv, ManagerType
<1>3. main' \in {"last_event", "apply", "running"} => subscribed
  BY DEF ManagerInv, Features
<1>4. main' = "running" => (features_on' <=> last_event' = "online")
  BY <1>1, <1>3
<1> QED
  BY <1>1, <1>2, <1>3, <1>4 DEF Features

(* The verdicts of the threads that still are inside UpdateAuthState.       *)
LEMMA VerdictStep ==
    ASSUME ManagerInv, NEW p \in Threads, Updating(p), ~Updating(p)' \/ verdict' = verdict,
           Exchange(p) \/ Publish(p),
           \A q \in Threads : q # p /\ Updating(q)' => Updating(q)
    PROVE  /\ \A q \in Threads : Updating(q)' => verdict'[q] # "none"
           /\ verdict' \in [Threads -> States \cup {"none"}]
           /\ verdict[p] \in States
<1>1. verdict[p] \in States /\ verdict[p] # "none"
  BY DEF ManagerInv, ManagerType
<1>2. verdict' = verdict \/ verdict' = [verdict EXCEPT ![p] = "none"]
  BY DEF Exchange, Publish
<1>3. verdict' \in [Threads -> States \cup {"none"}]
  BY <1>2 DEF ManagerInv, ManagerType
<1>4. \A q \in Threads : q # p => verdict'[q] = verdict[q]
  BY <1>2 DEF ManagerInv, ManagerType
<1>5. Updating(p)' => verdict'[p] # "none"
  BY <1>1
<1>6. \A q \in Threads : q # p /\ Updating(q)' => verdict'[q] # "none"
  BY <1>4 DEF ManagerInv
<1> QED
  BY <1>1, <1>3, <1>5, <1>6

(* What the steps of main do to the manager.                                *)
LEMMA MainManagerInv ==
    ASSUME ClientInv, ManagerInv, StartOnline \/ MainMoves \/ StopManager \/ DestroyManager
    PROVE  ManagerInv'
<1>t. ClientType /\ ManagerType
  BY DEF ClientInv, ManagerInv
<1>s. {"online", "offline"} \subseteq States /\ \A lic : Verdict(lic) \in {"online", "offline"}
  BY DEF States, Verdict
<1>r. reaction' = reaction
  BY DEF MainMoves, StartOnline, StartOffline, CheckAuthorization, CheckOfflineAuthorization,
         MainExchange, MainPublish, Subscribe, LastEvent, ApplyLastEvent, Unsubscribe,
         StopManager, DestroyManager, ClientStopped, ClientStart, StopClient, clientVars,
         callVars
<1>p. \A p \in Threads : p # Main => (Updating(p)' <=> Updating(p))
  BY <1>r DEF Updating
<1>1. CASE \/ StartOnline \/ StartOffline \/ CheckAuthorization \/ StopManager
           \/ DestroyManager \/ ClientStopped
  <2>1. /\ UNCHANGED <<auth_state, file, licence, verdict, last_event, subscribed,
                       features_on, stale_start, initial_event, crossed>>
        /\ mode' \in {mode, "online"}
        /\ main' \in {"check", "check_file", "subscribe", "stopping", "destroy",
                      "destroying", "exited"}
        /\ main # "main_publish"
    BY <1>1 DEF StartOnline, StartOffline, CheckAuthorization, StopManager, DestroyManager,
                ClientStopped, MainGoto, managerVars, busVars
  <2>2. Publishing' = Publishing
    <3>1. Main \notin Publishing
      BY <2>1, ThreadFacts DEF Publishing
    <3> QED
      BY <1>r, <2>1, <3>1, PublishingAfterMain
  <2>3. ~Updating(Main)'
    BY <2>1, ThreadFacts DEF Updating
  <2>4. ManagerType'
    BY <1>s, <1>t, <2>1 DEF ManagerType, MainPCs
  <2>5. Published' /\ Features'
    BY <2>1, <2>2 DEF ManagerInv, Published, Features
  <2> QED
    BY <1>p, <2>1, <2>3, <2>4, <2>5 DEF ManagerInv
<1>2. CASE CheckOfflineAuthorization
  <2>1. /\ UNCHANGED <<mode, auth_state, file, licence, last_event, subscribed, features_on,
                       stale_start, initial_event, crossed>>
        /\ verdict' = [verdict EXCEPT ![Main] = OfflineVerdict]
        /\ main = "check_file" /\ main' = "main_exchange"
    BY <1>2 DEF CheckOfflineAuthorization, MainGoto, busVars
  <2>2. OfflineVerdict \in States /\ OfflineVerdict # "none"
    BY <1>s DEF OfflineVerdict
  <2>3. Publishing' = Publishing /\ Main \notin Publishing
    <3>1. Main \notin Publishing
      BY <2>1, ThreadFacts DEF Publishing
    <3> QED
      BY <1>r, <2>1, <3>1, PublishingAfterMain
  <2>4. /\ verdict' \in [Threads -> States \cup {"none"}]
        /\ verdict'[Main] # "none"
        /\ \A p \in Threads : p # Main => verdict'[p] = verdict[p]
    BY <1>t, <2>1, <2>2, ThreadFacts DEF ManagerType
  <2>5. ManagerType'
    BY <1>t, <2>1, <2>4 DEF ManagerType, MainPCs
  <2>6. Published' /\ Features'
    BY <2>1, <2>3, <2>4 DEF ManagerInv, Published, Features
  <2> QED
    BY <1>p, <2>4, <2>5, <2>6 DEF ManagerInv
<1>3. CASE MainExchange
  <2>1. /\ Exchange(Main)
        /\ main = "main_exchange"
        /\ main' = IF Changes(Main) THEN "main_publish" ELSE "subscribe"
        /\ initial_event' = initial_event
    BY <1>3 DEF MainExchange, MainGoto
  <2>2. /\ auth_state' = verdict[Main]
        /\ UNCHANGED <<mode, file, licence, last_event, subscribed, features_on, stale_start>>
        /\ crossed' \in BOOLEAN
    <3>1. crossed' = (crossed \/ (Changes(Main) /\ Publishing # {}))
      BY <2>1 DEF Exchange
    <3>2. crossed' \in BOOLEAN
      BY <3>1
    <3> QED
      BY <2>1, <3>2 DEF Exchange, busVars
  <2>3. Updating(Main) /\ (~Updating(Main)' \/ verdict' = verdict)
    BY <2>1, ThreadFacts DEF Updating, Exchange
  <2>4. /\ \A q \in Threads : Updating(q)' => verdict'[q] # "none"
        /\ verdict' \in [Threads -> States \cup {"none"}]
        /\ verdict[Main] \in States
    BY <1>p, <2>1, <2>3, ThreadFacts, VerdictStep
  <2>5. ManagerType'
    BY <1>t, <2>1, <2>2, <2>4 DEF ManagerType, MainPCs
  <2>6. Published'
    <3>1. Main \notin Publishing
      BY <2>1, ThreadFacts DEF Publishing
    <3>2. Publishing' = IF Changes(Main) THEN Publishing \cup {Main} ELSE Publishing
      BY <1>r, <2>1, <3>1, PublishingAfterMain
    <3> QED
      BY <2>1, <3>1, <3>2, ThreadFacts, ExchangeStep
  <2>7. Features'
    BY <2>1, <2>2 DEF Features
  <2> QED
    BY <2>4, <2>5, <2>6, <2>7 DEF ManagerInv
<1>4. CASE MainPublish
  <2>1. /\ Publish(Main)
        /\ main = "main_publish" /\ main' = "subscribe"
        /\ initial_event' = initial_event
    BY <1>4 DEF MainPublish, MainGoto
  <2>2. Updating(Main) /\ ~Updating(Main)'
    BY <2>1, ThreadFacts DEF Updating
  <2>3. /\ \A q \in Threads : Updating(q)' => verdict'[q] # "none"
        /\ verdict' \in [Threads -> States \cup {"none"}]
        /\ verdict[Main] \in States
    BY <1>p, <2>1, <2>2, ThreadFacts, VerdictStep
  <2>4. Features' /\ features_on' \in BOOLEAN
    BY <2>1, ThreadFacts, PublishFeatures
  <2>5. ManagerType'
    BY <1>t, <2>1, <2>3, <2>4 DEF ManagerType, MainPCs, Publish
  <2>6. Published'
    <3>1. Main \in Publishing /\ Publishing' = Publishing \ {Main}
      BY <1>r, <2>1, ThreadFacts, PublishingAfterMain DEF Publishing
    <3> QED
      BY <2>1, <3>1, ThreadFacts, PublishStep
  <2> QED
    BY <2>3, <2>4, <2>5, <2>6 DEF ManagerInv
<1>5. CASE Subscribe \/ LastEvent \/ Unsubscribe \/ ApplyLastEvent
  <2>1. /\ UNCHANGED <<mode, auth_state, file, licence, verdict, last_event, crossed>>
        /\ main \in {"subscribe", "last_event", "apply", "running"}
        /\ main' \in {"last_event", "apply", "running", "stop_manager"}
    BY <1>5 DEF Subscribe, LastEvent, Unsubscribe, ApplyLastEvent, MainGoto, managerVars,
                busVars
  <2>2. Publishing' = Publishing
    <3>1. Main \notin Publishing
      BY <2>1, ThreadFacts DEF Publishing
    <3> QED
      BY <1>r, <2>1, <3>1, PublishingAfterMain
  <2>3. ~Updating(Main)'
    BY <2>1, ThreadFacts DEF Updating
  <2>4. Published'
    BY <2>1, <2>2 DEF ManagerInv, Published
  <2>5. /\ features_on' \in BOOLEAN /\ subscribed' \in BOOLEAN /\ stale_start' \in BOOLEAN
        /\ initial_event' \in States \cup {"none"}
    <3>1. CASE Subscribe \/ LastEvent \/ Unsubscribe
      BY <1>t, <3>1 DEF Subscribe, LastEvent, Unsubscribe, MainGoto, ManagerType, busVars
    <3>2. CASE ApplyLastEvent
      <4>1. features_on' = InitialFeatures /\ stale_start' = (initial_event # last_event)
        BY <3>2 DEF ApplyLastEvent
      <4>2. features_on' \in BOOLEAN
        BY <1>t, <4>1 DEF InitialFeatures, ManagerType
      <4>3. stale_start' \in BOOLEAN
        BY <4>1
      <4> QED
        BY <1>t, <3>2, <4>2, <4>3 DEF ApplyLastEvent, ManagerType
    <3> QED
      BY <1>5, <3>1, <3>2
  <2>6. ManagerType'
    BY <1>t, <2>1, <2>5 DEF ManagerType, MainPCs
  <2>7. Features'
    <3>1. main' \in {"last_event", "apply", "running"} => subscribed'
      BY <1>5, <2>1 DEF Subscribe, LastEvent, Unsubscribe, ApplyLastEvent, MainGoto,
                        ManagerInv, Features, busVars
    <3>2. main' = "running" => ApplyLastEvent
      BY <1>5 DEF Subscribe, LastEvent, Unsubscribe, MainGoto
    <3>3. ASSUME ApplyLastEvent, ~stale_start', last_event # "none"
          PROVE  features_on' <=> last_event = "online"
      <4>1. initial_event = last_event
        BY <3>3 DEF ApplyLastEvent
      <4> QED
        BY <3>3, <4>1 DEF ApplyLastEvent, InitialFeatures
    <3> QED
      BY <2>1, <3>1, <3>2, <3>3 DEF Features
  <2> QED
    BY <1>p, <2>1, <2>3, <2>4, <2>6, <2>7 DEF ManagerInv
<1> QED
  BY <1>1, <1>2, <1>3, <1>4, <1>5 DEF MainMoves

(* What the callbacks of call c do to it.                                   *)
LEMMA CallbackManagerInv ==
    ASSUME ClientInv, ManagerInv, NEW c \in Calls, ManagerMoves(c)
    PROVE  ManagerInv'
<1>t. ClientType /\ ManagerType /\ c \in Threads /\ c # Main
  BY ThreadFacts DEF ClientInv, ManagerInv
<1>s. {"online", "offline"} \subseteq States /\ \A lic : Verdict(lic) \in {"online", "offline"}
  BY DEF States, Verdict
<1>r. PICK r \in ReactionPCs : reaction' = [reaction EXCEPT ![c] = r]
  BY ManagerMovesFact DEF CallbackMoves
<1>m. main' = main /\ initial_event' = initial_event
  <2>1. ASSUME NEW from, NEW to, InReaction(c, from, to)
        PROVE  main' = main /\ initial_event' = initial_event
    BY <2>1 DEF InReaction, mainVars
  <2> QED
    BY <2>1 DEF ManagerMoves, PersistMessage, WriteFile, HandleMessage, MessageExchange,
                MessagePublish, DoneExchange, DonePublish, DoneMode
<1>q. /\ reaction'[c] = r
      /\ \A d \in Calls : d # c => reaction'[d] = reaction[d]
  BY <1>r, <1>t DEF ClientType
<1>p. \A p \in Threads : p # c => (Updating(p)' <=> Updating(p))
  BY <1>m, <1>q DEF Updating
<1>1. CASE PersistMessage(c) \/ WriteFile(c) \/ DoneMode(c)
  <2>1. /\ UNCHANGED <<auth_state, licence, verdict, last_event, subscribed, features_on,
                       stale_start, crossed>>
        /\ reaction[c] \in {"persist", "write", "done_mode"}
        /\ reaction'[c] \in {"write", "decide", "notify"}
    BY <1>q, <1>r, <1>t, <1>1
       DEF PersistMessage, WriteFile, DoneMode, InReaction, ReactionGoto, busVars, ClientType
  <2>2. file' \in Licences \cup {{}} /\ mode' \in States
    <3>1. LicenceOf(c) \subseteq Licences \cup {{}}
      BY <1>t DEF LicenceOf, ManagerType
    <3>2. ModeAfter(c) \in States
      BY <1>s, <1>t DEF ModeAfter, ManagerType
    <3> QED
      BY <1>t, <1>1, <3>1, <3>2 DEF PersistMessage, WriteFile, DoneMode, ManagerType
  <2>3. ManagerType'
    BY <1>m, <1>t, <2>1, <2>2 DEF ManagerType
  <2>4. /\ \A p \in Threads : Updating(p)' => verdict'[p] # "none"
        /\ Published' /\ Features'
    BY <1>m, <1>q, <2>1, QuietStep DEF UpdatePCs
  <2> QED
    BY <2>3, <2>4 DEF ManagerInv
<1>2. CASE HandleMessage(c) /\ mode # "online"
  <2>1. /\ UNCHANGED <<mode, file, auth_state, verdict, last_event, subscribed, features_on,
                       stale_start, crossed>>
        /\ licence' = [licence EXCEPT ![c] = {}]
        /\ reaction[c] = "decide" /\ reaction'[c] \in {"idle", "reading"}
    BY <1>t, <1>2, NextReadsFact
       DEF HandleMessage, InReaction, ReactionGoto, busVars, ClientType
  <2>2. ManagerType'
    BY <1>m, <1>t, <2>1 DEF ManagerType
  <2>3. /\ \A p \in Threads : Updating(p)' => verdict'[p] # "none"
        /\ Published' /\ Features'
    BY <1>m, <1>q, <2>1, QuietStep DEF UpdatePCs
  <2> QED
    BY <2>2, <2>3 DEF ManagerInv
<1>3. CASE HandleMessage(c) /\ mode = "online"
  <2>1. /\ UNCHANGED <<mode, file, auth_state, last_event, subscribed, features_on,
                       stale_start, crossed>>
        /\ licence' = [licence EXCEPT ![c] = {}]
        /\ \E lic \in LicenceOf(c) : verdict' = [verdict EXCEPT ![c] = Verdict(lic)]
        /\ reaction[c] = "decide" /\ reaction'[c] = "message_exchange"
    BY <1>t, <1>3 DEF HandleMessage, InReaction, ReactionGoto, busVars, ClientType
  <2>2. /\ verdict' \in [Threads -> States \cup {"none"}]
        /\ verdict'[c] # "none"
        /\ \A p \in Threads : p # c => verdict'[p] = verdict[p]
    BY <1>s, <1>t, <2>1 DEF ManagerType
  <2>3. ManagerType'
    BY <1>m, <1>t, <2>1, <2>2 DEF ManagerType
  <2>4. Publishing' = Publishing /\ c \notin Publishing
    <3>1. c \notin Publishing
      BY <1>t, <2>1 DEF Publishing
    <3>2. reaction'[c] \notin {"message_publish", "done_publish"}
      BY <2>1
    <3>3. Publishing' = Publishing \ {c}
      BY <1>m, <1>q, <1>t, <3>2, PublishingAfterReaction
    <3> QED
      BY <3>1, <3>3
  <2>5. Published' /\ Features'
    BY <1>m, <2>1, <2>2, <2>4 DEF ManagerInv, Published, Features
  <2> QED
    BY <1>p, <2>2, <2>3, <2>5 DEF ManagerInv
<1>4. CASE MessageExchange(c) \/ DoneExchange(c)
  <2>1. /\ Exchange(c)
        /\ reaction[c] \in {"message_exchange", "done_exchange"}
        /\ Changes(c) => reaction'[c] \in {"message_publish", "done_publish"}
        /\ ~Changes(c) => reaction'[c] \in {"idle", "reading", "done_mode"}
    BY <1>q, <1>t, <1>4, NextReadsFact
       DEF MessageExchange, DoneExchange, InReaction, ReactionGoto, ClientType
  <2>2. /\ auth_state' = verdict[c]
        /\ UNCHANGED <<mode, file, licence, last_event, subscribed, features_on, stale_start>>
        /\ crossed' \in BOOLEAN
    <3>1. crossed' = (crossed \/ (Changes(c) /\ Publishing # {}))
      BY <2>1 DEF Exchange
    <3>2. crossed' \in BOOLEAN
      BY <3>1
    <3> QED
      BY <2>1, <3>2 DEF Exchange, busVars
  <2>3. Updating(c) /\ (~Updating(c)' \/ verdict' = verdict)
    BY <1>t, <2>1 DEF Updating, Exchange
  <2>4. /\ \A q \in Threads : Updating(q)' => verdict'[q] # "none"
        /\ verdict' \in [Threads -> States \cup {"none"}]
        /\ verdict[c] \in States
    BY <1>p, <1>t, <2>1, <2>3, VerdictStep
  <2>5. ManagerType'
    BY <1>m, <1>t, <2>2, <2>4 DEF ManagerType
  <2>6. Published'
    <3>1. c \notin Publishing
      BY <1>t, <2>1 DEF Publishing
    <3>2. /\ Changes(c) => Publishing' = Publishing \cup {c}
          /\ ~Changes(c) => Publishing' = Publishing \ {c}
      BY <1>m, <1>q, <1>t, <2>1, PublishingAfterReaction
    <3>3. Publishing' = IF Changes(c) THEN Publishing \cup {c} ELSE Publishing
      BY <3>1, <3>2
    <3> QED
      BY <1>m, <1>t, <2>1, <3>1, <3>3, ExchangeStep
  <2>7. Features'
    BY <1>m, <2>2 DEF ManagerInv, Features
  <2> QED
    BY <2>4, <2>5, <2>6, <2>7 DEF ManagerInv
<1>5. CASE MessagePublish(c) \/ DonePublish(c)
  <2>1. /\ Publish(c)
        /\ reaction[c] \in {"message_publish", "done_publish"}
        /\ reaction'[c] \in {"idle", "reading", "done_mode"}
    BY <1>q, <1>t, <1>5, NextReadsFact
       DEF MessagePublish, DonePublish, InReaction, ReactionGoto, ClientType
  <2>2. Updating(c) /\ ~Updating(c)'
    BY <1>t, <2>1 DEF Updating
  <2>3. /\ \A q \in Threads : Updating(q)' => verdict'[q] # "none"
        /\ verdict' \in [Threads -> States \cup {"none"}]
        /\ verdict[c] \in States
    BY <1>p, <1>t, <2>1, <2>2, VerdictStep
  <2>4. Features' /\ features_on' \in BOOLEAN
    BY <1>m, <1>t, <2>1, PublishFeatures
  <2>5. ManagerType'
    BY <1>m, <1>t, <2>1, <2>3, <2>4 DEF ManagerType, Publish
  <2>6. Published'
    <3>1. c \in Publishing /\ Publishing' = Publishing \ {c}
      BY <1>m, <1>q, <1>t, <2>1, PublishingAfterReaction DEF Publishing
    <3> QED
      BY <1>t, <2>1, <3>1, PublishStep
  <2> QED
    BY <2>3, <2>4, <2>5, <2>6 DEF ManagerInv
<1> QED
  BY <1>1, <1>2, <1>3, <1>4, <1>5 DEF ManagerMoves

(* What the other steps of the client do to it.                             *)
LEMMA ClientManagerInv ==
    ASSUME ClientInv, ManagerInv,
           \/ (LoopStep \/ StopStep) /\ ClientOnly
           \/ \E c \in Calls : \/ (CallEnds(c) \/ ReadFails(c)) /\ ClientOnly
                               \/ CloseStream(c)
                               \/ FinishDone(c)
                               \/ \E lic \in Licences : ReceiveLicence(c, lic)
    PROVE  ManagerInv'
<1>t. ClientType /\ ManagerType /\ Reactors
  BY DEF ClientInv, ManagerInv
<1>1. ASSUME ClientOnly \/ \E c \in Calls, lic \in Licences : ReceiveLicence(c, lic),
             \A c \in Calls : \/ reaction'[c] = reaction[c]
                              \/ reaction[c] \notin UpdatePCs /\ reaction'[c] \notin UpdatePCs
      PROVE  ManagerInv'
  <2>1. /\ UNCHANGED <<mode, auth_state, file, verdict, last_event, subscribed, features_on,
                       stale_start, main, initial_event, crossed>>
        /\ licence' \in [Calls -> Licences \cup {{}}]
    BY <1>t, <1>1 DEF ClientOnly, ReceiveLicence, managerVars, busVars, mainVars, ManagerType
  <2>2. ManagerType'
    BY <1>t, <2>1 DEF ManagerType
  <2>3. /\ \A p \in Threads : Updating(p)' => verdict'[p] # "none"
        /\ Published' /\ Features'
    BY <1>1, <2>1, QuietStep
  <2> QED
    BY <2>2, <2>3 DEF ManagerInv
<1>2. ASSUME LoopStep \/ StopStep
      PROVE  \A c \in Calls : \/ reaction'[c] = reaction[c]
                              \/ reaction[c] \notin UpdatePCs /\ reaction'[c] \notin UpdatePCs
  <2>1. CASE StartReactor
    BY <1>t, <2>1 DEF StartReactor, Reactors, ClientType, UpdatePCs, Calls
  <2>2. CASE reaction' = reaction
    BY <2>2
  <2> QED
    BY <1>2, <2>1, <2>2
       DEF LoopStep, EnterTurn, CreateReactor, ClearReconnect, LeaveWait, StopForReconnect,
           UnsetActive, Settle, Reconnect, LeaveLoop, StopStep, StopAgain, StopFlag,
           StopReactor, StopNotify, StopJoin, callVars
<1>3. ASSUME NEW c \in Calls,
             CallEnds(c) \/ ReadFails(c) \/ FinishDone(c)
             \/ \E lic \in Licences : ReceiveLicence(c, lic)
      PROVE  \A d \in Calls : \/ reaction'[d] = reaction[d]
                              \/ reaction[d] \notin UpdatePCs /\ reaction'[d] \notin UpdatePCs
  BY <1>t, <1>3 DEF CallEnds, ReadFails, FinishDone, NotifyReconnect, ReceiveLicence,
                    OnReadDone, ReactionGoto, ClientType, UpdatePCs
<1>4. ASSUME NEW c \in Calls, CloseStream(c)
      PROVE  ManagerInv'
  <2>1. /\ UNCHANGED <<mode, auth_state, file, licence, last_event, subscribed, features_on,
                       stale_start, main, initial_event, crossed>>
        /\ reaction[c] = "idle" /\ reaction' = [reaction EXCEPT ![c] = "done_exchange"]
        /\ \E v \in {"online", "offline"} : verdict' = [verdict EXCEPT ![c] = v]
    BY <1>4 DEF CloseStream, OnDone, ReactionGoto, busVars, mainVars
  <2>2. /\ c \in Threads /\ c # Main
        /\ verdict' \in [Threads -> States \cup {"none"}]
        /\ verdict'[c] # "none"
        /\ \A p \in Threads : p # c => verdict'[p] = verdict[p]
    BY <1>t, <2>1, ThreadFacts DEF ManagerType, States
  <2>3. ManagerType'
    BY <1>t, <2>1, <2>2 DEF ManagerType
  <2>4. Publishing' = Publishing /\ c \notin Publishing
    <3>1. c \notin Publishing
      BY <2>1, <2>2 DEF Publishing
    <3>2. /\ \A d \in Calls : d # c => reaction'[d] = reaction[d]
          /\ reaction'[c] \notin {"message_publish", "done_publish"}
      BY <1>t, <2>1 DEF ClientType
    <3>3. Publishing' = Publishing \ {c}
      BY <2>1, <3>2, PublishingAfterReaction
    <3> QED
      BY <3>1, <3>3
  <2>5. Published' /\ Features'
    BY <2>1, <2>2, <2>4 DEF ManagerInv, Published, Features
  <2>6. \A p \in Threads : p # c => (Updating(p)' <=> Updating(p))
    BY <1>t, <2>1 DEF Updating, ClientType
  <2> QED
    BY <2>2, <2>3, <2>5, <2>6 DEF ManagerInv
<1>5. \A c \in Calls : FinishDone(c) => ClientOnly
  BY DEF FinishDone, ClientOnly
<1> QED
  BY <1>1, <1>2, <1>3, <1>4, <1>5

(* Hence every step keeps the invariant of the manager.                     *)
LEMMA ManagerInvStep ==
    ASSUME ClientInv, ManagerInv, [Next]_vars
    PROVE  ManagerInv'
<1>1. CASE MainStep \/ Unsubscribe
  <2>1. \/ StartOnline \/ MainMoves \/ StopManager \/ DestroyManager
        \/ StopStep /\ ClientOnly
    BY <1>1 DEF MainStep, MainMoves
  <2> QED
    BY <2>1, MainManagerInv, ClientManagerInv
<1>2. ASSUME NEW c \in Calls, CallbackStep(c)
      PROVE  ManagerInv'
  <2>1. \/ ManagerMoves(c) \/ CloseStream(c) \/ FinishDone(c)
        \/ ReadFails(c) /\ ClientOnly
    BY <1>2 DEF CallbackStep, ManagerMoves
  <2> QED
    BY <2>1, CallbackManagerInv, ClientManagerInv
<1>3. CASE Terminated \/ UNCHANGED vars
  BY <1>3 DEF Terminated, vars, clientVars, callVars, managerVars, busVars, mainVars,
              ManagerInv, ManagerType, Published, Publishing, Features, Updating
<1> QED
  BY <1>1, <1>2, <1>3, ClientManagerInv DEF Next

(* main starts the client once and calls Stop only while it waits for it.   *)
LEMMA StartupStep ==
    ASSUME Startup, [Next]_vars
    PROVE  Startup'
<1> USE DEF Startup
<1>1. CASE StartOnline /\ ClientStart
  BY <1>1 DEF StartOnline, MainGoto, ClientStart
<1>2. CASE (StopManager \/ DestroyManager) /\ StopClient
  BY <1>2 DEF StopManager, DestroyManager, MainGoto, StopClient, loopVars, clientVars
<1>3. CASE MainMoves /\ UNCHANGED clientVars
  <2>1. UNCHANGED <<loop, stopping>>
    BY <1>3 DEF clientVars, loopVars
  <2>2. /\ main' # "start"
        /\ main \in {"stopping", "destroying"} => stopping = "idle"
        /\ main' \notin {"stopping", "destroying"}
    BY <1>3 DEF MainMoves, StartOffline, CheckAuthorization, CheckOfflineAuthorization,
                MainExchange, MainPublish, Subscribe, LastEvent, ApplyLastEvent,
                Unsubscribe, StopManager, ClientStopped, MainGoto
  <2> QED
    BY <2>1, <2>2
<1>4. CASE ClientMoves /\ main' = main
  <2>1. /\ loop' = "none" <=> loop = "none"
        /\ stopping = "idle" => stopping' = "idle"
    BY <1>4 DEF ClientMoves, clientVars, loopVars, LoopStep, EnterTurn,
                CreateReactor, ClearReconnect, StartReactor, LeaveWait, StopForReconnect,
                UnsetActive, Settle, LeaveLoop, Reconnect, StopStep, StopAgain, StopFlag,
                StopReactor, StopNotify, StopJoin, ReactionMoves, CallEnds, OnReadDone,
                ReadFails, OnDone, NotifyReconnect, ReactionGoto, CallbackMoves
  <2> QED
    BY <1>4, <2>1
<1> QED
  BY <1>1, <1>2, <1>3, <1>4, ClientCases

(* The invariant holds at first.                                            *)
LEMMA InitInv ==
    ASSUME Init
    PROVE  Inv
<1>1. ClientInv
  <2>1. ClientType
    <3>1. 0 \in 0..MaxCalls /\ 0 \in 0..1
      OBVIOUS
    <3>2. /\ active_reactor = 0 /\ reconnect_attempts = 0 /\ calls = 0
          /\ loop = "none" /\ stopping = "idle"
          /\ client_running = FALSE /\ reconnect_needed = FALSE
          /\ missed_stop = FALSE /\ overrun = FALSE
      BY DEF Init, ClientInit
    <3>3. /\ finished \in [Calls -> BOOLEAN]
          /\ call \in [Calls -> CallStates]
          /\ reaction \in [Calls -> ReactionPCs]
      BY DEF Init, ClientInit, CallStates, ReactionPCs
    <3> QED
      BY <3>1, <3>2, <3>3 DEF ClientType, LoopPCs, StopPCs
  <2>2. Reactors /\ Attempts
    BY DEF Init, ClientInit, Reactors, Attempts, DonePCs, Over, Calls
  <2>3. Running /\ Stopping /\ Misses
    BY DEF Init, ClientInit, Running, Stopping, Misses, Calls
  <2> QED
    BY <2>1, <2>2, <2>3 DEF ClientInv
<1>2. ManagerInv
  <2>1. ManagerType
    BY DEF Init, ManagerType, States, MainPCs
  <2>2. \A p \in Threads : ~Updating(p)
    BY DEF Init, ClientInit, Updating
  <2>3. Publishing = {}
    BY DEF Init, ClientInit, Publishing
  <2>4. Published /\ Features
    BY <2>3 DEF Init, Published, Features
  <2> QED
    BY <2>1, <2>2, <2>4 DEF ManagerInv
<1>3. Startup
  BY DEF Init, ClientInit, Startup
<1> QED
  BY <1>1, <1>2, <1>3 DEF Inv

(* Every behaviour keeps the invariant, however long a callback lasts.      *)
THEOREM Invariance == Spec => []Inv
<1>1. Inv /\ [Next]_vars => Inv'
  BY ClientInvStep, ManagerInvStep, StartupStep DEF Inv
<1> QED
  BY <1>1, InitInv, PTL DEF Spec

(* Types; the attempts are never counted beyond one.                        *)
THEOREM TypeCorrect == Spec => []TypeOK
<1>1. Inv => TypeOK
  BY DEF Inv, ClientInv, ClientType, ManagerInv, ManagerType, TypeOK
<1> QED
  BY <1>1, Invariance, PTL

(* The first reactor that is destroyed before its OnDone has returned, with *)
(* the client running, is one whose OnDone outlasts the reconnect delay:    *)
(* before that, whatever sets finished_ and reconnect_needed_ has come from *)
(* the OnDone of the current call.                                          *)
THEOREM LoopAwaitsOnDone == Spec => []ReactorOutlivesCall
<1>1. Inv => ReactorOutlivesCall
  BY DEF Inv, ClientInv, ClientType, Running, ReactorOutlivesCall, Calls
<1> QED
  BY <1>1, Invariance, PTL

(* active_reactor_ is null or the reactor of the current call, which        *)
(* StreamLoop has not destroyed yet.                                        *)
THEOREM ActiveReactorIsAlive == Spec => []ActiveReactorLives
<1>1. Inv => ActiveReactorLives
  BY DEF Inv, ClientInv, ClientType, Reactors, ActiveReactorLives, Destroyed
<1> QED
  BY <1>1, Invariance, PTL

(* Stop silences the reactor it finds, whatever the loop and the call are   *)
(* doing, for as long as the reactor exists.                                *)
THEOREM StopSilencesTheReactor == Spec => StopSilences
<1> DEFINE Silent == \A c \in Calls :
              reaction[c] = "reading" /\ reaction'[c] = "persist" =>
                  client_running \/ stopping = "reactor" \/ missed_stop \/ Destroyed(c)
<1>1. ASSUME Inv, [Next]_vars
      PROVE  [Silent]_vars
  <2> SUFFICES ASSUME NEW c \in Calls, reaction[c] = "reading", reaction'[c] = "persist",
                      ~client_running, stopping # "reactor", ~missed_stop, ~Destroyed(c)
               PROVE  FALSE
    OBVIOUS
  <2>i. ClientType /\ Startup /\ Reactors /\ Misses
    BY <1>1 DEF Inv, ClientInv
  <2>n. calls \in Nat /\ c \in Nat
    BY <2>i DEF ClientType, Calls
  <2>t. ClientType /\ Startup /\ Reactors /\ Misses /\ calls \in Nat /\ c \in Nat
    BY <2>i, <2>n
  <2>1. \E f \in BOOLEAN : OnReadDone(c, f)
    <3>1. CASE \E d \in Calls : ReactionMoves(d)
      <4>1. PICK d \in Calls : ReactionMoves(d)
        BY <3>1
      <4>2. d = c
        BY <2>t, <4>1 DEF ReactionMoves, CallEnds, OnReadDone, ReadFails, OnDone,
                          NotifyReconnect, CallbackMoves, ReactionGoto, ClientType
      <4>3. ReactionMoves(c)
        BY <4>1, <4>2
      <4> QED
        BY <2>t, <4>3 DEF ReactionMoves, CallEnds, ReadFails, OnDone, NotifyReconnect,
                          CallbackMoves, ReactionGoto, ClientType, MessagePCs, DonePCs
    <3>2. reaction' # reaction
      OBVIOUS
    <3>3. CASE LoopStep \/ StopStep
      <4>1. StartReactor
        BY <3>2, <3>3
           DEF LoopStep, EnterTurn, CreateReactor, ClearReconnect, LeaveWait,
               StopForReconnect, UnsetActive, Settle, Reconnect, LeaveLoop, StopStep,
               StopAgain, StopFlag, StopReactor, StopNotify, StopJoin, callVars
      <4> QED
        BY <2>t, <4>1 DEF StartReactor, ClientType
    <3>4. ~ClientStart /\ ~StopClient /\ ~UNCHANGED clientVars
      BY <3>2 DEF ClientStart, StopClient, clientVars, callVars
    <3>5. ClientMoves
      BY <1>1, <2>t, <3>4, ClientCases
    <3> QED
      BY <3>1, <3>3, <3>4, <3>5 DEF ClientMoves
  <2>2. call[c] \in {"open", "cancelled"} /\ ~finished[c]
    BY <2>1, <2>t DEF OnReadDone, FinishedOf, ReactionGoto, ClientType
  <2>3. call[c] = "open"
    BY <2>2, <2>t DEF Reactors
  <2>4. c = calls /\ loop \notin {"top", "turn", "exited", "none", "created", "starting"}
    BY <2>2, <2>t DEF Reactors, Destroyed, Calls
  <2>5. loop \in {"waiting", "unset", "settling", "delay"}
    BY <2>4, <2>t DEF ClientType, LoopPCs
  <2> QED
    BY <2>2, <2>3, <2>4, <2>5, <2>t DEF Misses
<1>2. StopSilences <=> [][Silent]_vars
  BY DEF StopSilences
<1> QED
  BY <1>1, <1>2, Invariance, PTL DEF Spec

(* The last event published is the authorization state whenever nobody is   *)
(* about to publish and no two threads have crossed, and a running          *)
(* dispatcher has its features on exactly when the last event is online,    *)
(* unless its constructor has applied an old event and none has come since. *)
THEOREM FeaturesFollow == Spec => []FeaturesFollowState
<1>1. Inv => FeaturesFollowState
  BY DEF Inv, ManagerInv, ManagerType, Published, Features, FeaturesFollowState, Quiescent
<1> QED
  BY <1>1, Invariance, PTL
=============================================================================
