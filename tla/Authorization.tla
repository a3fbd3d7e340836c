--------------------------- MODULE Authorization ----------------------------
(***************************************************************************)
(* How the agent learns whether it is authorized: AuthManager with its     *)
(* AuthClient, the event bus, and the dispatcher that subscribes to it, in *)
(* the order in which main starts and stops them.  Two threads change the  *)
(* authorization state: main, which checks the persisted licence, and the  *)
(* reactions of the licence stream, one after the other for a call, but    *)
(* those of two calls may overlap.  What the dispatcher does with a change *)
(* is TaskDispatcher's subject; here it is on or off.                      *)
(***************************************************************************)
EXTENDS AuthClient, Integers

CONSTANTS
    Licences,           \* licences the server may send: sets of assets
    Now                 \* the time at which licences are checked

Assets == [is_expired : BOOLEAN, expire_at : Int, remaining_valid_timestamp : Int]

ASSUME AuthorizationAssumption ==
    /\ Licences \subseteq SUBSET Assets
    /\ Now \in Nat

VARIABLES
    mode,               \* mode_
    auth_state,         \* auth_state_
    file,               \* assets in persistence_file_
    licence,            \* response_: the licence each call is handling
    verdict,            \* the state each thread is about to set, and to publish
    last_event,         \* last_events_[kAuthStateChanged]
    subscribed,         \* has the bus a listener
    features_on,        \* are active_features_ the requested ones
    main,               \* program counter of main
    initial_event,      \* what the constructor got from LastEvent
    stale_start,        \* has it applied an event that was no longer the last
    crossed             \* have two threads been inside UpdateAuthState at once

managerVars == <<mode, auth_state, file, licence, verdict>>
busVars == <<last_event, subscribed, features_on, stale_start>>
mainVars == <<main, initial_event>>
vars == <<clientVars, managerVars, busVars, mainVars, crossed>>

States == {"unknown", "online", "offline"}

(* The thread of main, and by their numbers the reactions of the calls.     *)
Main == 0
Threads == 0..MaxCalls

MainPCs == {"start", "check", "check_file", "main_exchange", "main_publish", "subscribe",
            "last_event", "apply", "running", "stop_manager", "stopping", "destroy",
            "destroying", "exited"}

----------------------------------------------------------------------------
IsAssetValid(asset) ==
    /\ ~asset.is_expired
    /\ asset.expire_at > 0 => Now < asset.expire_at
    /\ asset.remaining_valid_timestamp > 0 \/ asset.expire_at # 0

Verdict(lic) == IF \E asset \in lic : IsAssetValid(asset) THEN "online" ELSE "offline"

(* CheckOfflineAuthorization: a file that is missing, empty or cannot be    *)
(* parsed counts as a licence without assets.                               *)
OfflineVerdict == Verdict(file)

(* The constructor of AuthManager has published kUnknown; "unknown" is also *)
(* the mode when none, or "online", is configured.  Without authorization   *)
(* there is no manager and no event.                                        *)
Init ==
    /\ ClientInit
    /\ auth_state = "unknown"
    /\ file \in Licences \cup {{}}
    /\ licence = [c \in Calls |-> {}]
    /\ verdict = [p \in Threads |-> "none"]
    /\ subscribed = FALSE
    /\ features_on = TRUE
    /\ initial_event = "none"
    /\ stale_start = FALSE
    /\ crossed = FALSE
    /\ \/ mode \in {"unknown", "offline"} /\ last_event = "unknown" /\ main = "start"
       \/ mode = "unknown" /\ last_event = "none" /\ main = "subscribe"

----------------------------------------------------------------------------
(* UpdateAuthState: the exchange, and Publish if the state has changed.     *)

(* Threads between the exchange and Publish.                                *)
Publishing ==
    {p \in Threads : \/ p = Main /\ main = "main_publish"
                     \/ p \in Calls /\ reaction[p] \in {"message_publish", "done_publish"}}

Changes(p) == auth_state # verdict[p]

Exchange(p) ==
    /\ auth_state' = verdict[p]
    /\ verdict' = IF Changes(p) THEN verdict ELSE [verdict EXCEPT ![p] = "none"]
    /\ crossed' = (crossed \/ (Changes(p) /\ Publishing # {}))
    /\ UNCHANGED <<mode, file, licence, busVars>>

(* EventBus::Publish, under its mutex: the listener, then the last event.   *)
Publish(p) ==
    /\ last_event' = verdict[p]
    /\ features_on' = IF subscribed THEN verdict[p] = "online" ELSE features_on
    /\ stale_start' = FALSE
    /\ verdict' = [verdict EXCEPT ![p] = "none"]
    /\ UNCHANGED <<subscribed, mode, auth_state, file, licence, crossed>>

----------------------------------------------------------------------------
(* main: AuthManager::Start and CheckAuthorization.                         *)

MainGoto(from, to) ==
    /\ main = from
    /\ main' = to
    /\ UNCHANGED initial_event

StartOnline ==
    /\ MainGoto("start", "check")
    /\ mode = "unknown"
    /\ mode' = "online"
    /\ ClientStart
    /\ UNCHANGED <<auth_state, file, licence, verdict, busVars, crossed>>

StartOffline ==
    /\ MainGoto("start", "check_file")
    /\ mode = "offline"
    /\ UNCHANGED <<clientVars, managerVars, busVars, crossed>>

(* CheckAuthorization reads mode_; in offline mode it reads the file next.  *)
CheckAuthorization ==
    /\ \/ mode = "online" /\ MainGoto("check", "subscribe")
       \/ mode = "offline" /\ MainGoto("check", "check_file")
    /\ UNCHANGED <<clientVars, managerVars, busVars, crossed>>

CheckOfflineAuthorization ==
    /\ MainGoto("check_file", "main_exchange")
    /\ verdict' = [verdict EXCEPT ![Main] = OfflineVerdict]
    /\ UNCHANGED <<clientVars, mode, auth_state, file, licence, busVars, crossed>>

(* CheckAuthorization repeats in offline mode what Start has done; the      *)
(* second check finds the same file and changes nothing.                    *)
MainExchange ==
    /\ MainGoto("main_exchange", IF Changes(Main) THEN "main_publish" ELSE "subscribe")
    /\ Exchange(Main)
    /\ UNCHANGED clientVars

MainPublish ==
    /\ MainGoto("main_publish", "subscribe")
    /\ Publish(Main)
    /\ UNCHANGED clientVars

----------------------------------------------------------------------------
(* main: the constructor of ControlCallbackClient, Run, and the end.        *)

Subscribe ==
    /\ MainGoto("subscribe", "last_event")
    /\ subscribed' = TRUE
    /\ features_on' = TRUE
    /\ UNCHANGED <<clientVars, managerVars, last_event, stale_start, crossed>>

LastEvent ==
    /\ main = "last_event"
    /\ main' = "apply"
    /\ initial_event' = last_event
    /\ UNCHANGED <<clientVars, managerVars, busVars, crossed>>

(* Faulty variant: the constructor only subscribes.                         *)
ApplyNothing == features_on

InitialFeatures == IF initial_event = "none" THEN features_on ELSE initial_event = "online"

(* OnAuthStateChanged with that event, without the mutex of the bus.        *)
ApplyLastEvent ==
    /\ main = "apply"
    /\ main' = "running"
    /\ features_on' = InitialFeatures
    /\ stale_start' = (initial_event # last_event)
    /\ initial_event' = "none"
    /\ UNCHANGED <<clientVars, managerVars, last_event, subscribed, crossed>>

(* Run returns; the destructor of the dispatcher unsubscribes.              *)
Unsubscribe ==
    /\ MainGoto("running", "stop_manager")
    /\ subscribed' = FALSE
    /\ UNCHANGED <<clientVars, managerVars, last_event, features_on, stale_start, crossed>>

StopClient ==
    /\ stopping' = "flag"
    /\ UNCHANGED <<client_running, active_reactor, reconnect_needed, loopVars, callVars,
                   missed_stop, overrun>>

(* AuthManager::Stop stops the client only in online mode, ...              *)
StopManager ==
    /\ \/ mode = "online" /\ MainGoto("stop_manager", "stopping") /\ StopClient
       \/ mode # "online" /\ MainGoto("stop_manager", "destroy") /\ UNCHANGED clientVars
    /\ UNCHANGED <<managerVars, busVars, crossed>>

(* ... the destructor of AuthClient stops it in any case.                   *)
DestroyManager ==
    /\ MainGoto("destroy", "destroying")
    /\ StopClient
    /\ UNCHANGED <<managerVars, busVars, crossed>>

ClientStopped ==
    /\ stopping = "idle"
    /\ MainGoto("stopping", "destroy") \/ MainGoto("destroying", "exited")
    /\ UNCHANGED <<clientVars, managerVars, busVars, crossed>>

----------------------------------------------------------------------------
(* The stream: HandleMessage in OnReadDone.                                 *)

(* What a reaction of call c can find in response_.                         *)
LicenceOf(c) == IF Destroyed(c) THEN Licences \cup {{}} ELSE {licence[c]}

InReaction(c, from, to) ==
    /\ ReactionGoto(c, from, to)
    /\ UNCHANGED <<reconnect_needed, finished, call, mainVars>>

ReceiveLicence(c, lic) ==
    /\ \E f \in BOOLEAN :
          /\ OnReadDone(c, f)
          /\ licence' = IF f THEN licence ELSE [licence EXCEPT ![c] = lic]
    /\ UNCHANGED <<mode, auth_state, file, verdict, busVars, mainVars, crossed>>

(* PersistMessage, under persistence_mutex_: opening the file truncates it. *)
(* Without a file, or when it cannot be opened, nothing is persisted.       *)
PersistMessage(c) ==
    /\ \/ /\ InReaction(c, "persist", "write")
          /\ \A d \in Calls : reaction[d] # "write"
          /\ file' = {}
       \/ InReaction(c, "persist", "decide") /\ UNCHANGED file
    /\ UNCHANGED <<mode, auth_state, licence, verdict, busVars, crossed>>

WriteFile(c) ==
    /\ InReaction(c, "write", "decide")
    /\ \E lic \in LicenceOf(c) : file' = lic
    /\ UNCHANGED <<mode, auth_state, licence, verdict, busVars, crossed>>

(* Only in online mode does the licence decide.  OnReadDone clears it when  *)
(* the callback has returned.                                               *)
HandleMessage(c) ==
    /\ \/ /\ mode = "online"
          /\ InReaction(c, "decide", "message_exchange")
          /\ \E lic \in LicenceOf(c) : verdict' = [verdict EXCEPT ![c] = Verdict(lic)]
       \/ /\ mode # "online"
          /\ \E next \in NextReads(c) : InReaction(c, "decide", next)
          /\ UNCHANGED verdict
    /\ licence' = [licence EXCEPT ![c] = {}]
    /\ UNCHANGED <<mode, auth_state, file, busVars, crossed>>

MessageExchange(c) ==
    /\ \E next \in IF Changes(c) THEN {"message_publish"} ELSE NextReads(c) :
          InReaction(c, "message_exchange", next)
    /\ Exchange(c)

MessagePublish(c) ==
    /\ \E next \in NextReads(c) : InReaction(c, "message_publish", next)
    /\ Publish(c)

----------------------------------------------------------------------------
(* The stream: HandleConnection in OnDone.  A call that has ended with      *)
(* status OK counts as connected.                                           *)

CloseStream(c) ==
    /\ OnDone(c)
    /\ verdict' = [verdict EXCEPT ![c] = IF call[c] = "closed" THEN "online" ELSE "offline"]
    /\ UNCHANGED <<mode, auth_state, file, licence, busVars, mainVars, crossed>>

DoneExchange(c) ==
    /\ InReaction(c, "done_exchange", IF Changes(c) THEN "done_publish" ELSE "done_mode")
    /\ Exchange(c)

DonePublish(c) ==
    /\ InReaction(c, "done_publish", "done_mode")
    /\ Publish(c)

ModeAfter(c) == CASE call[c] = "ended" -> "online"
                  [] call[c] = "broken" /\ mode = "online" -> "offline"
                  [] OTHER -> mode

DoneMode(c) ==
    /\ InReaction(c, "done_mode", "notify")
    /\ mode' = ModeAfter(c)
    /\ UNCHANGED <<auth_state, file, licence, verdict, busVars, crossed>>

FinishDone(c) ==
    /\ NotifyReconnect(c)
    /\ UNCHANGED <<managerVars, busVars, mainVars, crossed>>

----------------------------------------------------------------------------
ClientOnly == UNCHANGED <<managerVars, busVars, mainVars, crossed>>

MainStep ==
    \/ StartOnline
    \/ StartOffline
    \/ CheckAuthorization
    \/ CheckOfflineAuthorization
    \/ MainExchange
    \/ MainPublish
    \/ Subscribe
    \/ LastEvent
    \/ ApplyLastEvent
    \/ StopManager
    \/ DestroyManager
    \/ ClientStopped
    \/ StopStep /\ ClientOnly

(* A callback that has begun, or that gRPC owes to a call that has ended.   *)
CallbackStep(c) ==
    /\ main # "exited"
    /\ \/ PersistMessage(c)
       \/ WriteFile(c)
       \/ HandleMessage(c)
       \/ MessageExchange(c)
       \/ MessagePublish(c)
       \/ CloseStream(c)
       \/ DoneExchange(c)
       \/ DonePublish(c)
       \/ DoneMode(c)
       \/ FinishDone(c)
       \/ ReadFails(c) /\ ClientOnly

Terminated == main = "exited" /\ UNCHANGED vars

Next ==
    \/ MainStep
    \/ Unsubscribe
    \/ LoopStep /\ ClientOnly
    \/ \E c \in Calls :
          \/ CallbackStep(c)
          \/ main # "exited" /\ \E lic \in Licences : ReceiveLicence(c, lic)
          \/ main # "exited" /\ CallEnds(c) /\ ClientOnly
    \/ Terminated

Spec == Init /\ [][Next]_vars

(* Threads go on, sleeps end, and gRPC finishes the reactions of a call     *)
(* that has ended.  Nobody owes a licence, the end of a call, or the end of *)
(* Run.                                                                     *)
FairSpec ==
    /\ Spec
    /\ WF_vars(MainStep)
    /\ WF_vars(LoopStep /\ ClientOnly)
    /\ \A c \in Calls : WF_vars(CallbackStep(c))
----------------------------------------------------------------------------
(* Types; the counter of attempts never counts beyond one, since Reconnect  *)
(* resets it.                                                               *)
TypeOK ==
    /\ client_running \in BOOLEAN
    /\ active_reactor \in 0..MaxCalls
    /\ reconnect_needed \in BOOLEAN
    /\ reconnect_attempts \in 0..1
    /\ loop \in LoopPCs
    /\ calls \in 0..MaxCalls
    /\ finished \in [Calls -> BOOLEAN]
    /\ call \in [Calls -> CallStates]
    /\ reaction \in [Calls -> ReactionPCs]
    /\ stopping \in StopPCs
    /\ missed_stop \in BOOLEAN
    /\ overrun \in BOOLEAN
    /\ mode \in States
    /\ auth_state \in States
    /\ file \in Licences \cup {{}}
    /\ licence \in [Calls -> Licences \cup {{}}]
    /\ verdict \in [Threads -> States \cup {"none"}]
    /\ last_event \in States \cup {"none"}
    /\ subscribed \in BOOLEAN
    /\ features_on \in BOOLEAN
    /\ main \in MainPCs
    /\ initial_event \in States \cup {"none"}
    /\ stale_start \in BOOLEAN
    /\ crossed \in BOOLEAN

Quiescent == Publishing = {}

(* The last event is the authorization state, unless two threads have been  *)
(* inside UpdateAuthState at once; and a running dispatcher has its         *)
(* features on exactly when the last event says online, whatever was        *)
(* published while its constructor subscribed, unless that has applied an   *)
(* event that was no longer the last and none has come since.               *)
FeaturesFollowState ==
    last_event # "none" =>
        /\ Quiescent /\ ~crossed => last_event = auth_state
        /\ main = "running" /\ ~stale_start => features_on = (last_event = "online")

(* CallbackClient.README.md: in the online state the configured features    *)
(* are restored.                                                            *)
OnlineRestoresFeatures ==
    Quiescent /\ main = "running" /\ auth_state = "online" => features_on

(* StreamLoop waits for finished_, which Stop and a reconnect set as well   *)
(* as OnDone; yet the first reactor it destroys while the client runs       *)
(* before OnDone has returned is one whose OnDone has begun and outlasts    *)
(* the reconnect delay.  In particular a notification meant for one call    *)
(* does not end the next.                                                   *)
ReactorOutlivesCall ==
    \A c \in 1..calls :
        c < calls \/ loop \in {"top", "turn"} => reaction[c] = "done" \/ overrun

(* Stop never meets the pointer to a destroyed reactor.                     *)
ActiveReactorLives ==
    active_reactor # 0 => active_reactor = calls /\ ~Destroyed(active_reactor)

(* Once Stop has seen the reactor no licence is handed over any more, also  *)
(* when the call is being started or a read has completed, as long as the   *)
(* reactor exists; unless Stop found no reactor while the loop was making a *)
(* call or already leaving one.                                             *)
StopSilences ==
    [][\A c \in Calls :
          reaction[c] = "reading" /\ reaction'[c] = "persist" =>
              client_running \/ stopping = "reactor" \/ missed_stop \/ Destroyed(c)]_vars

(* A call that has ended, with whatever status, is followed by another      *)
(* while the client runs.                                                   *)
Reconnects ==
    \A c \in 1..(MaxCalls - 1) :
        calls = c /\ call[c] \in {"closed", "failed", "ended", "broken"}
            ~> calls > c \/ ~client_running

(* When Run has returned the process ends, in whatever mode, and also when  *)
(* a call is just being made.                                               *)
Exits == main = "stop_manager" ~> main = "exited"
=============================================================================
