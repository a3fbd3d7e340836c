----------------------------- MODULE AuthClient -----------------------------
(***************************************************************************)
(* AuthClient: the stream over which the licence server tells the agent    *)
(* whether it is authorized.  StreamLoop makes one call after the other;   *)
(* Stop is called by the main thread; gRPC calls the reactions of the      *)
(* AuthStreamReactor.  Calls are numbered, a reactor is named by its call, *)
(* 0 is the null reactor.  What the callbacks of the client do is left to  *)
(* the module that extends this one: reaction is their program counter.    *)
(*                                                                         *)
(* Time is not modelled: a sleep of StreamLoop (50 ms after a reactor has  *)
(* finished, 5 s before the next call) is a step that anything may precede *)
(* or follow.  So a callback may outlast them: its call then runs beside   *)
(* the next one, on a reactor StreamLoop has destroyed.  What it reads     *)
(* from such a reactor is undefined: any value of the member.  That it may *)
(* also crash the process is not modelled.                                 *)
(***************************************************************************)
EXTENDS Naturals

CONSTANT MaxCalls           \* bound: calls StreamLoop makes

ASSUME AuthClientAssumption == MaxCalls \in Nat

VARIABLES
    client_running,         \* running_
    active_reactor,         \* active_reactor_
    reconnect_needed,       \* reconnect_needed_
    reconnect_attempts,     \* reconnect_attempts_
    loop,                   \* program counter of StreamLoop
    calls,                  \* calls made so far; the last is the current one
    finished,               \* finished_ of each reactor
    call,                   \* state of each call
    reaction,               \* where its reactions are
    stopping,               \* program counter of Stop
    missed_stop,            \* has Stop found no reactor although there was a call
    overrun                 \* has an OnDone outlasted the reconnect delay

loopVars == <<loop, calls, reconnect_attempts>>
callVars == <<finished, call, reaction>>
clientVars == <<client_running, active_reactor, reconnect_needed, loopVars,
                callVars, stopping, missed_stop, overrun>>

Calls == 1..MaxCalls

LoopPCs == {"none", "top", "turn", "created", "starting", "waiting", "unset", "settling",
            "delay", "exited"}

(* "doomed": TryCancel was called before the call was started; "closed" and *)
(* "failed": it has ended with status OK or another, reactions are to come; *)
(* "cancelled": by TryCancel, a message may still be on its way; "ended",   *)
(* "broken": OnDone was called with status OK or another.                   *)
CallStates == {"none", "new", "doomed", "open", "closed", "failed", "cancelled", "ended",
               "broken"}

(* "reading": a read is outstanding; "idle": none is, and OnDone is not     *)
(* called yet; "done": OnDone has returned.  The others are inside the      *)
(* callbacks OnReadDone and OnDone make.                                    *)
MessagePCs == {"persist", "write", "decide", "message_exchange", "message_publish"}
DonePCs == {"done_exchange", "done_publish", "done_mode", "notify"}
ReactionPCs == {"none", "reading", "idle", "done"} \cup MessagePCs \cup DonePCs

StopPCs == {"idle", "flag", "reactor", "notify", "join"}

(* The reactor is a local of StreamLoop, within one turn of the loop.       *)
Destroyed(c) == c < calls \/ (c = calls /\ loop \in {"top", "turn", "exited"})

(* What a reaction of call c can find in finished_.                         *)
FinishedOf(c) == IF Destroyed(c) THEN BOOLEAN ELSE {finished[c]}

ClientInit ==
    /\ client_running = FALSE
    /\ active_reactor = 0
    /\ reconnect_needed = FALSE
    /\ reconnect_attempts = 0
    /\ loop = "none"
    /\ calls = 0
    /\ finished = [c \in Calls |-> FALSE]
    /\ call = [c \in Calls |-> "none"]
    /\ reaction = [c \in Calls |-> "none"]
    /\ stopping = "idle"
    /\ missed_stop = FALSE
    /\ overrun = FALSE

----------------------------------------------------------------------------
(* Start, when mode_ of the client is kOnline, which nobody changes.        *)
ClientStart ==
    /\ client_running' = TRUE
    /\ loop' = "top"
    /\ UNCHANGED <<active_reactor, reconnect_needed, reconnect_attempts, calls,
                   callVars, stopping, missed_stop, overrun>>

EnterTurn ==
    /\ loop = "top"
    /\ client_running
    /\ calls < MaxCalls
    /\ loop' = "turn"
    /\ UNCHANGED <<client_running, active_reactor, reconnect_needed, reconnect_attempts,
                   calls, callVars, stopping, missed_stop, overrun>>

(* Stop may have come, and found no reactor, since running_ was looked at.  *)
CreateReactor ==
    /\ loop = "turn"
    /\ calls' = calls + 1
    /\ active_reactor' = calls'
    /\ finished' = [finished EXCEPT ![calls'] = FALSE]
    /\ call' = [call EXCEPT ![calls'] = "new"]
    /\ loop' = "created"
    /\ missed_stop' = (stopping \in {"notify", "join"})
    /\ UNCHANGED <<client_running, reconnect_needed, reconnect_attempts, reaction,
                   stopping, overrun>>

(* Faulty variant: a notification meant for the last call is kept.          *)
ReconnectKept == reconnect_needed

ReconnectCleared == FALSE

ClearReconnect ==
    /\ loop = "created"
    /\ reconnect_needed' = ReconnectCleared
    /\ loop' = "starting"
    /\ UNCHANGED <<client_running, active_reactor, reconnect_attempts, calls, callVars,
                   stopping, missed_stop, overrun>>

(* AuthStreamReactor::Start.  A call cancelled beforehand fails at once.    *)
StartReactor ==
    /\ loop = "starting"
    /\ finished' = [finished EXCEPT ![calls] = FALSE]
    /\ call' = [call EXCEPT ![calls] = IF @ = "doomed" THEN "failed" ELSE "open"]
    /\ reaction' = [reaction EXCEPT ![calls] = "reading"]
    /\ loop' = "waiting"
    /\ UNCHANGED <<client_running, active_reactor, reconnect_needed, reconnect_attempts,
                   calls, stopping, missed_stop, overrun>>

(* What TryCancel makes of call c.                                          *)
Cancelled(c) ==
    [call EXCEPT ![c] = CASE @ = "new" -> "doomed"
                          [] @ = "open" -> "cancelled"
                          [] OTHER -> @]

(* Faulty variant: the loop trusts in being notified.                       *)
WaitForNotify == ~client_running

(* Faulty variant: the loop waits for the reactor, even when it is to stop. *)
WaitForDone == finished[calls]

(* Both inner loops of StreamLoop: running_ never becomes true again and    *)
(* finished_ never false, so the second ends where the first has.           *)
WaitOver == ~client_running \/ finished[calls]

LeaveWait ==
    /\ loop = "waiting"
    /\ WaitOver
    /\ loop' = "unset"
    /\ UNCHANGED <<client_running, active_reactor, reconnect_needed, reconnect_attempts,
                   calls, callVars, stopping, missed_stop, overrun>>

(* The wait ends with reconnect_needed_: the reactor is stopped.            *)
StopForReconnect ==
    /\ loop = "waiting"
    /\ client_running
    /\ reconnect_needed
    /\ reconnect_needed' = FALSE
    /\ finished' = [finished EXCEPT ![calls] = TRUE]
    /\ call' = Cancelled(calls)
    /\ loop' = "unset"
    /\ UNCHANGED <<client_running, active_reactor, reconnect_attempts, calls, reaction,
                   stopping, missed_stop, overrun>>

(* Faulty variant: the pointer is left to the next turn of the loop.        *)
KeptReactor == active_reactor

UnsetReactor == IF active_reactor = calls THEN 0 ELSE active_reactor

UnsetActive ==
    /\ loop = "unset"
    /\ active_reactor' = UnsetReactor
    /\ loop' = "settling"
    /\ UNCHANGED <<client_running, reconnect_needed, reconnect_attempts, calls, callVars,
                   stopping, missed_stop, overrun>>

(* After the sleep of 50 ms the loop goes on, or leaves, and the reactor is *)
(* destroyed.                                                               *)
Settle ==
    /\ loop = "settling"
    /\ \/ /\ client_running
          /\ reconnect_attempts' = reconnect_attempts + 1
          /\ loop' = "delay"
       \/ /\ ~client_running
          /\ loop' = "exited"
          /\ UNCHANGED reconnect_attempts
    /\ UNCHANGED <<client_running, active_reactor, reconnect_needed, calls, callVars,
                   stopping, missed_stop, overrun>>

(* Faulty variant: Reconnect does not start counting anew.                  *)
AttemptsKept == reconnect_attempts

AttemptsReset == 0

(* After the sleep of kReconnectDelayMs, Reconnect: a new channel and stub, *)
(* which gRPC always provides.  The turn ends and destroys the reactor.     *)
Reconnect ==
    /\ loop = "delay"
    /\ reconnect_attempts' = AttemptsReset
    /\ loop' = "top"
    /\ overrun' = (overrun \/ reaction[calls] \in DonePCs)
    /\ UNCHANGED <<client_running, active_reactor, reconnect_needed, calls, callVars,
                   stopping, missed_stop>>

LeaveLoop ==
    /\ loop = "top"
    /\ ~client_running
    /\ active_reactor' = 0
    /\ loop' = "exited"
    /\ UNCHANGED <<client_running, reconnect_needed, reconnect_attempts, calls, callVars,
                   stopping, missed_stop, overrun>>

----------------------------------------------------------------------------
(* Stop; stopping is "flag" when it is called and "idle" when it returns.   *)

(* running_ was false already: nothing more.                                *)
StopAgain ==
    /\ stopping = "flag"
    /\ ~client_running
    /\ stopping' = "idle"
    /\ UNCHANGED <<client_running, active_reactor, reconnect_needed, loopVars, callVars,
                   missed_stop, overrun>>

StopFlag ==
    /\ stopping = "flag"
    /\ client_running
    /\ client_running' = FALSE
    /\ stopping' = "reactor"
    /\ UNCHANGED <<active_reactor, reconnect_needed, loopVars, callVars,
                   missed_stop, overrun>>

(* Faulty variant: Stop cancels the call and leaves finished_ to OnDone.    *)
FinishedByDone == finished

FinishedByStop == [finished EXCEPT ![active_reactor] = TRUE]

(* The loop may have seen running_ and unset active_reactor_ by now; then   *)
(* the call is not cancelled.                                               *)
StopReactor ==
    /\ stopping = "reactor"
    /\ \/ /\ active_reactor # 0
          /\ finished' = FinishedByStop
          /\ call' = Cancelled(active_reactor)
          /\ UNCHANGED missed_stop
       \/ /\ active_reactor = 0
          /\ missed_stop' = (\E c \in Calls : call[c] = "open")
          /\ UNCHANGED <<finished, call>>
    /\ stopping' = "notify"
    /\ UNCHANGED <<client_running, active_reactor, reconnect_needed, loopVars, reaction,
                   overrun>>

StopNotify ==
    /\ stopping = "notify"
    /\ reconnect_needed' = TRUE
    /\ stopping' = "join"
    /\ UNCHANGED <<client_running, active_reactor, loopVars, callVars, missed_stop,
                   overrun>>

StopJoin ==
    /\ stopping = "join"
    /\ loop = "exited"
    /\ stopping' = "idle"
    /\ UNCHANGED <<client_running, active_reactor, reconnect_needed, loopVars, callVars,
                   missed_stop, overrun>>

----------------------------------------------------------------------------
(* The call and the reactions, as far as they do not enter a callback.      *)

CallEnds(c) ==
    /\ call[c] = "open"
    /\ \E e \in {"closed", "failed"} : call' = [call EXCEPT ![c] = e]
    /\ UNCHANGED <<client_running, active_reactor, reconnect_needed, loopVars, finished,
                   reaction, stopping, missed_stop, overrun>>

ReactionGoto(c, from, to) ==
    /\ reaction[c] = from
    /\ reaction' = [reaction EXCEPT ![c] = to]
    /\ UNCHANGED <<client_running, active_reactor, loopVars, stopping, missed_stop, overrun>>

(* OnReadDone with a licence: it goes to the callback unless finished_.     *)
OnReadDone(c, f) ==
    /\ call[c] \in {"open", "cancelled"}
    /\ f \in FinishedOf(c)
    /\ ReactionGoto(c, "reading", IF f THEN "idle" ELSE "persist")
    /\ UNCHANGED <<reconnect_needed, finished, call>>

(* OnReadDone(false).                                                       *)
ReadFails(c) ==
    /\ call[c] \in {"closed", "failed", "cancelled"}
    /\ ReactionGoto(c, "reading", "idle")
    /\ UNCHANGED <<reconnect_needed, finished, call>>

(* The end of OnReadDone: the next read, unless finished_.                  *)
NextReads(c) == {IF f THEN "idle" ELSE "reading" : f \in FinishedOf(c)}

(* OnDone up to the connection callback.                                    *)
OnDone(c) ==
    /\ call[c] \in {"closed", "failed", "cancelled"}
    /\ ReactionGoto(c, "idle", "done_exchange")
    /\ finished' = [finished EXCEPT ![c] = TRUE]
    /\ call' = [call EXCEPT ![c] = IF @ = "closed" THEN "ended" ELSE "broken"]
    /\ UNCHANGED reconnect_needed

(* The end of OnDone: NotifyReconnect if the call failed.                   *)
NotifyReconnect(c) ==
    /\ ReactionGoto(c, "notify", "done")
    /\ reconnect_needed' = (reconnect_needed \/ (call[c] = "broken" /\ client_running))
    /\ UNCHANGED <<finished, call>>

LoopStep ==
    \/ EnterTurn
    \/ CreateReactor
    \/ ClearReconnect
    \/ StartReactor
    \/ LeaveWait
    \/ StopForReconnect
    \/ UnsetActive
    \/ Settle
    \/ Reconnect
    \/ LeaveLoop

StopStep ==
    \/ StopAgain
    \/ StopFlag
    \/ StopReactor
    \/ StopNotify
    \/ StopJoin
=============================================================================
