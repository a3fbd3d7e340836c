------------------------- MODULE OperationLifecycle -------------------------
(***************************************************************************)
(* What the agent promises about operations, whatever its threads do: they *)
(* are accepted one after the other, run one at a time in the order of     *)
(* their acceptance, send Data only while they run, and each ends with one *)
(* OpEof or OpError.  An operation that waits may be withdrawn, by a       *)
(* cancellation, a revocation or a lost stream, and then ends with an      *)
(* error.  TaskDispatcher implements this when the server asks for no      *)
(* immediate shutdown.                                                     *)
(***************************************************************************)
EXTENDS Naturals

CONSTANT Tasks          \* numbers of the operations, in the order of acceptance

VARIABLES
    status,             \* where each operation is
    data,               \* Data messages sent about it
    eofs,               \* OpEof messages sent about it
    errors              \* OpError messages sent about it

vars == <<status, data, eofs, errors>>

Stages == {"none", "queued", "running", "withdrawn", "ended"}

InStage(stage) == {t \in Tasks : status[t] = stage}

Init ==
    /\ status = [t \in Tasks |-> "none"]
    /\ data = [t \in Tasks |-> 0]
    /\ eofs = [t \in Tasks |-> 0]
    /\ errors = [t \in Tasks |-> 0]

Accept(t) ==
    /\ status[t] = "none"
    /\ \A u \in InStage("none") : t <= u
    /\ status' = [status EXCEPT ![t] = "queued"]
    /\ UNCHANGED <<data, eofs, errors>>

Start(t) ==
    /\ InStage("running") = {}
    /\ status[t] = "queued"
    /\ \A u \in InStage("queued") : t <= u
    /\ status' = [status EXCEPT ![t] = "running"]
    /\ UNCHANGED <<data, eofs, errors>>

Send(t) ==
    /\ status[t] = "running"
    /\ data' = [data EXCEPT ![t] = @ + 1]
    /\ UNCHANGED <<status, eofs, errors>>

Finish(t) ==
    /\ status[t] = "running"
    /\ status' = [status EXCEPT ![t] = "ended"]
    /\ \/ eofs' = [eofs EXCEPT ![t] = @ + 1] /\ UNCHANGED errors
       \/ errors' = [errors EXCEPT ![t] = @ + 1] /\ UNCHANGED eofs
    /\ UNCHANGED data

(* Taken out of the queue; the error that says so is still to be sent.      *)
Withdraw(S) ==
    /\ status' = [t \in Tasks |-> IF t \in S THEN "withdrawn" ELSE status[t]]
    /\ UNCHANGED <<data, eofs, errors>>

Fail(S) ==
    /\ status' = [t \in Tasks |-> IF t \in S THEN "ended" ELSE status[t]]
    /\ errors' = [t \in Tasks |-> IF t \in S THEN errors[t] + 1 ELSE errors[t]]
    /\ UNCHANGED <<data, eofs>>

Next ==
    \/ \E S \in SUBSET InStage("queued") : Withdraw(S)
    \/ \E S \in SUBSET (InStage("queued") \cup InStage("withdrawn")) : Fail(S)
    \/ \E t \in Tasks : Accept(t) \/ Start(t) \/ Send(t) \/ Finish(t)

Spec == Init /\ [][Next]_vars
=============================================================================
