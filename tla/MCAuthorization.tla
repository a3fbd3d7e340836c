-------------------------- MODULE MCAuthorization ---------------------------
(***************************************************************************)
(* Instances of Authorization for TLC.                                     *)
(***************************************************************************)
EXTENDS Authorization

Expired == [is_expired |-> FALSE, expire_at |-> Now, remaining_valid_timestamp |-> 1]
Negative == [is_expired |-> FALSE, expire_at |-> -1, remaining_valid_timestamp |-> 0]
Revoked == [is_expired |-> TRUE, expire_at |-> Now + 1, remaining_valid_timestamp |-> 1]

ValidAndNot == {{Expired, Negative}, {Expired, Revoked}}
=============================================================================
