-------------------------- MODULE MCTaskDispatcher --------------------------
(***************************************************************************)
(* Instances of TaskDispatcher for TLC.                                    *)
(***************************************************************************)
EXTENDS TaskDispatcher

AllFeatures == [enabled |-> TRUE, kinds |-> Kinds]
OnlyExec == [enabled |-> TRUE, kinds |-> {"exec"}]
OnlyPcap == [enabled |-> TRUE, kinds |-> {"pcap"}]
=============================================================================
