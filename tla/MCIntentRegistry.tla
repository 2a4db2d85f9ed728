-------------------------- MODULE MCIntentRegistry --------------------------
(***************************************************************************)
(* IntentRegistry for TLC: threads, queries and bounds are in the .cfg.    *)
(***************************************************************************)
EXTENDS IntentRegistry
=============================================================================
