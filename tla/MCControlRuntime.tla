-------------------------- MODULE MCControlRuntime --------------------------
(***************************************************************************)
(* ControlRuntime and the abstract specification it implements.            *)
(***************************************************************************)
EXTENDS ControlRuntime

Dispatch == INSTANCE IntentDispatch WITH waiting <- Waiting

\* ControlRuntime implements IntentDispatch: accepted intents are executed once each, in
\* order, with one correction at most, and only a Start discards any.
DispatchSpec == Dispatch!Spec
=============================================================================
