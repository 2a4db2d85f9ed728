--------------------------- MODULE LatestRegister ---------------------------
(***************************************************************************)
(* What readers of ObservationPipeline::Latest and Metrics are promised: a *)
(* register that holds nothing (0) or the latest capture. Captures are     *)
(* numbered in the order they were taken; a newer one replaces an older    *)
(* one, a new session forgets what the last one saw.                       *)
(***************************************************************************)
EXTENDS Naturals

VARIABLE value

Init == value = 0
Forget == value' = 0
Renew == value' \in Nat /\ value' > value
Next == Forget \/ Renew
Spec == Init /\ [][Next]_value
=============================================================================
