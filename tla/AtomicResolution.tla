-------------------------- MODULE AtomicResolution --------------------------
(***************************************************************************)
(* What IntentRegistry::Resolve promises: one look at the registry. The    *)
(* answer a caller holds is what the intents, the cursor and the recencies *)
(* of one single moment of its call resolve to. No cache can be seen.      *)
(***************************************************************************)
CONSTANTS Callers, Contents

VARIABLES content, answer

Init == content \in Contents /\ answer = [c \in Callers |-> {}]

Change == content' \in Contents /\ UNCHANGED answer

Resolve(c) ==
    /\ answer[c] = {}
    /\ answer' = [answer EXCEPT ![c] = {content}]
    /\ UNCHANGED content

Return(c) ==
    /\ answer[c] # {}
    /\ answer' = [answer EXCEPT ![c] = {}]
    /\ UNCHANGED content

Next == Change \/ \E c \in Callers : Resolve(c) \/ Return(c)

Spec == Init /\ [][Next]_<<content, answer>>
=============================================================================
