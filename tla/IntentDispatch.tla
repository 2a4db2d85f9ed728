--------------------------- MODULE IntentDispatch ---------------------------
(***************************************************************************)
(* What the control runtime promises the callers of EnqueueIntent          *)
(* (core/execution/include/ControlRuntime.h): an accepted intent is handed *)
(* to the execution engine once, in the order of acceptance within its     *)
(* priority; an intent that did not show its effect is tried once more,    *)
(* with high priority; nothing is lost but by a new Start.                 *)
(***************************************************************************)
EXTENDS Naturals, Sequences

VARIABLES
    waiting,    \* accepted and not executed yet, per priority
    history     \* executed, in order

Priority == {"high", "medium", "low"}
Item == [origin : Nat, retry : BOOLEAN]   \* an accepted intent, under a name of its own

Waits(o) == \E p \in Priority : \E i \in DOMAIN waiting[p] : waiting[p][i].origin = o
Known(o) == Waits(o) \/ \E i \in DOMAIN history : history[i].origin = o

Init == waiting = [p \in Priority |-> <<>>] /\ history = <<>>

\* What arrives is the last of its queue afterwards, whoever it is.
Accept(p) ==
    /\ waiting'[p] # <<>>
    /\ LET item == waiting'[p][Len(waiting'[p])]
       IN  /\ item \in Item /\ ~Known(item.origin)
           /\ waiting' = [waiting EXCEPT ![p] = Append(@, item)]
    /\ UNCHANGED history

Execute(p) ==
    /\ waiting[p] # <<>>
    /\ history' = Append(history, Head(waiting[p]))
    /\ waiting' = [waiting EXCEPT ![p] = Tail(@)]

\* The intent executed last may come back once.
Correct ==
    /\ history # <<>>
    /\ LET item == history[Len(history)]
       IN  /\ ~item.retry /\ ~Waits(item.origin)
           /\ waiting' = [waiting EXCEPT !["high"] =
                              Append(@, [origin |-> item.origin, retry |-> TRUE])]
    /\ UNCHANGED history

Discard == waiting' = [p \in Priority |-> <<>>] /\ history' = <<>>

Next ==
    \/ \E p \in Priority : Accept(p) \/ Execute(p)
    \/ Correct
    \/ Discard

Spec == Init /\ [][Next]_<<waiting, history>>
=============================================================================
