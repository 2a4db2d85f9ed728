------------------------------ MODULE LossyLog ------------------------------
(***************************************************************************)
(* What a session of the program may expect of the trace files: lines wait *)
(* in the order they were accepted; the first one is stored behind those   *)
(* stored before it or lost; the oldest stored lines may be discarded.     *)
(* Nothing is stored twice or out of order. A session that ends takes what *)
(* waits with it.                                                          *)
(***************************************************************************)
EXTENDS Naturals, Sequences

VARIABLES waiting, stored

Init == waiting = <<>> /\ stored = <<>>

\* stored with its oldest lines discarded
Rest(k) == SubSeq(stored, k + 1, Len(stored))

\* A line of any kind joins the ones that wait.
Accept == /\ Len(waiting') = Len(waiting) + 1
          /\ waiting = SubSeq(waiting', 1, Len(waiting))
          /\ UNCHANGED stored

Store == /\ waiting # <<>> /\ waiting' = Tail(waiting)
         /\ \E k \in 0..Len(stored) : stored' = Append(Rest(k), Head(waiting))

Lose == /\ waiting # <<>> /\ waiting' = Tail(waiting)
        /\ \E k \in 0..Len(stored) : stored' = Rest(k)

NewSession == waiting' = <<>> /\ stored' = <<>>

Next == Accept \/ Store \/ Lose \/ NewSession
Spec == Init /\ [][Next]_<<waiting, stored>>
=============================================================================
