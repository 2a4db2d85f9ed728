-------------------------- MODULE ApiServerProofs --------------------------
(***************************************************************************)
(* What the HTTP API promises its clients, for any number of them, any     *)
(* limits, and both modes: a thread for each client, or a limited number   *)
(* of requests one after the other.                                        *)
(***************************************************************************)
EXTENDS ApiServer, FiniteSetTheorems, TLAPS

Before == {"away", "queued"}
Working == {"reading", "handling", "making", "using"}   \* not answered yet
Places == Before \cup Working \cup {"streaming", "closed", "gone"}

-----------------------------------------------------------------------------
\* What holds of one connection, whatever the others do.
Client(c) ==
    /\ answers[c] = IF at[c] \in {"streaming", "closed", "gone"} THEN 1 ELSE 0
    /\ received[c] \in 0..(KPayload + KBuffer)
    /\ at[c] \in Before \cup {"reading"} => received[c] <= KPayload
    /\ at[c] \in {"handling", "making", "using", "streaming"} =>
          peerDone[c] \/ received[c] >= KHead + request[c].body
    /\ events[c] \in 0..KEvents
    /\ using[c] \in 0..runtimes /\ (using[c] # 0 => at[c] = "using")

\* Who may have made a runtime, who is gone, and who was answered.
Makers == {c \in Conns : at[c] \in {"using", "closed", "gone"}}
Gone == {c \in Conns : at[c] = "gone"}
Answered == {c \in Conns : answers[c] > 0}

ServerTypes ==
    /\ loop \in {"accepting", "serving", "returned"}
    /\ activeClients \in Nat /\ served \in Nat /\ runtimes \in Nat
    /\ at \in [Conns -> Places] /\ request \in [Conns -> Requests]
    /\ received \in [Conns -> Nat] /\ peerDone \in [Conns -> BOOLEAN]
    /\ answers \in [Conns -> Nat] /\ events \in [Conns -> Nat] /\ using \in [Conns -> Nat]

\* In the mode of threads they are counted, and those at work were admitted.
Counted ==
    Threaded => activeClients = Cardinality(Threads) /\ activeClients <= KMaxConcurrentClients

\* In the other mode one connection is served at a time, and those that were served are gone.
OneAtATime ==
    ~Threaded =>
       /\ \A c, d \in Threads : c = d
       /\ Threads # {} <=> loop = "serving"
       /\ served = Cardinality(Gone)
       /\ IF loop = "returned" THEN served = MaxRequests ELSE served < MaxRequests
       /\ \A c \in Conns : using[c] # 0 => using[c] = runtimes

ServerInv ==
    /\ ServerTypes /\ runtimes <= Cardinality(Makers)
    /\ \A c \in Conns : Client(c)
    /\ Counted /\ OneAtATime

-----------------------------------------------------------------------------
LEMMA SameSet == \A S, x : (x \notin S => S \ {x} = S) /\ (x \in S => S \cup {x} = S)
    OBVIOUS

\* The sets of connections when one of them moves.
LEMMA Moves ==
    ASSUME ServerTypes, NEW c \in Conns, NEW x \in Places, at' = [at EXCEPT ![c] = x]
    PROVE  /\ Threads' = IF x \in Working \cup {"streaming", "closed"} THEN Threads \cup {c} ELSE Threads \ {c}
           /\ Gone' = IF x = "gone" THEN Gone \cup {c} ELSE Gone \ {c}
           /\ Makers' = IF x \in {"using", "closed", "gone"} THEN Makers \cup {c} ELSE Makers \ {c}
<1>1. /\ at'[c] = x
      /\ \A d \in Conns \ {c} : at'[d] = at[d]
    BY DEF ServerTypes
<1>2. Threads' = IF x \in Working \cup {"streaming", "closed"} THEN Threads \cup {c} ELSE Threads \ {c}
    BY <1>1 DEF Threads, Working
<1>3. Gone' = IF x = "gone" THEN Gone \cup {c} ELSE Gone \ {c}
    BY <1>1 DEF Gone
<1>4. Makers' = IF x \in {"using", "closed", "gone"} THEN Makers \cup {c} ELSE Makers \ {c}
    BY <1>1 DEF Makers
<1> QED
    BY <1>2, <1>3, <1>4

LEMMA FiniteSets ==
    ASSUME ClientsAssumption
    PROVE  /\ IsFiniteSet(Threads) /\ IsFiniteSet(Gone) /\ IsFiniteSet(Makers) /\ IsFiniteSet(Answered)
           /\ Cardinality(Threads) \in Nat /\ Cardinality(Gone) \in Nat
           /\ Cardinality(Makers) \in 0..Cardinality(Conns) /\ Cardinality(Answered) \in Nat
<1>1. IsFiniteSet(Conns) /\ Cardinality(Conns) \in Nat
    BY FS_CardinalityType DEF ClientsAssumption
<1>2. Threads \subseteq Conns /\ Gone \subseteq Conns /\ Makers \subseteq Conns /\ Answered \subseteq Conns
    BY DEF Threads, Gone, Makers, Answered
<1> QED
    BY <1>1, <1>2, FS_Subset, FS_CardinalityType

\* What a step of one connection leaves as it is for another.
LEMMA OtherClient ==
    ASSUME ServerTypes, NEW d \in Conns, Client(d), runtimes' \in Nat, runtimes' >= runtimes,
           at'[d] = at[d], answers'[d] = answers[d], request'[d] = request[d], received'[d] = received[d],
           peerDone'[d] = peerDone[d] \/ peerDone'[d], events'[d] = events[d], using'[d] = using[d]
    PROVE  Client(d)'
    BY DEF Client, ServerTypes

ServerStep(c) == Connect(c) \/ HangUp(c) \/ Receive(c) \/ Accept(c) \/ Serve(c)

\* What each operation does with its own connection, and that it leaves the others alone. `answered'
\* are the responses it sends.
Touches(c) ==
    /\ \A d \in Conns \ {c} :
          /\ at'[d] = at[d] /\ answers'[d] = answers[d] /\ received'[d] = received[d]
          /\ peerDone'[d] = peerDone[d] /\ events'[d] = events[d] /\ using'[d] = using[d]
    /\ request' = request

LEMMA Fields ==
    ASSUME ServerTypes, NEW c \in Conns
    PROVE  /\ \A x : Go(c, x) => at'[c] = x /\ (x \in Places => at' \in [Conns -> Places])
                                 /\ \A d \in Conns \ {c} : at'[d] = at[d]
           /\ Send(c) => answers'[c] = answers[c] + 1 /\ answers' \in [Conns -> Nat]
                         /\ \A d \in Conns \ {c} : answers'[d] = answers[d]
    BY DEF ServerTypes, Go, Send

LEMMA ClientStep ==
    ASSUME ClientsAssumption, ServerTypes, NEW c \in Conns, Client(c), ServerStep(c)
    PROVE  /\ Client(c)' /\ Touches(c)
           /\ at' \in [Conns -> Places] /\ received' \in [Conns -> Nat] /\ peerDone' \in [Conns -> BOOLEAN]
           /\ answers' \in [Conns -> Nat] /\ events' \in [Conns -> Nat] /\ using' \in [Conns -> Nat]
           /\ runtimes' \in Nat /\ runtimes' >= runtimes
<1> DEFINE Goal == /\ Client(c)' /\ Touches(c)
                   /\ at' \in [Conns -> Places] /\ received' \in [Conns -> Nat] /\ peerDone' \in [Conns -> BOOLEAN]
                   /\ answers' \in [Conns -> Nat] /\ events' \in [Conns -> Nat] /\ using' \in [Conns -> Nat]
                   /\ runtimes' \in Nat /\ runtimes' >= runtimes
<1>1. CASE Connect(c)
    BY <1>1, Fields DEF Connect, Client, ServerTypes, Touches, Places, Before, Working
<1>2. CASE HangUp(c)
    BY <1>2 DEF HangUp, Client, ServerTypes, Touches, Places, Before, Working
<1>3. CASE Receive(c)
    <2>0. PICK n \in 1..KBuffer :
             /\ received' = [received EXCEPT ![c] = received[c] + n]
             /\ \/ Go(c, "closed") /\ Send(c)
                \/ /\ ~TooLarge(c, received[c] + n) /\ BodyThere(c, received[c] + n)
                   /\ Go(c, "handling") /\ UNCHANGED answers
                \/ ~TooLarge(c, received[c] + n) /\ UNCHANGED <<at, answers>>
        BY <1>3 DEF Receive
    <2>1. \/ Go(c, "closed") /\ Send(c)
          \/ /\ received[c] + n <= KPayload /\ received[c] + n - KHead >= request[c].body
             /\ Go(c, "handling") /\ UNCHANGED answers
          \/ received[c] + n <= KPayload /\ UNCHANGED <<at, answers>>
        BY <2>0 DEF TooLarge, BodyThere, ClientsAssumption, ServerTypes
    <2>2. n \in Nat /\ received[c] \in 0..KPayload /\ request[c].body \in Nat /\ at[c] = "reading"
        BY <1>3 DEF Receive, Client, ClientsAssumption, ServerTypes
    <2>3. UNCHANGED <<request, peerDone, events, runtimes, using>>
        BY <1>3 DEF Receive
    <2>4. received'[c] = received[c] + n /\ received'[c] \in 0..(KPayload + KBuffer)
          /\ received' \in [Conns -> Nat] /\ \A d \in Conns \ {c} : received'[d] = received[d]
        BY <2>0, <2>2 DEF ServerTypes, ClientsAssumption
    <2>5. CASE Go(c, "closed") /\ Send(c)
        BY <2>2, <2>3, <2>4, <2>5, Fields DEF Client, ServerTypes, Touches, Places, Before, Working
    <2>6. CASE received[c] + n <= KPayload /\ received[c] + n - KHead >= request[c].body
               /\ Go(c, "handling") /\ UNCHANGED answers
        BY <2>2, <2>3, <2>4, <2>6, Fields
           DEF Client, ServerTypes, Touches, Places, Before, Working, ClientsAssumption
    <2>7. CASE received[c] + n <= KPayload /\ UNCHANGED <<at, answers>>
        BY <2>2, <2>3, <2>4, <2>7, Fields DEF Client, ServerTypes, Touches, Places, Before, Working
    <2> QED
        BY <2>1, <2>5, <2>6, <2>7
<1>4. CASE Accept(c)
    BY <1>4, Fields DEF Accept, Client, ServerTypes, Touches, Places, Before, Working
<1>5. CASE ReceiveEnd(c)
    BY <1>5, Fields DEF ReceiveEnd, Client, ServerTypes, Touches, Places, Before, Working
<1>6. CASE ReceiveFails(c)
    BY <1>6, Fields DEF ReceiveFails, Client, ServerTypes, Touches, Places, Before, Working
<1>7. CASE Handle(c)
    <2>0. at[c] = "handling" /\ UNCHANGED <<request, received, peerDone, events, runtimes>>
        BY <1>7 DEF Handle
    <2>1. \/ Go(c, "streaming") /\ Send(c) /\ UNCHANGED using
          \/ Go(c, "making") /\ UNCHANGED using /\ UNCHANGED answers
          \/ Go(c, "using") /\ using' = [using EXCEPT ![c] = runtimes] /\ UNCHANGED answers
          \/ Go(c, "closed") /\ Send(c) /\ UNCHANGED using
        BY <1>7 DEF Handle
    <2> QED
        BY <2>0, <2>1, Fields DEF Client, ServerTypes, Touches, Places, Before, Working
<1>8. CASE MakeRuntime(c)
    BY <1>8, Fields DEF MakeRuntime, Client, ServerTypes, Touches, Places, Before, Working
<1>9. CASE Answer(c)
    BY <1>9, Fields DEF Answer, Client, ServerTypes, Touches, Places, Before, Working
<1>10. CASE SendEvent(c)
    <2>1. /\ at[c] = "streaming"
          /\ UNCHANGED <<loop, activeClients, served, request, received, peerDone, answers, runtimes, using>>
          /\ \/ events[c] < KEvents /\ events' = [events EXCEPT ![c] = @ + 1] /\ UNCHANGED at
             \/ Go(c, "closed") /\ UNCHANGED events
        BY <1>10 DEF SendEvent
    <2>2. CASE events[c] < KEvents /\ events' = [events EXCEPT ![c] = @ + 1] /\ UNCHANGED at
        <3>1. events'[c] \in 0..KEvents
            BY <2>1, <2>2 DEF Client, ServerTypes, ClientsAssumption
        <3> QED
            BY <2>1, <2>2, <3>1 DEF Client, ServerTypes, Touches, Places
    <2>3. CASE Go(c, "closed") /\ UNCHANGED events
        BY <2>1, <2>3, Fields DEF Client, ServerTypes, Touches, Places, Before, Working
    <2> QED
        BY <2>1, <2>2, <2>3
<1>11. CASE Leave(c)
    BY <1>11, Fields DEF Leave, Client, ServerTypes, Touches, Places, Before, Working
<1> QED
    BY <1>1, <1>2, <1>3, <1>4, <1>5, <1>6, <1>7, <1>8, <1>9, <1>10, <1>11 DEF ServerStep, Serve

-----------------------------------------------------------------------------
\* How an operation moves its connection, and what it does to the counters.
Moved(c) ==
    \/ /\ at' = at /\ UNCHANGED <<loop, activeClients, served, runtimes, using>>
       /\ answers' = answers
    \/ /\ at' = [at EXCEPT ![c] = "queued"] /\ at[c] = "away"
       /\ UNCHANGED <<loop, activeClients, served, runtimes, using>>
    \/ \E x \in Working \cup {"streaming", "closed"} :
          /\ at[c] \in Working \cup {"streaming"} /\ at' = [at EXCEPT ![c] = x]
          /\ UNCHANGED <<loop, activeClients, served>>
          /\ \/ x \notin {"using", "making"} /\ at[c] \notin {"making", "using"} /\ UNCHANGED <<runtimes, using>>
             \/ x = "making" /\ at[c] = "handling" /\ UNCHANGED <<runtimes, using>>
             \/ x = "using" /\ at[c] = "handling" /\ UNCHANGED runtimes /\ using' = [using EXCEPT ![c] = runtimes]
             \/ x = "using" /\ at[c] = "making" /\ runtimes' = runtimes + 1 /\ using' = [using EXCEPT ![c] = runtimes']
             \/ x = "closed" /\ at[c] = "using" /\ UNCHANGED runtimes /\ using' = [using EXCEPT ![c] = 0]
    \/ Accept(c)
    \/ Leave(c)

LEMMA StepMoves == ASSUME NEW c \in Conns, ServerTypes, ServerStep(c) PROVE Moved(c)
<1>1. CASE Connect(c) \/ HangUp(c)
    BY <1>1 DEF Moved, Connect, HangUp, Go
<1>2. CASE Receive(c)
    BY <1>2 DEF Moved, Receive, Go, Working
<1>3. CASE ReceiveEnd(c) \/ ReceiveFails(c)
    BY <1>3 DEF Moved, ReceiveEnd, ReceiveFails, Go, Working
<1>4. CASE Handle(c)
    BY <1>4 DEF Moved, Handle, Go, Working
<1>5. CASE MakeRuntime(c) \/ Answer(c)
    BY <1>5 DEF Moved, MakeRuntime, Answer, Go, Working
<1>6. CASE SendEvent(c)
    BY <1>6 DEF Moved, SendEvent, Go, Working
<1> QED
    BY <1>1, <1>2, <1>3, <1>4, <1>5, <1>6 DEF ServerStep, Serve, Moved

\* The counters follow the connections.
LEMMA CountersStep ==
    ASSUME ClientsAssumption, ServerInv, NEW c \in Conns, ServerStep(c)
    PROVE  /\ loop' \in {"accepting", "serving", "returned"} /\ activeClients' \in Nat /\ served' \in Nat
           /\ runtimes' <= Cardinality(Makers') /\ Counted' /\ OneAtATime'
<1> DEFINE Goal == /\ loop' \in {"accepting", "serving", "returned"} /\ activeClients' \in Nat /\ served' \in Nat
                   /\ runtimes' <= Cardinality(Makers') /\ Counted' /\ OneAtATime'
<1>1. /\ ServerTypes /\ runtimes <= Cardinality(Makers) /\ (\A d \in Conns : Client(d)) /\ Counted /\ OneAtATime
      /\ MaxRequests \in Nat /\ KMaxConcurrentClients \in Nat \ {0} /\ at[c] \in Places /\ c \in DOMAIN at
    BY DEF ServerInv, ClientsAssumption, ServerTypes
<1>2. CASE UNCHANGED <<at, loop, activeClients, served, runtimes, using>>
    BY <1>1, <1>2 DEF ServerTypes, Makers, Gone, Threads, Counted, OneAtATime, Threaded
<1>3. CASE /\ at' = [at EXCEPT ![c] = "queued"] /\ at[c] = "away"
           /\ UNCHANGED <<loop, activeClients, served, runtimes, using>>
    <2>1. Threads' = Threads /\ Gone' = Gone /\ Makers' = Makers
        BY <1>1, <1>3, Moves DEF Places, Before, Working, Threads, Gone, Makers
    <2> QED
        BY <1>1, <1>3, <2>1 DEF ServerTypes, Counted, OneAtATime, Threaded
<1>4. ASSUME NEW x \in Working \cup {"streaming", "closed"},
             at[c] \in Working \cup {"streaming"}, at' = [at EXCEPT ![c] = x],
             UNCHANGED <<loop, activeClients, served>>,
             \/ x \notin {"using", "making"} /\ at[c] \notin {"making", "using"} /\ UNCHANGED <<runtimes, using>>
             \/ x = "making" /\ at[c] = "handling" /\ UNCHANGED <<runtimes, using>>
             \/ x = "using" /\ at[c] = "handling" /\ UNCHANGED runtimes /\ using' = [using EXCEPT ![c] = runtimes]
             \/ x = "using" /\ at[c] = "making" /\ runtimes' = runtimes + 1 /\ using' = [using EXCEPT ![c] = runtimes']
             \/ x = "closed" /\ at[c] = "using" /\ UNCHANGED runtimes /\ using' = [using EXCEPT ![c] = 0]
      PROVE  Goal
    <2>0. c \in Threads /\ c \notin Gone
        BY <1>4 DEF Working, Threads, Gone
    <2>1. Threads' = Threads /\ Gone' = Gone /\ c \in Threads
        <3>1. x \in Places /\ x # "gone" /\ x \in Working \cup {"streaming", "closed"}
            BY DEF Places, Working
        <3>2. Threads' = Threads \cup {c} /\ Gone' = Gone \ {c}
            BY <1>1, <1>4, <3>1, Moves
        <3> QED
            BY <2>0, <3>2, SameSet
    <2>2. Makers' = IF x \in {"using", "closed"} THEN Makers \cup {c} ELSE Makers \ {c}
        BY <1>1, <1>4, Moves DEF Places, Before, Working
    <2>3. runtimes' <= Cardinality(Makers')
        <3>1. CASE at[c] = "using"
            BY <1>1, <1>4, <2>2, <3>1 DEF Makers
        <3>2. CASE at[c] # "using"
            <4>1. c \notin Makers /\ Cardinality(Makers \cup {c}) = Cardinality(Makers) + 1
                BY <1>4, <3>2, FiniteSets, FS_AddElement DEF Makers, Working
            <4>2. runtimes' = runtimes \/ (runtimes' = runtimes + 1 /\ x = "using")
                BY <1>4
            <4> QED
                BY <1>1, <2>2, <4>1, <4>2, FiniteSets DEF ServerTypes
        <3> QED
            BY <3>1, <3>2
    <2>4. OneAtATime'
        <3>1. \A d \in Conns : using[d] # 0 => d \in Threads
            BY <1>1 DEF Client, Threads
        <3>2. ~Threaded => \A d \in Conns \ {c} : using'[d] = 0
            BY <1>1, <1>4, <2>1, <3>1 DEF OneAtATime, ServerTypes
        <3>3. using'[c] # 0 => using'[c] = runtimes' \/ (using'[c] = using[c] /\ runtimes' = runtimes)
            BY <1>1, <1>4 DEF ServerTypes
        <3> QED
            BY <1>1, <1>4, <2>1, <3>2, <3>3 DEF OneAtATime, Threaded
    <2> QED
        BY <1>1, <1>4, <2>1, <2>3, <2>4 DEF ServerTypes, Counted, Threaded
<1>5. CASE Accept(c)
    <2>1. at[c] = "queued" /\ c \notin Threads /\ c \notin Gone /\ c \notin Makers
          /\ UNCHANGED <<served, runtimes, using>> /\ loop = "accepting"
        BY <1>5 DEF Accept, Threads, Gone, Makers
    <2>2. /\ Cardinality(Threads \cup {c}) = Cardinality(Threads) + 1
          /\ Cardinality(Makers \cup {c}) = Cardinality(Makers) + 1
        BY <2>1, FiniteSets, FS_AddElement
    <2>3. CASE Threaded /\ Admitted(c)
        <3>1. Go(c, "reading") /\ activeClients' = activeClients + 1 /\ loop' = loop
            BY <1>5, <2>3 DEF Accept
        <3>2. Threads' = Threads \cup {c} /\ Makers' = Makers
            BY <1>1, <2>1, <3>1, Moves, SameSet DEF Go, Places, Working
        <3> QED
            BY <1>1, <2>1, <2>2, <2>3, <3>1, <3>2 DEF Admitted, ServerTypes, Counted, OneAtATime, Threaded
    <2>4. CASE Threaded /\ ~Admitted(c)
        <3>1. Go(c, "gone") /\ activeClients' = activeClients /\ loop' = loop
            BY <1>5, <2>4 DEF Accept
        <3>2. Threads' = Threads /\ Makers' = Makers \cup {c}
            BY <1>1, <2>1, <3>1, Moves, SameSet DEF Go, Places, Working
        <3> QED
            BY <1>1, <2>1, <2>2, <2>4, <3>1, <3>2, FiniteSets DEF ServerTypes, Counted, OneAtATime, Threaded
    <2>5. CASE ~Threaded
        <3>1. Go(c, "reading") /\ activeClients' = activeClients /\ loop' = "serving"
            BY <1>5, <2>5 DEF Accept
        <3>2. Threads' = Threads \cup {c} /\ Makers' = Makers /\ Gone' = Gone
            BY <1>1, <2>1, <3>1, Moves, SameSet DEF Go, Places, Working
        <3>3. Threads = {}
            BY <1>1, <2>1, <2>5 DEF OneAtATime
        <3>4. OneAtATime'
            BY <1>1, <2>1, <2>5, <3>1, <3>2, <3>3 DEF OneAtATime, Threaded
        <3> QED
            BY <1>1, <2>1, <2>5, <3>1, <3>2, <3>4 DEF ServerTypes, Counted, Threaded
    <2> QED
        BY <2>3, <2>4, <2>5
<1>6. CASE Leave(c)
    <2>1. at[c] = "closed" /\ c \in Threads /\ c \notin Gone /\ c \in Makers /\ Go(c, "gone")
          /\ UNCHANGED <<runtimes, using>>
        BY <1>6 DEF Leave, Threads, Gone, Makers
    <2>2. Threads' = Threads \ {c} /\ Makers' = Makers /\ Gone' = Gone \cup {c}
        <3>1. "gone" \in Places /\ "gone" \notin Working \cup {"streaming", "closed"}
            BY DEF Places, Working
        <3>2. Threads' = Threads \ {c} /\ Makers' = Makers \cup {c} /\ Gone' = Gone \cup {c}
            BY <1>1, <2>1, <3>1, Moves DEF Go
        <3> QED
            BY <2>1, <3>2, SameSet
    <2>3. /\ Cardinality(Threads \ {c}) = Cardinality(Threads) - 1
          /\ Cardinality(Gone \cup {c}) = Cardinality(Gone) + 1
        BY <2>1, FiniteSets, FS_AddElement, FS_RemoveElement
    <2>4. CASE Threaded
        <3>1. activeClients' = activeClients - 1 /\ UNCHANGED <<loop, served>>
            BY <1>6, <2>4 DEF Leave
        <3>2. activeClients' \in Nat
            <4>1. Cardinality(Threads \ {c}) \in Nat
                BY FiniteSets, FS_RemoveElement, FS_CardinalityType
            <4> QED
                BY <1>1, <2>3, <2>4, <3>1, <4>1, FiniteSets DEF Counted
        <3> QED
            BY <1>1, <2>1, <2>2, <2>3, <2>4, <3>1, <3>2 DEF ServerTypes, Counted, OneAtATime, Threaded
    <2>5. CASE ~Threaded
        <3>1. /\ served' = served + 1 /\ activeClients' = activeClients
              /\ loop' = IF served' >= MaxRequests THEN "returned" ELSE "accepting"
            BY <1>6, <2>5 DEF Leave
        <3>2. Threads' = {} /\ loop = "serving"
            BY <1>1, <2>1, <2>2, <2>5 DEF OneAtATime
        <3>3. served + 1 <= MaxRequests
            BY <1>1, <2>5, <3>2 DEF OneAtATime, ServerTypes
        <3>4. OneAtATime'
            BY <1>1, <2>1, <2>2, <2>3, <2>5, <3>1, <3>2, <3>3 DEF OneAtATime, Threaded, ServerTypes
        <3> QED
            BY <1>1, <2>1, <2>2, <2>5, <3>1, <3>4 DEF ServerTypes, Counted, Threaded
    <2> QED
        BY <2>4, <2>5
<1> QED
    BY <1>1, <1>2, <1>3, <1>4, <1>5, <1>6, StepMoves DEF Moved

-----------------------------------------------------------------------------
LEMMA ServerStart ==
    ASSUME ClientsAssumption, Init
    PROVE  ServerInv
<1>1. ServerTypes /\ \A c \in Conns : Client(c)
    BY DEF Init, ServerTypes, Client, ClientsAssumption, Places, Before, Working
<1>2. Threads = {} /\ Gone = {} /\ Makers = {}
    BY DEF Init, Threads, Gone, Makers
<1> QED
    BY <1>1, <1>2, FS_EmptySet
       DEF ServerInv, Counted, OneAtATime, Init, Threaded, ClientsAssumption

LEMMA ServerNext ==
    ASSUME ClientsAssumption, ServerInv, [Next]_vars
    PROVE  ServerInv'
<1>1. CASE UNCHANGED vars
    BY <1>1 DEF vars, ServerInv, ServerTypes, Client, Counted, OneAtATime, Threads, Gone, Makers, Threaded
<1>2. CASE Next
    <2>1. PICK c \in Conns : ServerStep(c)
        BY <1>2 DEF Next, ServerStep
    <2>2. /\ Client(c)' /\ Touches(c) /\ request' = request
          /\ at' \in [Conns -> Places] /\ received' \in [Conns -> Nat] /\ peerDone' \in [Conns -> BOOLEAN]
          /\ answers' \in [Conns -> Nat] /\ events' \in [Conns -> Nat] /\ using' \in [Conns -> Nat]
          /\ runtimes' \in Nat /\ runtimes' >= runtimes
        BY <2>1, ClientStep DEF ServerInv, Touches
    <2>3. \A d \in Conns : Client(d)'
        BY <2>2, OtherClient DEF ServerInv, Touches
    <2> QED
        BY <2>1, <2>2, <2>3, CountersStep DEF ServerInv, ServerTypes
<1> QED
    BY <1>1, <1>2

-----------------------------------------------------------------------------
\* What the invariant says of the properties.
LEMMA ServerKeeps ==
    ASSUME ClientsAssumption, ServerInv
    PROVE  /\ TypeOK /\ ThreadsBounded /\ AnsweredOnce /\ HandledWhole
           /\ ~Threaded => ServesNoMore /\ NoRuntimeIsReplaced
<1>1. TypeOK
    <2>1. runtimes \in 0..Cardinality(Conns) /\ loop \in {"accepting", "serving", "returned"}
        BY FiniteSets, FS_CardinalityType DEF ServerInv, ServerTypes, ClientsAssumption
    <2>2. ASSUME NEW c \in Conns
          PROVE  /\ received[c] <= KPayload + KBuffer /\ events[c] <= KEvents
                 /\ at[c] \in {"away", "queued", "gone"} \/ c \in Threads
        BY DEF ServerInv, ServerTypes, Client, Threads, Places, Before, Working
    <2> QED
        BY <2>1, <2>2 DEF TypeOK
<1>2. ThreadsBounded
    <2>1. CASE Threaded
        BY <2>1 DEF ServerInv, Counted, ThreadsBounded
    <2>2. CASE ~Threaded
        <3>1. Threads = {} \/ \E c \in Threads : Threads = {c}
            BY <2>2 DEF ServerInv, OneAtATime
        <3>2. Cardinality(Threads) \in {0, 1}
            BY <3>1, FS_EmptySet, FS_Singleton
        <3> QED
            BY <2>2, <3>2 DEF ThreadsBounded
    <2> QED
        BY <2>1, <2>2
<1>3. AnsweredOnce /\ HandledWhole
    BY DEF ServerInv, Client, AnsweredOnce, HandledWhole
<1>4. ASSUME ~Threaded
      PROVE  ServesNoMore /\ NoRuntimeIsReplaced
    <2>1. Answered \subseteq Gone \cup Threads
        BY DEF Answered, Gone, Threads, ServerInv, Client
    <2>2. Cardinality(Gone \cup Threads) <= Cardinality(Gone) + Cardinality(Threads)
        <3>1. Cardinality(Gone \cap Threads) \in Nat
            BY FiniteSets, FS_Intersection, FS_CardinalityType
        <3>2. Cardinality(Gone \cup Threads)
                 = Cardinality(Gone) + Cardinality(Threads) - Cardinality(Gone \cap Threads)
            BY FiniteSets, FS_Union
        <3> QED
            BY <3>1, <3>2, FiniteSets
    <2>3. Cardinality(Answered) <= Cardinality(Gone \cup Threads)
        BY <2>1, FiniteSets, FS_Union, FS_Subset
    <2>4. IF loop = "serving" THEN Cardinality(Threads) <= 1 /\ served < MaxRequests
          ELSE Cardinality(Threads) = 0 /\ served <= MaxRequests
        <3>1. loop # "serving" => Cardinality(Threads) = 0
            BY <1>4, FS_EmptySet DEF ServerInv, OneAtATime
        <3>2. /\ IF loop = "returned" THEN served = MaxRequests ELSE served < MaxRequests
              /\ served \in Nat /\ MaxRequests \in Nat
            BY <1>4 DEF ServerInv, OneAtATime, ServerTypes, ClientsAssumption
        <3> QED
            BY <1>2, <1>4, <3>1, <3>2 DEF ThreadsBounded
    <2>5. served <= MaxRequests /\ Cardinality(Answered) <= MaxRequests
        <3>1. /\ Cardinality(Answered) \in Nat /\ Cardinality(Gone \cup Threads) \in Nat
              /\ Cardinality(Threads) \in Nat /\ served = Cardinality(Gone)
              /\ served \in Nat /\ MaxRequests \in Nat
            BY <1>4, FiniteSets, FS_Union, FS_CardinalityType
               DEF ServerInv, OneAtATime, ServerTypes, ClientsAssumption
        <3> QED
            BY <2>2, <2>3, <2>4, <3>1
    <2> QED
        BY <1>4, <2>5 DEF ServesNoMore, Answered, NoRuntimeIsReplaced, ServerInv, OneAtATime
<1> QED
    BY <1>1, <1>2, <1>3, <1>4

\* With threads or without, for any number of clients: no more of them are served at a time than
\* the limit says, each gets one response and is handled in part only when it has closed its side,
\* and a limited server serves no more requests and uses no runtime that another request replaced
\* (IntentApiServer::Run, HandleClient, EnsureControlRuntime).
THEOREM ServerCorrect ==
    ASSUME ClientsAssumption
    PROVE  Spec => [](/\ TypeOK /\ ThreadsBounded /\ AnsweredOnce /\ HandledWhole
                      /\ ~Threaded => ServesNoMore /\ NoRuntimeIsReplaced)
<1>1. Init => ServerInv
    BY ServerStart
<1>2. ServerInv /\ [Next]_vars => ServerInv'
    BY ServerNext
<1>3. ServerInv => /\ TypeOK /\ ThreadsBounded /\ AnsweredOnce /\ HandledWhole
                   /\ ~Threaded => ServesNoMore /\ NoRuntimeIsReplaced
    BY ServerKeeps
<1> QED
    BY <1>1, <1>2, <1>3, PTL DEF Spec
=============================================================================
