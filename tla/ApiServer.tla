------------------------------ MODULE ApiServer ------------------------------
(***************************************************************************)
(* The connections of the HTTP API (IntentApiServer::Run,                  *)
(* interface/api/src/IntentApiServer.cpp): the accept loop, a detached     *)
(* thread for each client or, in the modes of a limited number of          *)
(* requests, one client after the other; the reading of a request with its *)
(* limits and timeouts; the live stream; and the control runtime that is   *)
(* made by the first request that needs one.                               *)
(*                                                                         *)
(* Bytes are counted in units: a head is KHead of them.                    *)
(***************************************************************************)
EXTENDS Integers, FiniteSets

CONSTANTS
    Conns,
    Requests,         \* [kind : {"plain", "start", "live"}, body : Nat], the body that the head declares
    KMaxConcurrentClients,   \* 16 in the code
    KPayload,         \* 1 MB in the code, for the request and for its body
    KHead, KBuffer,   \* units of a head, and at most in one recv
    MaxRequests,      \* 0 serves for ever, each client in a thread
    KEvents           \* of a live stream

ClientsAssumption ==
    /\ IsFiniteSet(Conns) /\ Requests \subseteq [kind : {"plain", "start", "live"}, body : Nat]
    /\ KMaxConcurrentClients \in Nat \ {0} /\ KHead \in Nat \ {0} /\ KBuffer \in Nat \ {0}
    /\ KPayload \in Nat /\ MaxRequests \in Nat /\ KEvents \in Nat

VARIABLES
    loop,             \* of Run: "accepting", "serving", "returned"
    activeClients, served,
    at,               \* [Conns -> "away", "queued", "reading", "handling", "making", "streaming", "closed", "gone"]
    request,
    received,         \* units
    peerDone,         \* the client has closed its side
    answers,          \* [Conns -> responses sent]
    events,
    runtimes,         \* control runtimes made so far: the last one is controlRuntime_, the others are destroyed
    using             \* [Conns -> the runtime that the thread holds a reference to, 0 = none]

vars == <<loop, activeClients, served, at, request, received, peerDone, answers, events, runtimes, using>>

Threaded == MaxRequests = 0

Init ==
    /\ loop = "accepting" /\ activeClients = 0 /\ served = 0
    /\ at = [c \in Conns |-> "away"] /\ request \in [Conns -> Requests]
    /\ received = [c \in Conns |-> 0] /\ peerDone = [c \in Conns |-> FALSE]
    /\ answers = [c \in Conns |-> 0] /\ events = [c \in Conns |-> 0]
    /\ runtimes = 0 /\ using = [c \in Conns |-> 0]

Go(c, place) == at' = [at EXCEPT ![c] = place]
Send(c) == answers' = [answers EXCEPT ![c] = @ + 1]

\* The client's side.
Connect(c) ==
    /\ at[c] = "away" /\ Go(c, "queued")
    /\ UNCHANGED <<loop, activeClients, served, request, received, peerDone, answers, events, runtimes, using>>

HangUp(c) ==
    /\ at[c] # "away" /\ ~peerDone[c] /\ peerDone' = [peerDone EXCEPT ![c] = TRUE]
    /\ UNCHANGED <<loop, activeClients, served, at, request, received, answers, events, runtimes, using>>

-----------------------------------------------------------------------------

Admitted(c) == activeClients < KMaxConcurrentClients

Accept(c) ==
    /\ loop = "accepting" /\ at[c] = "queued"
    /\ IF Threaded
       THEN /\ UNCHANGED loop
            /\ IF Admitted(c) THEN Go(c, "reading") /\ activeClients' = activeClients + 1 /\ UNCHANGED answers
               ELSE Go(c, "gone") /\ Send(c) /\ UNCHANGED activeClients
       ELSE loop' = "serving" /\ Go(c, "reading") /\ UNCHANGED <<activeClients, answers>>
    /\ UNCHANGED <<served, request, received, peerDone, events, runtimes, using>>

BodyNearlyThere(c, units) == units + 1 - KHead >= request[c].body   \* variant

BodyThere(c, units) == units - KHead >= request[c].body

TooLarge(c, units) == units > KPayload \/ (units >= KHead /\ request[c].body > KPayload)

\* A recv that brings units.
Receive(c) ==
    /\ at[c] = "reading" /\ ~peerDone[c]
    /\ \E n \in 1..KBuffer :
          LET units == received[c] + n
              tooLarge == TooLarge(c, units)
          IN /\ received' = [received EXCEPT ![c] = units]
             /\ \/ tooLarge /\ Go(c, "closed") /\ Send(c)
                \/ ~tooLarge /\ units >= KHead /\ BodyThere(c, units) /\ Go(c, "handling") /\ UNCHANGED answers
                \/ ~tooLarge /\ ~(units >= KHead /\ BodyThere(c, units)) /\ UNCHANGED <<at, answers>>
    /\ UNCHANGED <<loop, activeClients, served, request, peerDone, events, runtimes, using>>

\* A recv that finds the connection closed: what was received is the request.
ReceiveEnd(c) ==
    /\ at[c] = "reading" /\ peerDone[c]
    /\ IF received[c] = 0 THEN Go(c, "closed") /\ Send(c) ELSE Go(c, "handling") /\ UNCHANGED answers
    /\ UNCHANGED <<loop, activeClients, served, request, received, peerDone, events, runtimes, using>>

WaitForEver(c) == FALSE /\ UNCHANGED vars   \* variant: SO_RCVTIMEO is not set

\* SO_RCVTIMEO, or the connection fails.
ReceiveFails(c) ==
    /\ at[c] = "reading" /\ Go(c, "closed") /\ Send(c)
    /\ UNCHANGED <<loop, activeClients, served, request, received, peerDone, events, runtimes, using>>

\* EnsureControlRuntime looks at controlRuntime_ without a lock.
Handle(c) ==
    /\ at[c] = "handling"
    /\ CASE received[c] >= KHead /\ request[c].kind = "live" -> Go(c, "streaming") /\ Send(c) /\ UNCHANGED using
         [] received[c] >= KHead /\ request[c].kind = "start" ->
               (IF runtimes = 0 THEN Go(c, "making") /\ UNCHANGED using
                ELSE Go(c, "using") /\ using' = [using EXCEPT ![c] = runtimes]) /\ UNCHANGED answers
         [] OTHER -> Go(c, "closed") /\ Send(c) /\ UNCHANGED using
    /\ UNCHANGED <<loop, activeClients, served, request, received, peerDone, events, runtimes>>

\* The runtime that was there is destroyed.
MakeRuntime(c) ==
    /\ at[c] = "making" /\ Go(c, "using")
    /\ runtimes' = runtimes + 1 /\ using' = [using EXCEPT ![c] = runtimes']
    /\ UNCHANGED <<loop, activeClients, served, request, received, peerDone, answers, events>>

Answer(c) ==
    /\ at[c] = "using" /\ Go(c, "closed") /\ Send(c) /\ using' = [using EXCEPT ![c] = 0]
    /\ UNCHANGED <<loop, activeClients, served, request, received, peerDone, events, runtimes>>

\* One event, then a pause; a client that is gone makes a send fail sooner or later.
SendEvent(c) ==
    /\ at[c] = "streaming"
    /\ \/ events[c] < KEvents /\ events' = [events EXCEPT ![c] = @ + 1] /\ UNCHANGED at
       \/ (events[c] = KEvents \/ peerDone[c]) /\ Go(c, "closed") /\ UNCHANGED events
    /\ UNCHANGED <<loop, activeClients, served, request, received, peerDone, answers, runtimes, using>>

\* The socket is closed, then the thread counts itself out or the loop goes on.
Leave(c) ==
    /\ at[c] = "closed" /\ Go(c, "gone")
    /\ IF Threaded THEN activeClients' = activeClients - 1 /\ UNCHANGED <<loop, served>>
       ELSE /\ served' = served + 1 /\ UNCHANGED activeClients
            /\ loop' = IF served' >= MaxRequests THEN "returned" ELSE "accepting"
    /\ UNCHANGED <<request, received, peerDone, answers, events, runtimes, using>>

Serve(c) ==
    ReceiveEnd(c) \/ ReceiveFails(c) \/ Handle(c) \/ MakeRuntime(c) \/ Answer(c) \/ SendEvent(c) \/ Leave(c)

Next == \E c \in Conns : Connect(c) \/ HangUp(c) \/ Receive(c) \/ Accept(c) \/ Serve(c)

\* Threads run, and recv and send return: they have timeouts. Clients need not send.
Fairness == \A c \in Conns : WF_vars(Serve(c)) /\ WF_vars(Accept(c))

Spec == Init /\ [][Next]_vars /\ Fairness

-----------------------------------------------------------------------------
Threads == {c \in Conns : at[c] \in {"reading", "handling", "making", "using", "streaming", "closed"}}

\* Clients are in a known place; what a thread has buffered exceeds the limit by one recv at most.
TypeOK ==
    /\ loop \in {"accepting", "serving", "returned"} /\ runtimes \in 0..Cardinality(Conns)
    /\ \A c \in Conns : /\ received[c] <= KPayload + KBuffer /\ events[c] <= KEvents
                        /\ at[c] \in {"away", "queued", "gone"} \/ c \in Threads

\* The counter that admits clients is the number of threads there are, and it respects the limit,
\* although threads count themselves out at any time.
ThreadsBounded ==
    /\ Threaded => activeClients = Cardinality(Threads)
    /\ Cardinality(Threads) <= IF Threaded THEN KMaxConcurrentClients ELSE 1

\* A client gets one response: never two, and never none when its connection is closed.
AnsweredOnce == \A c \in Conns : answers[c] <= 1 /\ (at[c] \in {"closed", "gone"} => answers[c] = 1)

\* A request is handled in part only when its client has closed its side before the rest.
HandledWhole ==
    \A c \in Conns : at[c] \in {"handling", "making", "using", "streaming"} =>
        peerDone[c] \/ received[c] >= KHead + request[c].body

\* Every client is served in the end, whatever the others send or fail to send: one that is connected
\* finds its connection closed.
EveryClientIsServed == \A c \in Conns : at[c] = "queued" ~> at[c] = "gone"

\* The mode of a limited number of requests serves no more of them.
ServesNoMore == ~Threaded => served <= MaxRequests /\ Cardinality({c \in Conns : answers[c] > 0}) <= MaxRequests

\* While requests are served one after the other, none uses a control runtime that another has
\* replaced. (Threads that start the runtime at the same time may both make one.)
NoRuntimeIsReplaced == \A c \in Conns : using[c] # 0 => using[c] = runtimes
=============================================================================
