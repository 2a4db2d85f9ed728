--------------------------- MODULE EventDelivery ---------------------------
(***************************************************************************)
(* The event bus (core/event/src/EventBus.cpp) and the watcher of the      *)
(* file system that publishes on it (core/event/src/SystemWatchers.cpp).   *)
(*                                                                         *)
(* Publish copies the subscriptions under the lock and calls the handlers  *)
(* without it, so subscriptions change while an event is being delivered.  *)
(* The watcher's thread blocks in ReadDirectoryChangesW, which CancelIoEx  *)
(* ends only when it is already waiting.                                   *)
(***************************************************************************)
EXTENDS Integers, FiniteSets, SequencesExt

CONSTANTS
    Publishers,         \* other threads that publish
    Types,              \* event types; the watcher uses "FileSystemChanged" and "Error"
    MaxEvents,          \* bound: events published
    MaxSubscriptions    \* bound: subscriptions made

Watcher == "watcher"

DeliveryAssumption ==
    /\ Watcher \notin Publishers /\ {"FileSystemChanged", "Error"} \subseteq Types
    /\ MaxEvents \in Nat /\ MaxSubscriptions \in Nat

Threads == Publishers \cup {Watcher}

VARIABLES
    \* the bus
    subscriptions,      \* per type the ids subscribed, in order
    nextSubscriptionId,
    delivering,         \* per thread the event it is publishing and the ids it still has to call
    \* the watcher
    running,            \* running_
    handle,             \* directoryHandle_ is open
    watch,              \* WatchLoop: "none", "opening", "testing", "calling", "reading", "publishing", "failed"
    control,            \* the thread that controls the watcher: "idle", "cancel", "join", "close"
    cancelMissed,       \* history: CancelIoEx found nothing to cancel in this Stop
    \* history: per event its type, the ids it was due to and those that were called
    events

busVars == <<subscriptions, nextSubscriptionId>>
watcherVars == <<running, handle, watch, control, cancelMissed>>
vars == <<busVars, watcherVars, delivering, events>>

-----------------------------------------------------------------------------
Nothing == [event |-> 0, rest |-> <<>>]

Init ==
    /\ subscriptions = [t \in Types |-> <<>>] /\ nextSubscriptionId = 1
    /\ delivering = [p \in Threads |-> Nothing]
    /\ running = FALSE /\ handle = FALSE /\ watch = "none" /\ control = "idle" /\ cancelMissed = FALSE
    /\ events = <<>>

-----------------------------------------------------------------------------
\* The bus.

Subscribe(t) ==
    /\ nextSubscriptionId <= MaxSubscriptions
    /\ subscriptions' = [subscriptions EXCEPT ![t] = Append(@, nextSubscriptionId)]
    /\ nextSubscriptionId' = nextSubscriptionId + 1
    /\ UNCHANGED <<watcherVars, delivering, events>>

\* An id is subscribed once.
Unsubscribe(t, id) ==
    /\ \E k \in DOMAIN subscriptions[t] :
          subscriptions[t][k] = id /\ subscriptions' = [subscriptions EXCEPT ![t] = RemoveAt(@, k)]
    /\ UNCHANGED <<nextSubscriptionId, watcherVars, delivering, events>>

\* The copy under the lock.
Copied(p, t) ==
    /\ Len(events) < MaxEvents
    /\ delivering' = [delivering EXCEPT ![p] = [event |-> Len(events) + 1, rest |-> subscriptions[t]]]
    /\ events' = Append(events, [type |-> t, due |-> subscriptions[t], called |-> <<>>])

Publish(p, t) ==
    /\ delivering[p] = Nothing /\ Copied(p, t)
    /\ UNCHANGED <<busVars, watcherVars>>

RethrowHandler(p) ==   \* variant: an exception ends the loop
    \E threw \in BOOLEAN :
       delivering' = [delivering EXCEPT ![p].rest = IF threw THEN <<>> ELSE Tail(@)]

\* A handler returns or throws; the loop goes on.
AfterHandler(p) == delivering' = [delivering EXCEPT ![p].rest = Tail(@)]

CallHandler(p) ==
    /\ delivering[p].rest # <<>>
    /\ events' = [events EXCEPT ![delivering[p].event].called = Append(@, Head(delivering[p].rest))]
    /\ AfterHandler(p)
    /\ UNCHANGED <<busVars, watcherVars>>

Delivered(p) == delivering[p] # Nothing /\ delivering[p].rest = <<>>

EndPublish(p) ==
    /\ p # Watcher /\ Delivered(p)
    /\ delivering' = [delivering EXCEPT ![p] = Nothing]
    /\ UNCHANGED <<busVars, watcherVars, events>>

-----------------------------------------------------------------------------
\* FileSystemWatcher::WatchLoop.
\* A directory that does not open is an error event and the end of the thread; running_ stays.
Open ==
    /\ watch = "opening"
    /\ \/ handle' = TRUE /\ watch' = "testing" /\ UNCHANGED <<delivering, events>>
       \/ handle' = FALSE /\ watch' = "failed" /\ Copied(Watcher, "Error")
    /\ UNCHANGED <<busVars, running, control, cancelMissed>>

Test ==
    /\ watch = "testing"
    /\ watch' = IF running THEN "calling" ELSE "none"
    /\ UNCHANGED <<busVars, running, handle, control, cancelMissed, delivering, events>>

BeginRead ==
    /\ watch = "calling" /\ watch' = "reading"
    /\ UNCHANGED <<busVars, running, handle, control, cancelMissed, delivering, events>>

\* A change, or an overflow of the buffer that reports nothing.
Changed ==
    /\ watch = "reading"
    /\ \/ watch' = "publishing" /\ Copied(Watcher, "FileSystemChanged")
       \/ watch' = "testing" /\ UNCHANGED <<delivering, events>>
    /\ UNCHANGED <<busVars, running, handle, control, cancelMissed>>

\* The read fails: an error event, unless the watcher is being stopped.
ReadFails ==
    /\ watch = "reading"
    /\ IF running THEN watch' = "publishing" /\ Copied(Watcher, "Error")
       ELSE watch' = "testing" /\ UNCHANGED <<delivering, events>>
    /\ UNCHANGED <<busVars, running, handle, control, cancelMissed>>

WatcherPublished ==
    /\ watch \in {"publishing", "failed"} /\ Delivered(Watcher)
    /\ delivering' = [delivering EXCEPT ![Watcher] = Nothing]
    /\ watch' = IF watch = "failed" THEN "none" ELSE "testing"
    /\ UNCHANGED <<busVars, running, handle, control, cancelMissed, events>>

\* Start and Stop, by the one thread that controls the watcher.
Start ==
    /\ control = "idle" /\ ~running
    /\ running' = TRUE /\ watch' = "opening"
    /\ UNCHANGED <<busVars, handle, control, cancelMissed, delivering, events>>

Stop ==
    /\ control = "idle" /\ running
    /\ running' = FALSE /\ control' = "cancel"
    /\ UNCHANGED <<busVars, handle, watch, cancelMissed, delivering, events>>

\* CancelIoEx makes a read that waits fail. Without a handle it is not called.

Cancel ==
    /\ control = "cancel" /\ control' = "join"
    /\ IF handle /\ watch = "reading" THEN watch' = "testing" ELSE UNCHANGED watch
    /\ cancelMissed' = ~(handle /\ watch = "reading")

CancelRead == Cancel /\ UNCHANGED <<busVars, running, handle, delivering, events>>

Join == control = "join" /\ watch = "none" /\ control' = "close"

JoinWatcher == Join /\ UNCHANGED <<busVars, running, handle, watch, cancelMissed, delivering, events>>

CloseDirectory ==
    /\ control = "close" /\ control' = "idle"
    /\ handle' = FALSE
    /\ UNCHANGED <<busVars, running, watch, cancelMissed, delivering, events>>

WatcherThread == Open \/ Test \/ BeginRead \/ CallHandler(Watcher) \/ WatcherPublished
Environment == Changed \/ ReadFails
Controller == CancelRead \/ JoinWatcher \/ CloseDirectory

Next ==
    \/ \E t \in Types : Subscribe(t) \/ \E id \in 1..MaxSubscriptions : Unsubscribe(t, id)
    \/ \E p \in Publishers : (\E t \in Types : Publish(p, t)) \/ CallHandler(p) \/ EndPublish(p)
    \/ WatcherThread \/ Environment
    \/ Start \/ Stop \/ Controller

Spec == Init /\ [][Next]_vars

\* Threads are scheduled and handlers return. Nothing promises that a file ever changes.
Fairness == WF_vars(WatcherThread) /\ WF_vars(Controller)
FairSpec == Spec /\ Fairness

-----------------------------------------------------------------------------
\* The variables have the types of the members they stand for.
TypeOK ==
    /\ subscriptions \in [Types -> Seq(1..MaxSubscriptions)]
    /\ nextSubscriptionId \in 1..MaxSubscriptions + 1
    /\ delivering \in [Threads -> [event : 0..MaxEvents, rest : Seq(1..MaxSubscriptions)]]
    /\ running \in BOOLEAN /\ handle \in BOOLEAN /\ cancelMissed \in BOOLEAN
    /\ watch \in {"none", "opening", "testing", "calling", "reading", "publishing", "failed"}
    /\ control \in {"idle", "cancel", "join", "close"}
    /\ Len(events) <= MaxEvents
    /\ \A t \in Types : IsInjective(subscriptions[t])

\* Whatever handlers throw and whoever subscribes or leaves meanwhile: an event is delivered to
\* each subscriber of the moment it was published, once and in the order they subscribed.
DeliveredInOrder ==
    \A n \in DOMAIN events :
       LET open == {p \in Threads : delivering[p].event = n} IN
       /\ Cardinality(open) <= 1
       /\ IF open = {} THEN events[n].called = events[n].due
          ELSE events[n].called \o delivering[CHOOSE p \in open : TRUE].rest = events[n].due

\* When Stop has returned there is no thread and no open handle, so the watcher publishes
\* nothing until it is started again.
QuietAfterStop == control = "idle" /\ ~running => watch = "none" /\ ~handle

\* The directory is not closed, nor opened again, under a thread that uses it.
HandleHeld == watch \in {"testing", "calling", "reading", "publishing"} => handle

\* Stop returns, unless its cancellation came before the read it should have ended: then it
\* waits until a file changes.
StopReturnsUnlessMissed ==
    (control = "join") ~> (control = "idle" \/ (watch = "reading" /\ cancelMissed))
=============================================================================
