--------------------------- MODULE ActionPipeline ---------------------------
(***************************************************************************)
(* ActionExecutor::Act (core/action/src/ActionInterface.cpp) with what it  *)
(* runs: the resolver, the execution contract                              *)
(* (core/execution/src/ExecutionContract.cpp), the reveal executor         *)
(* (core/execution/src/RevealExecutor.cpp), the self-healing recovery, and *)
(* the two memories that learn from the outcome.                           *)
(*                                                                         *)
(* Every stage looks at the desktop anew and the desktop changes between   *)
(* any two looks, so a look has any answer. The engine is ExecutionEngine  *)
(* seen from outside: a call succeeds, verified or not, or fails. It never *)
(* reads the node id of an intent: it acts on an element that has the      *)
(* intent's label, or on the point the intent carries.                     *)
(***************************************************************************)
EXTENDS Integers, FiniteSets, Sequences

CONSTANTS
    Clients,        \* threads that call Act
    Nodes,          \* nodes of the interaction graph that match the query
    Orphans,        \* the nodes without a parent
    LabelOf,        \* the label of each node, "" for a node that has none
    Shapes,         \* what a look at a node can find; a collapsed node is hidden
    MaxActs         \* bound: calls of Act

ActionAssumption ==
    /\ Orphans \subseteq Nodes /\ MaxActs \in Nat /\ DOMAIN LabelOf = Nodes
    /\ Shapes \subseteq {s \in [hidden : BOOLEAN, offscreen : BOOLEAN, collapsed : BOOLEAN] : s.collapsed => s.hidden}

VARIABLES
    act,            \* per client: Act's local state
    learned,        \* g_actionMemory: successes per node, for the one query modelled
    stats,          \* ExecutionMemoryStore: successes and failures per node
    outcomes,       \* history: results that were returned or are about to be, as [node, status]
    started         \* history: calls begun

memoryVars == <<learned, stats>>
vars == <<act, memoryVars, outcomes, started>>

NoNode == "none"

Shown(shape) == ~shape.hidden /\ ~shape.offscreen

\* BuildRevealStrategy: one step for each thing that keeps the node from being seen, as far as
\* the graph knows what to act on; a look when it knows nothing.
RevealSteps(n, shape) ==
    LET When(needed, step) == IF needed THEN <<step>> ELSE <<>>
        steps == When(shape.collapsed /\ n \notin Orphans, "expand_parent")
              \o When(shape.hidden /\ n \notin Orphans, "focus_parent")
              \o When(shape.offscreen, "scroll_into_view")
    IN IF steps = <<>> THEN <<"probe_visibility">> ELSE steps

RetriesPerStep == 2     \* Execute's default argument
MaxSteps == 3

Idle == [pc |-> "idle", primary |-> NoNode, target |-> NoNode, attempt |-> 0,
         steps |-> <<>>, tries |-> 0, revealed |-> FALSE,
         stage |-> "", last |-> "none", trail |-> <<>>,
         actedOn |-> NoNode, status |-> "failure", reason |-> "", resultNode |-> NoNode,
         calls |-> 0, revealCalls |-> 0]

Init ==
    /\ act = [c \in Clients |-> Idle]
    /\ learned = [n \in Nodes |-> 0]
    /\ stats = [n \in Nodes |-> [success |-> 0, failure |-> 0]]
    /\ outcomes = <<>> /\ started = 0

\* Client c is at a place; it takes new values for some of its fields.
At(c, from) == act[c].pc = from
With(local, fields) == [f \in DOMAIN local |-> IF f \in DOMAIN fields THEN fields[f] ELSE local[f]]
Set(c, fields) == act' = [act EXCEPT ![c] = With(@, fields)]
KeepOthers == UNCHANGED <<memoryVars, outcomes, started>>

\* Act returns before it has a node to remember anything about.
Refuse(c, reason) == Set(c, [pc |-> "done", reason |-> reason])

-----------------------------------------------------------------------------
\* What an intent tells the adapters about its target: a label and a point on the screen.
BuildIntentForAction(n) == [label |-> LabelOf[n], screenCenter |-> n]

\* Recovery changes the node id, and the label of an intent that has none; the point stays.
BuildIntentFromNode(base, n) == IF base.label = "" THEN [base EXCEPT !.label = LabelOf[n]] ELSE base

\* The intent of client a's current attempt.
Carried(a) ==
    LET base == BuildIntentForAction(a.primary)
    IN IF a.attempt = 2 THEN BuildIntentFromNode(base, a.target) ELSE base

\* UiaAdapter takes the first element with the label, InputAdapter clicks on the point.
Addressed(intent) == {n \in Nodes : LabelOf[n] = intent.label} \cup {intent.screenCenter}

-----------------------------------------------------------------------------
\* Act, up to the contract.
Begin(c) ==
    /\ At(c, "idle") /\ started < MaxActs
    /\ started' = started + 1
    /\ \/ \E reason \in {"unsupported_action", "missing_target"} : Refuse(c, reason)
       \/ Set(c, [pc |-> "resolve"])
    /\ UNCHANGED <<memoryVars, outcomes>>

\* The best candidate, unless there is none or the second is as good.
Resolve(c) ==
    /\ At(c, "resolve")
    /\ \/ Refuse(c, "target_not_found")
       \/ \E n \in Nodes : \/ Set(c, [pc |-> "done", reason |-> "ambiguous_target", resultNode |-> n])
                           \/ Set(c, [pc |-> "lookup", primary |-> n])
    /\ KeepOthers

LookupTarget(c) ==
    /\ At(c, "lookup")
    /\ \/ \E reason \in {"state_unavailable", "graph_unavailable", "resolved_node_missing"} : Refuse(c, reason)
       \/ Set(c, [pc |-> "done", reason |-> "missing_value", resultNode |-> act[c].primary])
       \/ Set(c, [pc |-> "policy", resultNode |-> act[c].primary])
    /\ KeepOthers

\* The contract for one attempt on one node. Attempt 0 is Act's own, the others are recovery's.
Attempt(c, k, n, trail) ==
    Set(c, [pc |-> "contract", attempt |-> k, target |-> n, trail |-> trail, revealed |-> FALSE, stage |-> "",
            actedOn |-> NoNode])

CheckPolicy(c) ==
    /\ At(c, "policy")
    /\ \/ Set(c, [pc |-> "record", reason |-> "policy_denied"])
       \/ Attempt(c, 0, act[c].primary, <<>>)
    /\ KeepOthers

-----------------------------------------------------------------------------
\* ExecutionContract::Execute, with RevealExecutor::Execute.
EndContract(stage) == [pc |-> "judge", stage |-> stage]

StepDone(c, calls) == [steps |-> Tail(act[c].steps), tries |-> 0, revealCalls |-> calls]

ResolveNode(c) ==
    /\ At(c, "contract")
    /\ \/ Set(c, EndContract("resolve"))
       \/ \E shape \in Shapes :
             IF Shown(shape) THEN Set(c, [pc |-> "execute", revealed |-> TRUE])
             ELSE Set(c, [pc |-> "reveal", steps |-> RevealSteps(act[c].target, shape), tries |-> 0])
    /\ KeepOthers

\* A probe looks once.
ProbeVisibility(c) ==
    /\ At(c, "reveal") /\ act[c].steps # <<>> /\ Head(act[c].steps) = "probe_visibility"
    /\ \/ Set(c, StepDone(c, act[c].revealCalls))
       \/ Set(c, EndContract("reveal"))
    /\ KeepOthers

\* Other steps are engine calls on the parent or the node, repeated until one succeeds.

RevealStep(c) ==
    /\ At(c, "reveal") /\ act[c].steps # <<>> /\ Head(act[c].steps) # "probe_visibility"
    /\ LET calls == act[c].revealCalls + 1 IN
          \/ Set(c, StepDone(c, calls))
          \/ act[c].tries < RetriesPerStep /\ Set(c, [tries |-> act[c].tries + 1, revealCalls |-> calls])
          \/ act[c].tries = RetriesPerStep /\ Set(c, [pc |-> "judge", stage |-> "reveal", revealCalls |-> calls])
    /\ KeepOthers

VerifyRevealEarly(c) ==   \* variant: a step that fails ends the loop, not the reveal
    /\ At(c, "reveal")
    /\ \E seen \in BOOLEAN : Set(c, [pc |-> "execute", revealed |-> seen])
    /\ KeepOthers

\* When every step is done the node should be seen; if it is not, that is deferred to the
\* verification of the execution.
VerifyReveal(c) ==
    /\ At(c, "reveal") /\ act[c].steps = <<>>
    /\ \E seen \in BOOLEAN : Set(c, [pc |-> "execute", revealed |-> seen])
    /\ KeepOthers

Execute(c) ==
    /\ At(c, "execute")
    /\ \E outcome \in {"verified", "unverified", "failed"}, n \in Addressed(Carried(act[c])) :
          Set(c, [pc |-> "verify", last |-> outcome, calls |-> act[c].calls + 1,
                  actedOn |-> IF outcome = "failed" THEN NoNode ELSE n])
    /\ KeepOthers

\* VerifyOutcome: a success that is not verified counts only when the action is one on files and
\* the file system shows its effect.

VerifyOutcome(c, filesAgree) ==
    \/ act[c].last = "verified"
    \/ act[c].last = "unverified" /\ filesAgree

Verify(c) ==
    /\ At(c, "verify")
    /\ \E filesAgree \in BOOLEAN :
          Set(c, [pc |-> "judge", stage |-> IF VerifyOutcome(c, filesAgree) THEN "verified" ELSE "verify",
                  last |-> IF filesAgree /\ act[c].last = "unverified" THEN "verified" ELSE act[c].last])
    /\ KeepOthers

-----------------------------------------------------------------------------
\* What follows the contract: Act's own success, or RecoverAction.
Satisfied(c) == act[c].stage = "verified"

\* The trail after this attempt; Act's own is not on it.
Trail(c) == IF act[c].attempt = 0 THEN <<>> ELSE Append(act[c].trail, [id |-> act[c].attempt, success |-> Satisfied(c)])

AlternateSkipped(c) == Append(Trail(c), [id |-> 2, success |-> FALSE])

ActSucceeds(c) ==
    /\ At(c, "judge") /\ Satisfied(c)
    /\ Set(c, [pc |-> "learn", status |-> "success", reason |-> "", resultNode |-> act[c].target,
               trail |-> Trail(c)])
    /\ KeepOthers

Retry(c) ==
    /\ At(c, "judge") /\ ~Satisfied(c) /\ act[c].attempt = 0
    /\ Attempt(c, 1, act[c].primary, <<>>)
    /\ KeepOthers

Alternates(c) == Nodes \ {act[c].primary}

\* The query is resolved again for a node other than the primary; without one the second attempt
\* is noted as failed and the third follows at once.
TryAlternate(c) ==
    /\ At(c, "judge") /\ ~Satisfied(c) /\ act[c].attempt = 1
    /\ \/ \E n \in Alternates(c) : Attempt(c, 2, n, Trail(c))
       \/ Attempt(c, 3, act[c].primary, AlternateSkipped(c))
    /\ KeepOthers

FallbackReveal(c) ==
    /\ At(c, "judge") /\ ~Satisfied(c) /\ act[c].attempt = 2
    /\ Attempt(c, 3, act[c].primary, Trail(c))
    /\ KeepOthers

\* The reason Act gives is that of its own attempt.
GiveUp(c) ==
    /\ At(c, "judge") /\ ~Satisfied(c) /\ act[c].attempt = 3
    /\ Set(c, [pc |-> "record", reason |-> "exhausted", resultNode |-> act[c].primary, trail |-> Trail(c)])
    /\ KeepOthers

\* RecordSuccessfulResolution and ExecutionMemoryStore::Record, each under a lock of its own.
Learn(c) ==
    /\ At(c, "learn")
    /\ learned' = [learned EXCEPT ![act[c].resultNode] = @ + 1]
    /\ Set(c, [pc |-> "record"])
    /\ UNCHANGED <<stats, outcomes, started>>

RecordPrimary(c) ==   \* variant: the outcome is remembered for the node that was asked for
    /\ At(c, "record")
    /\ stats' = IF act[c].status = "success" THEN [stats EXCEPT ![act[c].primary].success = @ + 1]
                ELSE [stats EXCEPT ![act[c].primary].failure = @ + 1]
    /\ outcomes' = Append(outcomes, [node |-> act[c].resultNode, status |-> act[c].status])
    /\ Set(c, [pc |-> "done"])
    /\ UNCHANGED <<learned, started>>

Record(c) ==
    /\ At(c, "record")
    /\ stats' = IF act[c].status = "success" THEN [stats EXCEPT ![act[c].resultNode].success = @ + 1]
                ELSE [stats EXCEPT ![act[c].resultNode].failure = @ + 1]
    /\ outcomes' = Append(outcomes, [node |-> act[c].resultNode, status |-> act[c].status])
    /\ Set(c, [pc |-> "done"])
    /\ UNCHANGED <<learned, started>>

Return(c) ==
    /\ At(c, "done")
    /\ act' = [act EXCEPT ![c] = Idle]
    /\ KeepOthers

Contract(c) == ResolveNode(c) \/ ProbeVisibility(c) \/ RevealStep(c) \/ VerifyReveal(c) \/ Execute(c) \/ Verify(c)
Recovery(c) == ActSucceeds(c) \/ Retry(c) \/ TryAlternate(c) \/ FallbackReveal(c) \/ GiveUp(c)
Continue(c) ==
    Resolve(c) \/ LookupTarget(c) \/ CheckPolicy(c) \/ Contract(c) \/ Recovery(c) \/ Learn(c) \/ Record(c) \/ Return(c)

Next == \E c \in Clients : Begin(c) \/ Continue(c)

Spec == Init /\ [][Next]_vars

-----------------------------------------------------------------------------
\* The variables have the types of the members and locals they stand for.
TypeOK ==
    /\ \A c \in Clients :
          /\ act[c].pc \in {"idle", "resolve", "lookup", "policy", "contract", "reveal", "execute", "verify",
                            "judge", "learn", "record", "done"}
          /\ {act[c].primary, act[c].target, act[c].resultNode, act[c].actedOn} \subseteq Nodes \cup {NoNode}
          /\ act[c].attempt \in 0..3 /\ Len(act[c].trail) <= 3
          /\ Len(act[c].steps) <= MaxSteps /\ act[c].tries \in 0..RetriesPerStep
          /\ act[c].last \in {"none", "verified", "unverified", "failed"}
    /\ learned \in [Nodes -> 0..MaxActs]
    /\ stats \in [Nodes -> [success : 0..MaxActs, failure : 0..MaxActs]]
    /\ started \in 0..MaxActs

\* Bounded self-healing in a fixed order (docs/ai_sdk.md): Act's own attempt and three of
\* recovery, of which the trail tells, each with at most three tries per reveal step.
BoundedRecovery ==
    \A c \in Clients :
       /\ act[c].calls <= 4 /\ act[c].revealCalls <= 4 * MaxSteps * (RetriesPerStep + 1)
       /\ \A i \in DOMAIN act[c].trail :
             act[c].trail[i].id = i /\ (act[c].trail[i].success => i = Len(act[c].trail))

\* The second attempt of recovery is on a node other than the one that failed.
AlternateIsOther == \A c \in Clients : act[c].attempt = 2 => act[c].target # act[c].primary

Alike(m, n) == m = n \/ LabelOf[m] = LabelOf[n]

\* A success that is reported was verified, and reports the node the contract looked at and
\* revealed; a recovered one ends the trail. What was acted on is the node Act resolved, or one
\* with its label: so it is the reported node, or its like, except for the alternate, whose node
\* is reported although only an intent without a label ever reaches it. A failure has a reason.
SuccessIsVerified ==
    \A c \in Clients :
       /\ act[c].status = "success" =>
             /\ act[c].last = "verified" /\ act[c].resultNode = act[c].target
             /\ act[c].attempt # 2 => Alike(act[c].actedOn, act[c].resultNode)
             /\ ~Alike(act[c].actedOn, act[c].primary) =>
                   LabelOf[act[c].primary] = "" /\ Alike(act[c].actedOn, act[c].resultNode)
             /\ act[c].attempt > 0 => act[c].trail[Len(act[c].trail)] = [id |-> act[c].attempt, success |-> TRUE]
       /\ act[c].pc = "done" /\ act[c].status = "failure" => act[c].reason # ""

\* Nothing is executed after a verified execution, whatever else went wrong in the same Act.
NothingAfterVerified ==
    [][\A c \in Clients :
          act[c].last = "verified" /\ act'[c].pc # "idle" => act'[c].calls = act[c].calls]_vars

\* An action is executed on a node that was seen, or whose reveal steps have all succeeded.
ExecutedWhenRevealed ==
    [][\A c \in Clients :
          act'[c].calls > act[c].calls => act[c].revealed \/ act[c].steps = <<>>]_vars

Count(n, status) == Cardinality({i \in DOMAIN outcomes : outcomes[i] = [node |-> n, status |-> status]})

\* What the memories know is what happened: each Act that reached the policy check is counted
\* once, for the node of its result, and the resolver prefers a node only for its successes. The
\* two memories differ by the clients that are between them.
MemoriesAgree ==
    \A n \in Nodes :
       /\ stats[n].success = Count(n, "success") /\ stats[n].failure = Count(n, "failure")
       /\ learned[n] = stats[n].success
             + Cardinality({c \in Clients : At(c, "record") /\ act[c].status = "success" /\ act[c].resultNode = n})
=============================================================================
