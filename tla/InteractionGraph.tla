-------------------------- MODULE InteractionGraph --------------------------
(***************************************************************************)
(* The interaction graph (core/interaction/src/InteractionGraph.cpp): how  *)
(* it is built from the elements of a snapshot, how two graphs are         *)
(* compared, and the endpoint that answers clients with what has changed   *)
(* since the version they hold (GET /interaction-graph of                  *)
(* interface/api/src/IntentApiServer.cpp). The capability graph            *)
(* (core/capability/src/CapabilityGraph.cpp) is built from the same        *)
(* elements.                                                               *)
(*                                                                         *)
(* Elements come from AccessibilityLayer::WalkTree: a tree in preorder,    *)
(* each with an id of its own. So the cache and the cycle guard of         *)
(* ResolveUiPath are not seen, nor is the fallback of BuildNodeId to an    *)
(* index. Hashes are taken as injective: an id or a digest is the tuple of *)
(* what is hashed.                                                         *)
(***************************************************************************)
EXTENDS Integers, FiniteSets, SequencesExt

CONSTANTS
    Desktops,       \* the sequences of elements that snapshots may show
    Clients,
    MaxVersion,     \* bound: snapshots
    MaxHistory      \* 128 in the code

ASSUME HistoryAssumption == MaxHistory \in Nat \ {0}

\* What AccessibilityLayer::WalkTree lists: each element under the one that names it as its parent,
\* which comes before it with nothing between but what is under it too.
Preorder(desktop) ==
    /\ desktop \in Seq([id : Nat \ {0}, parent : Nat, depth : Nat, type : STRING, label : STRING,
                       automation : STRING, shortcut : STRING,
                       offscreen : BOOLEAN, enabled : BOOLEAN, collapsed : BOOLEAN])
    /\ \A i, j \in DOMAIN desktop : desktop[i].id = desktop[j].id => i = j
    /\ \A i \in DOMAIN desktop :
          IF desktop[i].parent = 0 THEN desktop[i].depth = 0
          ELSE \E j \in 1..i - 1 :
                  /\ desktop[j].id = desktop[i].parent /\ desktop[i].depth = desktop[j].depth + 1
                  /\ \A k \in j + 1..i - 1 : desktop[k].depth > desktop[j].depth

ASSUME DesktopsAssumption == \A desktop \in Desktops : Preorder(desktop)

None == <<>>

-----------------------------------------------------------------------------
\* Identity.
ElementOf(desktop, id) == CHOOSE e \in ToSet(desktop) : e.id = id

ResolveUiPath(desktop, e) ==
    LET path[d \in ToSet(desktop)] ==
            (IF d.parent = 0 THEN <<>> ELSE path[ElementOf(desktop, d.parent)]) \o << <<d.type, d.label>> >>
    IN path[e]

SelectAutomationId(e) == IF e.automation = "" THEN <<e.id>> ELSE <<e.automation>>

IdentityKey(desktop, e) == <<ResolveUiPath(desktop, e), SelectAutomationId(e)>>

\* BuildNodeId, and the loop that numbers the elements of one identity in the order of the list.
NodeIdByIndex(desktop, i) == <<IdentityKey(desktop, desktop[i]), i>>     \* variant: the index tells them apart
NodeId(desktop, i) ==
    LET key == IdentityKey(desktop, desktop[i])
    IN <<key, Cardinality({j \in 1..i - 1 : IdentityKey(desktop, desktop[j]) = key})>>

NodeByUiElementId(desktop, id) == NodeId(desktop, CHOOSE i \in DOMAIN desktop : desktop[i].id = id)

\* A command is told apart by its place among the shortcuts.
WithShortcut(desktop) == {i \in DOMAIN desktop : desktop[i].shortcut # ""}
CommandNodeId(desktop, i) ==
    <<"command", NodeId(desktop, i), desktop[i].shortcut, Cardinality({j \in WithShortcut(desktop) : j < i})>>

-----------------------------------------------------------------------------
\* The contracts of a node.
Interactive == {"button", "text_box", "menu", "menu_item", "combo_box", "list_item", "document", "command"}

ActionForNodeType(type) ==
    CASE type \in {"text_box", "document"} -> "set_value"
      [] type \in {"menu", "menu_item", "combo_box", "list_item"} -> "select"
      [] OTHER -> "activate"

Step(action, target) == <<action, target>>

RevealStrategy(n) ==
    LET required == n.hidden \/ n.offscreen \/ n.collapsed
        steps == (IF n.collapsed /\ n.parentId # None THEN <<Step("expand_parent", n.parentId)>> ELSE <<>>)
              \o (IF n.hidden /\ n.parentId # None THEN <<Step("focus_parent", n.parentId)>> ELSE <<>>)
              \o (IF n.offscreen THEN <<Step("scroll_into_view", n.id)>> ELSE <<>>)
    IN [required |-> required,
        steps |-> IF ~required THEN <<>> ELSE IF steps = <<>> THEN <<Step("probe_visibility", n.id)>> ELSE steps]

\* A strategy is guaranteed as soon as it has a step, which it always has when it is required.
ExecutionPlan(n) ==
    LET interactive == n.type \in Interactive
    IN [steps |-> Append(RevealStrategy(n).steps,
                         Step(IF interactive THEN ActionForNodeType(n.type) ELSE "observe", n.id)),
        executable |-> interactive /\ n.enabled]

PopulateNodeContracts(n) ==
    [node |-> n, revealStrategy |-> RevealStrategy(n), executionPlan |-> ExecutionPlan(n),
     action |-> IF n.type \in Interactive THEN ActionForNodeType(n.type) ELSE "unknown"]

-----------------------------------------------------------------------------
\* InteractionGraphBuilder::Build.

ParentOf(desktop, e) == IF e.parent = 0 THEN None ELSE NodeByUiElementId(desktop, e.parent)

ElementNode(desktop, i) ==
    LET e == desktop[i]
        visible == ~e.offscreen
        id == NodeId(desktop, i)
    IN [id |-> id, label |-> e.label, type |-> e.type, visible |-> visible, enabled |-> e.enabled,
        offscreen |-> e.offscreen, collapsed |-> e.collapsed,
        hidden |-> ~visible \/ ~e.enabled \/ e.collapsed,
        parentId |-> ParentOf(desktop, e), uiElementId |-> e.id, shortcut |-> e.shortcut,
        children |-> {NodeId(desktop, j) : j \in {k \in DOMAIN desktop : desktop[k].parent = e.id}}
                        \cup (IF e.shortcut = "" THEN {} ELSE {CommandNodeId(desktop, i)})]

CommandNode(desktop, i) ==
    LET e == desktop[i]
    IN [id |-> CommandNodeId(desktop, i), label |-> e.label, type |-> "command", visible |-> TRUE,
        enabled |-> TRUE, offscreen |-> FALSE, collapsed |-> FALSE, hidden |-> FALSE,
        parentId |-> NodeId(desktop, i), uiElementId |-> NodeId(desktop, i), shortcut |-> e.shortcut,
        children |-> {}]

Build(desktop) ==
    LET built == {ElementNode(desktop, i) : i \in DOMAIN desktop}
              \cup {CommandNode(desktop, i) : i \in WithShortcut(desktop)}
    IN [id \in {n.id : n \in built} |-> PopulateNodeContracts(CHOOSE n \in built : n.id = id)]

\* GenerateIntents, without a limit.
GenerateIntents(graph, includeHidden) ==
    {id \in DOMAIN graph : graph[id].node.type \in Interactive /\ (includeHidden \/ ~graph[id].node.hidden)}

-----------------------------------------------------------------------------
\* ComputeDelta, on what StableNodeDigest reads of a node: not its reveal strategy.
StableNodeDigest(n) == <<n.node, n.executionPlan>>

ComputeDelta(base, current) ==
    [added |-> DOMAIN current \ DOMAIN base,
     removed |-> DOMAIN base \ DOMAIN current,
     updated |-> {id \in DOMAIN current \cap DOMAIN base :
                    StableNodeDigest(base[id]) # StableNodeDigest(current[id])},
     reset |-> FALSE]

NoDelta == [added |-> {}, removed |-> {}, updated |-> {}, reset |-> FALSE]
ResetRequired == [NoDelta EXCEPT !.reset = TRUE]

EmptyGraph == [id \in {} |-> None]

GraphOf == [d \in Desktops |-> Build(d)]

-----------------------------------------------------------------------------
\* CapabilityGraphBuilder::Build: an element whose parent is not named goes under the last one of
\* the depth above, or under the window.

DepthAnchor(desktop, i) ==
    LET above == {j \in 1..i - 1 : desktop[j].depth = desktop[i].depth - 1}
    IN IF above = {} THEN 0 ELSE desktop[CHOOSE j \in above : \A k \in above : k <= j].id

CapabilityParent(desktop, i) ==
    IF desktop[i].parent # 0 THEN desktop[i].parent ELSE DepthAnchor(desktop, i)

-----------------------------------------------------------------------------
VARIABLES
    desktop, version,   \* what the registry's snapshot shows, and its number
    graphHistory,       \* of [version, nodes]: the graphs of earlier answers
    request,            \* of a client: "none", or the graph its handler has captured
    held                \* of a client: [version, nodes, truth], what it has made of the answers,
                        \* and (observer) the graph it should have come to

vars == <<desktop, version, graphHistory, request, held>>

NoRequest == [version |-> 0, nodes |-> EmptyGraph]

Init ==
    /\ desktop \in Desktops /\ version = 1
    /\ graphHistory = <<>>
    /\ request = [c \in Clients |-> NoRequest]
    /\ held = [c \in Clients |-> [version |-> 0, nodes |-> EmptyGraph, truth |-> EmptyGraph]]

\* A new snapshot.
Observe ==
    /\ version < MaxVersion
    /\ desktop' \in Desktops /\ version' = version + 1
    /\ UNCHANGED <<graphHistory, request, held>>

\* CaptureEnvironmentState and EnsureUnifiedState.
Capture(c) ==
    /\ request[c] = NoRequest
    /\ request' = [request EXCEPT ![c] = [version |-> version, nodes |-> GraphOf[desktop]]]
    /\ UNCHANGED <<desktop, version, graphHistory, held>>

\* Under graphHistoryMutex_: the captured graph joins the history unless it is its last.
Remember(graph) ==
    IF graphHistory # <<>> /\ Last(graphHistory) = graph THEN graphHistory
    ELSE LET longer == Append(graphHistory, graph)
         IN IF Len(longer) > MaxHistory THEN Tail(longer) ELSE longer

BaseByNewest(since) ==   \* variant: the newest graph that is not the client's future
    LET found == {g \in ToSet(graphHistory') : g.version <= since}
    IN {g \in found : \A other \in found : other.version <= g.version}
Base(since) == {g \in ToSet(graphHistory') : g.version = since}

Delta(since, current) ==
    IF since = 0 THEN ComputeDelta(EmptyGraph, current.nodes)
    ELSE IF since = current.version THEN NoDelta
    ELSE IF Base(since) = {} THEN ResetRequired
    ELSE ComputeDelta((CHOOSE g \in Base(since) : TRUE).nodes, current.nodes)

\* What a client makes of an answer (external): it applies the delta, or takes the whole graph.
Applied(nodes, delta, current) ==
    IF delta.reset THEN current
    ELSE [id \in (DOMAIN nodes \ delta.removed) \cup delta.added |->
            IF id \in delta.added \cup delta.updated THEN current[id] ELSE nodes[id]]

Answer(c) ==
    LET current == request[c]
        delta == Delta(held[c].version, current)
    IN /\ current # NoRequest
       /\ graphHistory' = Remember(current)
       /\ held' = [held EXCEPT ![c] = [version |-> current.version,
                                       nodes |-> Applied(held[c].nodes, delta, current.nodes),
                                       truth |-> current.nodes]]
       /\ request' = [request EXCEPT ![c] = NoRequest]
       /\ UNCHANGED <<desktop, version>>

Next == Observe \/ \E c \in Clients : Capture(c) \/ Answer(c)

Spec == Init /\ [][Next]_vars

-----------------------------------------------------------------------------
\* A client that only applies deltas holds the graph its last answer was about, in every detail
\* that intents, plans and reveals are made from: whoever asked between, in whatever order the
\* handlers reached the history, and when its own graph has left the history.
DeltasAddUp == \A c \in Clients : held[c].nodes = held[c].truth

Graph == GraphOf[desktop]

\* Every element has a node of its own, elements of one name too, and so has every shortcut.
OneNodePerElement ==
    Cardinality(DOMAIN Graph) = Len(desktop) + Cardinality(WithShortcut(desktop))

\* A plan can be followed: every step of it targets a node of the graph; a node that is not shown
\* is revealed before it is acted on; and only enabled nodes that can be acted on are executable.
PlansCanBeFollowed ==
    \A id \in DOMAIN Graph :
        LET n == Graph[id]
            plan == n.executionPlan
        IN /\ \A i \in DOMAIN plan.steps : plan.steps[i][2] \in DOMAIN Graph
           /\ Last(plan.steps)[2] = id
           /\ n.node.hidden => Len(plan.steps) > 1
           /\ plan.executable => id \in GenerateIntents(Graph, TRUE)
           /\ plan.executable /\ id \notin GenerateIntents(Graph, FALSE) => n.revealStrategy.steps # <<>>

\* Parents and children name each other, and the capability graph has the same parents.
ParentsAgree ==
    /\ \A id \in DOMAIN Graph :
          /\ \A child \in Graph[id].node.children : Graph[child].node.parentId = id
          /\ Graph[id].node.parentId # None => id \in Graph[Graph[id].node.parentId].node.children
    /\ \A i \in DOMAIN desktop :
          LET p == CapabilityParent(desktop, i)
          IN /\ Graph[NodeId(desktop, i)].node.parentId = IF p = 0 THEN None ELSE NodeByUiElementId(desktop, p)
             /\ p = DepthAnchor(desktop, i)

\* An element keeps its node as long as its path and its automation id stay, whatever happens to
\* the order of the list and to the elements beside it, unless others share them.
Alone(d, key) == Cardinality({j \in DOMAIN d : IdentityKey(d, d[j]) = key}) = 1
KeepsIdentity ==
    \A i \in DOMAIN desktop, j \in DOMAIN desktop' :
        LET key == IdentityKey(desktop, desktop[i])
        IN key = IdentityKey(desktop', desktop'[j]) /\ Alone(desktop, key) /\ Alone(desktop', key)
           => NodeId(desktop, i) = NodeId(desktop', j)
IdentityIsKept == [][KeepsIdentity]_vars
=============================================================================
