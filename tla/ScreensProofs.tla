----------------------------- MODULE ScreensProofs -----------------------------
(***************************************************************************)
(* What clients see of the screen, for any desktops, screens, clients and  *)
(* bounds: what they make of the deltas is the graph and the frame that    *)
(* they were answered with, and the graph of a desktop has its shape.      *)
(***************************************************************************)
EXTENDS MCScreens, SequenceTheorems, FiniteSetTheorems, TLAPS

-----------------------------------------------------------------------------
\* The deltas of the interaction graph.

\* A built graph is a function of what its nodes show: two that show the same are the same, with
\* their plans and ways of revealing.
Shown(graph) == graph = [id \in DOMAIN graph |-> PopulateNodeContracts(graph[id].node)]

\* The graphs that are captured, remembered or held, and the one held before the first answer.
Known ==
    {graphHistory[i] : i \in DOMAIN graphHistory} \cup {request[c] : c \in Clients}
    \cup {[version |-> held[c].version, nodes |-> held[c].truth] : c \in Clients}

\* A version names one graph.
Sound(graphs) ==
    /\ \A g \in graphs : /\ g = [version |-> g.version, nodes |-> g.nodes]
                         /\ g.version \in 0..version /\ Shown(g.nodes)
                         /\ g.version = 0 => g = NoRequest
                         /\ g.version = version => g.nodes = GraphOf[desktop]
    /\ \A g, h \in graphs : g.version = h.version => g = h

DeltaInv ==
    /\ desktop \in Desktops /\ version \in Nat \ {0}
    /\ graphHistory \in Seq(Known)
    /\ request = [c \in Clients |-> request[c]] /\ held = [c \in Clients |-> held[c]]
    /\ Sound(Known)
    /\ DeltasAddUp

LEMMA BuiltShown ==
    ASSUME NEW d \in Desktops
    PROVE  Shown(GraphOf[d])
<1>1. \A n : PopulateNodeContracts(n).node = n
    BY DEF PopulateNodeContracts
<1>2. GraphOf[d] = Build(d)
    BY DEF GraphOf
<1>. QED
    BY <1>1, <1>2 DEF Build, Shown

LEMMA EmptyShown == Shown(EmptyGraph)
    BY DEF Shown, EmptyGraph

\* Whoever applies the delta from the graph that it holds has the other one.
LEMMA DeltaLeads ==
    ASSUME NEW base, NEW current, Shown(base), Shown(current)
    PROVE  Applied(base, ComputeDelta(base, current), current) = current
<1>. DEFINE delta == ComputeDelta(base, current)
            result == Applied(base, delta, current)
<1>1. /\ ~delta.reset
      /\ delta.added = DOMAIN current \ DOMAIN base
      /\ delta.removed = DOMAIN base \ DOMAIN current
      /\ delta.updated = {id \in DOMAIN current \cap DOMAIN base :
                            StableNodeDigest(base[id]) # StableNodeDigest(current[id])}
    BY DEF ComputeDelta
<1>2. result = [id \in DOMAIN current |->
                  IF id \in delta.added \cup delta.updated THEN current[id] ELSE base[id]]
  <2>1. (DOMAIN base \ delta.removed) \cup delta.added = DOMAIN current
    BY <1>1
  <2>. QED
    BY <1>1, <2>1 DEF Applied
<1>3. ASSUME NEW id \in DOMAIN current, id \notin delta.added \cup delta.updated
      PROVE  base[id] = current[id]
  <2>1. id \in DOMAIN base /\ StableNodeDigest(base[id]) = StableNodeDigest(current[id])
    BY <1>1, <1>3
  <2>2. base[id].node = current[id].node
    BY <2>1 DEF StableNodeDigest
  <2>. QED
    BY <2>1, <2>2 DEF Shown
<1>4. current = [id \in DOMAIN current |-> current[id]]
    BY DEF Shown
<1>. QED
    BY <1>2, <1>3, <1>4

LEMMA SoundAbout ==
    ASSUME NEW graphs, Sound(graphs), version \in Nat \ {0}
    PROVE  Sound(graphs \cup {NoRequest})
<1>1. /\ NoRequest = [version |-> NoRequest.version, nodes |-> NoRequest.nodes]
      /\ NoRequest.version = 0 /\ Shown(NoRequest.nodes)
    BY EmptyShown DEF NoRequest
<1>. QED
    BY <1>1 DEF Sound

LEMMA DeltasStart == Init => DeltaInv
<1>. SUFFICES ASSUME Init
              PROVE  DeltaInv
    OBVIOUS
<1>1. Known \subseteq {NoRequest}
    BY DEF Init, Known, NoRequest
<1>2. Sound({} \cup {NoRequest})
  <2>1. Sound({}) /\ version \in Nat \ {0}
      BY DEF Sound, Init
  <2>. QED
      BY <2>1, SoundAbout
<1>3. Sound(Known)
    BY <1>1, <1>2 DEF Sound
<1>. QED
    BY <1>3 DEF Init, DeltaInv, DeltasAddUp

LEMMA ObserveKeeps ==
    ASSUME DeltaInv, Observe
    PROVE  DeltaInv'
<1>1. Known' = Known
    BY DEF Known, Observe
<1>2. Sound(Known)'
    BY <1>1 DEF DeltaInv, Sound, Observe
<1>. QED
    BY <1>1, <1>2 DEF DeltaInv, Observe, DeltasAddUp

LEMMA CaptureKeeps ==
    ASSUME DeltaInv, NEW c \in Clients, Capture(c)
    PROVE  DeltaInv'
<1>. DEFINE captured == [version |-> version, nodes |-> GraphOf[desktop]]
<1>1. /\ captured.version = version /\ captured.nodes = GraphOf[desktop]
      /\ Shown(captured.nodes)
    BY BuiltShown DEF DeltaInv
<1>2. Sound(Known \cup {captured})
  <2>. HIDE DEF captured
  <2>1. \A g \in Known : g.version = version => g = captured
      BY DEF DeltaInv, Sound, captured
  <2>2. captured = [version |-> captured.version, nodes |-> captured.nodes]
      BY <1>1 DEF captured
  <2>. QED
      BY <1>1, <2>1, <2>2 DEF DeltaInv, Sound
<1>3. Known' \subseteq Known \cup {captured}
    BY DEF Known, Capture, DeltaInv
<1>4. Sound(Known)'
    BY <1>2, <1>3 DEF Sound, Capture, DeltaInv
<1>5. graphHistory' \in Seq(Known')
  <2>1. \A i \in 1..Len(graphHistory) : graphHistory[i] \in Known'
      BY DEF Known, Capture, DeltaInv
  <2>. QED
      BY <2>1, IsASeq DEF Capture, DeltaInv
<1>. QED
    BY <1>4, <1>5 DEF DeltaInv, Capture, DeltasAddUp

LEMMA Remembered ==
    ASSUME NEW S, graphHistory \in Seq(S), NEW g \in S
    PROVE  /\ Remember(g) \in Seq(S)
           /\ \A i \in DOMAIN Remember(g) : Remember(g)[i] = g \/ \E j \in DOMAIN graphHistory : Remember(g)[i] = graphHistory[j]
<1>. DEFINE longer == Append(graphHistory, g)
<1>1. /\ longer \in Seq(S) /\ Len(longer) = Len(graphHistory) + 1
      /\ \A i \in 1..Len(longer) : longer[i] = g \/ \E j \in DOMAIN graphHistory : longer[i] = graphHistory[j]
    OBVIOUS
<1>2. /\ Tail(longer) \in Seq(S) /\ Len(Tail(longer)) = Len(longer) - 1
      /\ \A i \in 1..Len(Tail(longer)) : Tail(longer)[i] = longer[i + 1]
    BY <1>1
<1>. HIDE DEF longer
<1>3. CASE Remember(g) = graphHistory
    BY <1>3
<1>4. CASE Remember(g) = longer
    BY <1>1, <1>4
<1>5. CASE Remember(g) = Tail(longer)
  <2>. HIDE DEF Remember
  <2>1. ASSUME NEW i \in DOMAIN Remember(g)
        PROVE  Remember(g)[i] = longer[i + 1] /\ i + 1 \in 1..Len(longer)
      BY <1>1, <1>2, <1>5
  <2>. QED
      BY <1>1, <1>2, <1>5, <2>1
<1>. QED
    BY <1>3, <1>4, <1>5 DEF Remember, longer

LEMMA AnswerKeeps ==
    ASSUME DeltaInv, NEW c \in Clients, Answer(c)
    PROVE  DeltaInv'
<1>. DEFINE current == request[c]
            since == held[c].version
            mine == [version |-> since, nodes |-> held[c].truth]
            delta == Delta(since, current)
            nodes == Applied(held[c].nodes, delta, current.nodes)
<1>1. /\ current \in Known /\ mine \in Known
      /\ mine.version = since /\ mine.nodes = held[c].truth /\ held[c].nodes = held[c].truth
    BY DEF Known, DeltaInv, DeltasAddUp
<1>2. /\ graphHistory' = Remember(current) /\ version' = version /\ desktop' = desktop
      /\ held' = [held EXCEPT ![c] = [version |-> current.version, nodes |-> nodes, truth |-> current.nodes]]
      /\ request' = [request EXCEPT ![c] = NoRequest]
    BY DEF Answer
<1>3. \A i \in DOMAIN graphHistory' : graphHistory'[i] \in Known
    BY <1>1, <1>2, Remembered DEF DeltaInv
<1>4. Known' \subseteq Known \cup {NoRequest}
  <2>1. \A d \in Clients : request'[d] \in Known \cup {NoRequest}
      BY <1>2 DEF DeltaInv, Known
  <2>2. \A d \in Clients : [version |-> held'[d].version, nodes |-> held'[d].truth] \in Known
    <3>. TAKE d \in Clients
    <3>1. CASE d = c
      <4>1. current = [version |-> current.version, nodes |-> current.nodes]
        BY <1>1 DEF DeltaInv, Sound
      <4>2. held'[c].version = current.version /\ held'[c].truth = current.nodes
        BY <1>2 DEF DeltaInv
      <4>. QED
        BY <1>1, <4>1, <4>2, <3>1
    <3>2. CASE d # c
      BY <1>2, <3>2 DEF DeltaInv, Known
    <3>. QED
      BY <3>1, <3>2
  <2>. QED
      BY <1>3, <2>1, <2>2 DEF Known
<1>5. Sound(Known)'
  <2>1. Sound(Known \cup {NoRequest})
      BY SoundAbout DEF DeltaInv
  <2>. QED
      BY <1>2, <1>4, <2>1 DEF Sound
<1>6. nodes = current.nodes
  <2>1. Shown(mine.nodes) /\ Shown(current.nodes)
      BY <1>1 DEF DeltaInv, Sound
  <2>2. CASE since = 0
    <3>1. mine = NoRequest
      BY <1>1, <2>2 DEF DeltaInv, Sound
    <3>2. mine.nodes = EmptyGraph
      BY <3>1 DEF NoRequest
    <3>. QED
      BY <1>1, <2>1, <2>2, <3>2, DeltaLeads DEF Delta
  <2>3. CASE since # 0 /\ since = current.version
    <3>1. mine = current
      BY <1>1, <2>3 DEF DeltaInv, Sound
    <3>2. delta = NoDelta
      BY <2>3 DEF Delta
    <3>3. nodes = [id \in DOMAIN held[c].nodes |-> held[c].nodes[id]]
      BY <3>2 DEF Applied, NoDelta
    <3>4. mine.nodes = [id \in DOMAIN mine.nodes |-> mine.nodes[id]]
      BY <2>1 DEF Shown
    <3>. HIDE DEF mine, nodes, current
    <3>. QED
      BY <1>1, <3>1, <3>3, <3>4
  <2>4. CASE since # 0 /\ since # current.version /\ Base(since) = {}
      BY <2>4 DEF Delta, Applied, ResetRequired, NoDelta
  <2>5. CASE since # 0 /\ since # current.version /\ Base(since) # {}
    <3>. DEFINE base == CHOOSE g \in Base(since) : TRUE
    <3>1. base \in Base(since)
      BY <2>5
    <3>2. base \in Known /\ base.version = since
      BY <3>1, <1>3 DEF Base, ToSet
    <3>3. base = mine
      BY <3>2, <1>1 DEF DeltaInv, Sound
    <3>4. delta = ComputeDelta(base.nodes, current.nodes)
      BY <2>5 DEF Delta
    <3>. HIDE DEF base, mine, current
    <3>5. nodes = Applied(mine.nodes, ComputeDelta(mine.nodes, current.nodes), current.nodes)
      BY <1>1, <3>3, <3>4
    <3>. QED
      BY <3>5, <2>1, DeltaLeads
  <2>. QED
      BY <2>2, <2>3, <2>4, <2>5
<1>7. DeltasAddUp'
  <2>. SUFFICES ASSUME NEW d \in Clients
                PROVE  held'[d].nodes = held'[d].truth
      BY DEF DeltasAddUp
  <2>1. held'[c].nodes = nodes /\ held'[c].truth = current.nodes
      BY <1>2 DEF DeltaInv
  <2>. HIDE DEF nodes, current
  <2>2. d # c => held'[d] = held[d]
      BY <1>2 DEF DeltaInv
  <2>. QED
      BY <1>6, <2>1, <2>2 DEF DeltaInv, DeltasAddUp
<1>8. graphHistory' \in Seq(Known')
  <2>1. graphHistory' \in Seq(Known)
      BY <1>1, <1>2, Remembered DEF DeltaInv
  <2>2. \A i \in 1..Len(graphHistory') : graphHistory'[i] \in Known'
      BY <2>1 DEF Known
  <2>. QED
      BY <2>1, <2>2, IsASeq
<1>. QED
    BY <1>2, <1>5, <1>7, <1>8 DEF DeltaInv

LEMMA DeltasStep == DeltaInv /\ [Next]_vars => DeltaInv'
<1>1. ASSUME DeltaInv, UNCHANGED vars
      PROVE  DeltaInv'
    BY <1>1 DEF vars, DeltaInv, Known, Sound, DeltasAddUp
<1>. QED
    BY <1>1, ObserveKeeps, CaptureKeeps, AnswerKeeps DEF Next

\* Whatever part moves, the graph's variables do what the endpoint's specification allows.
LEMMA GraphBehaves == ScreensSpec => Spec
<1>1. ScreensInit => Init
    BY DEF ScreensInit
<1>2. [ScreensNext]_screensVars => [Next]_vars
    BY DEF ScreensNext, DeltasNext, ShapeNext, Next, screensVars, vars
<1>. QED
    BY <1>1, <1>2, PTL DEF ScreensSpec, Spec

\* Whoever applies the deltas of GET /interaction-graph holds the graph that its last answer was
\* about, for any desktops, clients and length of the history, and in whatever order their handlers
\* reach it (IntentApiServer, InteractionGraphBuilder::ComputeDelta).
THEOREM GraphsAreCarried == ScreensSpec => []GraphDeltasAddUp
<1>1. Spec => []DeltaInv
    BY DeltasStart, DeltasStep, PTL DEF Spec
<1>2. DeltaInv => GraphDeltasAddUp
    BY DEF DeltaInv, GraphDeltasAddUp
<1>. QED
    BY <1>1, <1>2, GraphBehaves, PTL

-----------------------------------------------------------------------------
\* The shape of the graph.

LEMMA DistinctImages ==
    ASSUME NEW S, IsFiniteSet(S), NEW f, \A x, y \in S : f[x] = f[y] => x = y
    PROVE  /\ IsFiniteSet({f[x] : x \in S})
           /\ Cardinality({f[x] : x \in S}) = Cardinality(S)
<1>. DEFINE T == {f[x] : x \in S}
            g == [x \in S |-> f[x]]
<1>1. g \in Surjection(S, T)
    BY DEF Surjection
<1>2. g \in Injection(S, T)
    BY DEF Injection, IsInjective
<1>. HIDE DEF g, T
<1>3. IsFiniteSet(T) /\ Cardinality(T) = Cardinality(S)
    BY <1>1, <1>2, FS_Surjection
<1>. QED
    BY <1>3 DEF T

LEMMA DesktopFacts ==
    ASSUME NEW d \in Desktops
    PROVE  /\ Len(d) \in Nat /\ DOMAIN d = 1..Len(d)
           /\ \A i \in DOMAIN d : d[i].depth \in Nat /\ d[i].id \in Nat \ {0} /\ d[i].parent \in Nat
           /\ \A i, j \in DOMAIN d : d[i].id = d[j].id => i = j
<1>1. Preorder(d)
    BY DesktopsAssumption
<1>. DEFINE Elements == [id : Nat \ {0}, parent : Nat, depth : Nat, type : STRING, label : STRING,
                       automation : STRING, shortcut : STRING,
                       offscreen : BOOLEAN, enabled : BOOLEAN, collapsed : BOOLEAN]
<1>2. d \in Seq(Elements)
    BY <1>1 DEF Preorder
<1>3. \A e \in Elements : e.depth \in Nat /\ e.id \in Nat \ {0} /\ e.parent \in Nat
    OBVIOUS
<1>. HIDE DEF Elements
<1>4. Len(d) \in Nat /\ DOMAIN d = 1..Len(d) /\ \A i \in DOMAIN d : d[i] \in Elements
    BY <1>2
<1>. QED
    BY <1>1, <1>3, <1>4 DEF Preorder

\* The elements before the i-th that have its identity.
SameBefore(d, i) == {j \in 1..i - 1 : IdentityKey(d, d[j]) = IdentityKey(d, d[i])}

LEMMA SameBeforeFinite ==
    ASSUME NEW d \in Desktops, NEW i \in DOMAIN d
    PROVE  IsFiniteSet(SameBefore(d, i)) /\ Cardinality(SameBefore(d, i)) \in Nat
<1>1. IsFiniteSet(1..i - 1)
  <2>1. 1 \in Int /\ i - 1 \in Int
      BY DesktopFacts
  <2>. QED
      BY <2>1, FS_Interval
<1>2. SameBefore(d, i) \subseteq 1..i - 1
    BY DEF SameBefore
<1>. QED
    BY <1>1, <1>2, FS_Subset, FS_CardinalityType

LEMMA NodeIdIs ==
    ASSUME NEW d, NEW i
    PROVE  NodeId(d, i) = <<IdentityKey(d, d[i]), Cardinality(SameBefore(d, i))>>
    BY DEF NodeId, SameBefore

LEMMA RanksGrow ==
    ASSUME NEW d \in Desktops, NEW i \in DOMAIN d, NEW j \in DOMAIN d, i < j,
           IdentityKey(d, d[i]) = IdentityKey(d, d[j])
    PROVE  Cardinality(SameBefore(d, i)) < Cardinality(SameBefore(d, j))
<1>1. i \in Nat /\ j \in Nat /\ i > 0
    BY DesktopFacts
<1>2. i \notin SameBefore(d, i) /\ SameBefore(d, i) \cup {i} \subseteq SameBefore(d, j)
    BY <1>1 DEF SameBefore
<1>3. Cardinality(SameBefore(d, i) \cup {i}) = Cardinality(SameBefore(d, i)) + 1
    BY <1>2, SameBeforeFinite, FS_AddElement
<1>4. Cardinality(SameBefore(d, i) \cup {i}) <= Cardinality(SameBefore(d, j))
    BY <1>2, SameBeforeFinite, FS_Subset
<1>. QED
    BY <1>3, <1>4, SameBeforeFinite

LEMMA NodesApart ==
    ASSUME NEW d \in Desktops, NEW i \in DOMAIN d, NEW j \in DOMAIN d, NodeId(d, i) = NodeId(d, j)
    PROVE  i = j
<1>1. /\ IdentityKey(d, d[i]) = IdentityKey(d, d[j])
      /\ Cardinality(SameBefore(d, i)) = Cardinality(SameBefore(d, j))
    BY NodeIdIs
<1>2. i \in Nat /\ j \in Nat
    BY DesktopFacts
<1>3. ~(i < j) /\ ~(j < i)
    BY <1>1, RanksGrow, SameBeforeFinite
<1>. QED
    BY <1>2, <1>3

LEMMA CommandsApart ==
    ASSUME NEW d \in Desktops, NEW i \in WithShortcut(d)
    PROVE  /\ i \in DOMAIN d
           /\ \A j \in DOMAIN d : CommandNodeId(d, i) # NodeId(d, j)
           /\ \A j \in WithShortcut(d) : CommandNodeId(d, i) = CommandNodeId(d, j) => i = j
<1>1. i \in DOMAIN d
    BY DEF WithShortcut
<1>2. Len(CommandNodeId(d, i)) = 4 /\ \A j \in DOMAIN d : Len(NodeId(d, j)) = 2
    BY DEF CommandNodeId, NodeId
<1>3. \A j \in WithShortcut(d) : j \in DOMAIN d /\ CommandNodeId(d, j)[2] = NodeId(d, j)
    BY DEF CommandNodeId, WithShortcut
<1>4. ASSUME NEW j \in WithShortcut(d), CommandNodeId(d, i) = CommandNodeId(d, j)
      PROVE  i = j
    BY <1>3, <1>4, NodesApart
<1>. QED
    BY <1>1, <1>2, <1>4

\* Each element and each shortcut has its node.
LEMMA GraphShape ==
    ASSUME NEW d \in Desktops
    PROVE  /\ DOMAIN Build(d) = {NodeId(d, i) : i \in DOMAIN d} \cup {CommandNodeId(d, i) : i \in WithShortcut(d)}
           /\ \A i \in DOMAIN d : Build(d)[NodeId(d, i)] = PopulateNodeContracts(ElementNode(d, i))
           /\ \A i \in WithShortcut(d) :
                 Build(d)[CommandNodeId(d, i)] = PopulateNodeContracts(CommandNode(d, i))
<1>. DEFINE built == {ElementNode(d, i) : i \in DOMAIN d} \cup {CommandNode(d, i) : i \in WithShortcut(d)}
            chosen(id) == CHOOSE n \in built : n.id = id
<1>1. Build(d) = [id \in {n.id : n \in built} |-> PopulateNodeContracts(chosen(id))]
    BY DEF Build
<1>2. /\ \A i \in DOMAIN d : ElementNode(d, i).id = NodeId(d, i)
      /\ \A i \in WithShortcut(d) : CommandNode(d, i).id = CommandNodeId(d, i)
    BY DEF ElementNode, CommandNode
<1>3. {n.id : n \in built} = {NodeId(d, i) : i \in DOMAIN d} \cup {CommandNodeId(d, i) : i \in WithShortcut(d)}
    BY <1>2
<1>4. ASSUME NEW i \in DOMAIN d
      PROVE  chosen(NodeId(d, i)) = ElementNode(d, i)
  <2>1. \A n \in built : n.id = NodeId(d, i) => n = ElementNode(d, i)
      BY <1>2, NodesApart, CommandsApart
  <2>2. ElementNode(d, i) \in built /\ ElementNode(d, i).id = NodeId(d, i)
      BY <1>2
  <2>. HIDE DEF built
  <2>. QED
      BY <2>1, <2>2
<1>5. ASSUME NEW i \in WithShortcut(d)
      PROVE  chosen(CommandNodeId(d, i)) = CommandNode(d, i)
  <2>1. \A n \in built : n.id = CommandNodeId(d, i) => n = CommandNode(d, i)
      BY <1>2, CommandsApart
  <2>2. CommandNode(d, i) \in built /\ CommandNode(d, i).id = CommandNodeId(d, i)
      BY <1>2
  <2>. HIDE DEF built
  <2>. QED
      BY <2>1, <2>2
<1>. HIDE DEF built, chosen
<1>. QED
    BY <1>1, <1>3, <1>4, <1>5

LEMMA NodesCounted ==
    ASSUME NEW d \in Desktops
    PROVE  Cardinality(DOMAIN Build(d)) = Len(d) + Cardinality(WithShortcut(d))
<1>. DEFINE nodes == [i \in DOMAIN d |-> NodeId(d, i)]
            commands == [i \in WithShortcut(d) |-> CommandNodeId(d, i)]
            N == {nodes[i] : i \in DOMAIN d}
            C == {commands[i] : i \in WithShortcut(d)}
<1>1. DOMAIN d = 1..Len(d) /\ Len(d) \in Nat
    BY DesktopFacts
<1>2. IsFiniteSet(DOMAIN d) /\ Cardinality(DOMAIN d) = Len(d) /\ IsFiniteSet(WithShortcut(d))
  <2>1. IsFiniteSet(1..Len(d)) /\ Cardinality(1..Len(d)) = Len(d)
    <3>1. IsFiniteSet(1..Len(d)) /\ Cardinality(1..Len(d)) = IF 1 > Len(d) THEN 0 ELSE Len(d) - 1 + 1
      BY <1>1, FS_Interval
    <3>. QED
      BY <1>1, <3>1
  <2>2. WithShortcut(d) \subseteq 1..Len(d)
      BY <1>1 DEF WithShortcut
  <2>. QED
      BY <1>1, <2>1, <2>2, FS_Subset
<1>3. \A i, j \in DOMAIN d : nodes[i] = nodes[j] => i = j
    BY NodesApart
<1>4. \A i, j \in WithShortcut(d) : commands[i] = commands[j] => i = j
    BY CommandsApart
<1>5. N \cap C = {}
    BY CommandsApart
<1>6. DOMAIN Build(d) = N \cup C
    BY GraphShape
<1>. HIDE DEF nodes, commands
<1>7. IsFiniteSet(N) /\ Cardinality(N) = Len(d)
    BY <1>2, <1>3, DistinctImages
<1>8. IsFiniteSet(C) /\ Cardinality(C) = Cardinality(WithShortcut(d))
    BY <1>2, <1>4, DistinctImages
<1>. HIDE DEF N, C
<1>9. Cardinality(N \cup C) = Cardinality(N) + Cardinality(C) - 0
    BY <1>5, <1>7, <1>8, FS_Union, FS_EmptySet
<1>. QED
    BY <1>1, <1>2, <1>6, <1>7, <1>8, <1>9, FS_CardinalityType

-----------------------------------------------------------------------------
\* Parents.

LEMMA ParentNode ==
    ASSUME NEW d \in Desktops, NEW i \in DOMAIN d, d[i].parent # 0
    PROVE  \E j \in DOMAIN d : /\ d[j].id = d[i].parent /\ NodeByUiElementId(d, d[i].parent) = NodeId(d, j)
                               /\ j < i /\ d[i].depth = d[j].depth + 1
                               /\ \A k \in j + 1..i - 1 : d[k].depth > d[j].depth
<1>1. PICK j \in 1..i - 1 : /\ d[j].id = d[i].parent /\ d[i].depth = d[j].depth + 1
                            /\ \A k \in j + 1..i - 1 : d[k].depth > d[j].depth
    BY DesktopsAssumption DEF Preorder
<1>2. j \in DOMAIN d /\ j < i
    BY DesktopFacts
<1>3. (CHOOSE k \in DOMAIN d : d[k].id = d[i].parent) = j
    BY <1>1, <1>2, DesktopFacts
<1>. QED
    BY <1>1, <1>2, <1>3 DEF NodeByUiElementId

\* The last element of the depth above is the parent.
LEMMA AnchorIsParent ==
    ASSUME NEW d \in Desktops, NEW i \in DOMAIN d
    PROVE  DepthAnchor(d, i) = d[i].parent
<1>. DEFINE above == {j \in 1..i - 1 : d[j].depth = d[i].depth - 1}
<1>1. i \in 1..Len(d) /\ Len(d) \in Nat /\ \A j \in DOMAIN d : d[j].depth \in Nat /\ d[j].id \in Nat
    BY DesktopFacts
<1>2. CASE d[i].parent = 0
  <2>1. d[i].depth = 0
      BY <1>2, DesktopsAssumption DEF Preorder
  <2>2. \A j \in 1..i - 1 : d[j].depth \in Nat
      BY <1>1
  <2>3. above = {}
      BY <2>1, <2>2
  <2>. QED
      BY <2>3, <1>2 DEF DepthAnchor
<1>3. CASE d[i].parent # 0
  <2>1. PICK j \in DOMAIN d : /\ d[j].id = d[i].parent /\ j < i /\ d[i].depth = d[j].depth + 1
                              /\ \A k \in j + 1..i - 1 : d[k].depth > d[j].depth
      BY <1>3, ParentNode
  <2>2. j \in above
      BY <1>1, <2>1
  <2>3. \A k \in above : k <= j
    <3>1. ASSUME NEW k \in above, ~(k <= j)
          PROVE  FALSE
      <4>1. k \in j + 1..i - 1 /\ k \in DOMAIN d
          BY <1>1, <3>1
      <4>. QED
          BY <1>1, <2>1, <4>1
    <3>. QED
      BY <3>1
  <2>4. \A k \in above : (\A m \in above : m <= k) => k = j
      BY <1>1, <2>2, <2>3
  <2>. HIDE DEF above
  <2>5. (CHOOSE k \in above : \A m \in above : m <= k) = j
      BY <2>2, <2>3, <2>4
  <2>6. DepthAnchor(d, i) = d[CHOOSE k \in above : \A m \in above : m <= k].id
      BY <2>2 DEF DepthAnchor, above
  <2>. QED
      BY <2>1, <2>5, <2>6
<1>. QED
    BY <1>2, <1>3

LEMMA NodeFacts ==
    ASSUME desktop \in Desktops
    PROVE  /\ DOMAIN Graph = {NodeId(desktop, i) : i \in DOMAIN desktop}
                                \cup {CommandNodeId(desktop, i) : i \in WithShortcut(desktop)}
           /\ \A i \in DOMAIN desktop : /\ Graph[NodeId(desktop, i)] = PopulateNodeContracts(ElementNode(desktop, i))
                                        /\ Graph[NodeId(desktop, i)].node = ElementNode(desktop, i)
           /\ \A i \in WithShortcut(desktop) :
                 /\ i \in DOMAIN desktop
                 /\ Graph[CommandNodeId(desktop, i)] = PopulateNodeContracts(CommandNode(desktop, i))
                 /\ Graph[CommandNodeId(desktop, i)].node = CommandNode(desktop, i)
<1>1. Graph = Build(desktop)
    BY DEF Graph, GraphOf
<1>2. \A n : PopulateNodeContracts(n).node = n
    BY DEF PopulateNodeContracts
<1>. QED
    BY <1>1, <1>2, GraphShape, CommandsApart

ElementsBelow(i) == {NodeId(desktop, j) : j \in {k \in DOMAIN desktop : desktop[k].parent = desktop[i].id}}

LEMMA ElementFacts ==
    ASSUME desktop \in Desktops, NEW i \in DOMAIN desktop
    PROVE  LET node == Graph[NodeId(desktop, i)].node IN
           /\ node.id = NodeId(desktop, i)
           /\ node.parentId = ParentOf(desktop, desktop[i])
           /\ \A child : child \in node.children <=>
                 child \in ElementsBelow(i) \/ (i \in WithShortcut(desktop) /\ child = CommandNodeId(desktop, i))
<1>1. Graph[NodeId(desktop, i)].node = ElementNode(desktop, i)
    BY NodeFacts
<1>2. /\ ElementNode(desktop, i).id = NodeId(desktop, i)
      /\ ElementNode(desktop, i).parentId = ParentOf(desktop, desktop[i])
      /\ ElementNode(desktop, i).children =
            ElementsBelow(i) \cup (IF desktop[i].shortcut = "" THEN {} ELSE {CommandNodeId(desktop, i)})
    BY DEF ElementNode, ElementsBelow
<1>3. i \in WithShortcut(desktop) <=> desktop[i].shortcut # ""
    BY DEF WithShortcut
<1>. QED
    BY <1>1, <1>2, <1>3

LEMMA CommandFacts ==
    ASSUME desktop \in Desktops, NEW i \in WithShortcut(desktop)
    PROVE  LET node == Graph[CommandNodeId(desktop, i)].node IN
           /\ node.id = CommandNodeId(desktop, i) /\ node.parentId = NodeId(desktop, i) /\ node.children = {}
<1>1. Graph[CommandNodeId(desktop, i)].node = CommandNode(desktop, i)
    BY NodeFacts
<1>2. /\ CommandNode(desktop, i).id = CommandNodeId(desktop, i)
      /\ CommandNode(desktop, i).parentId = NodeId(desktop, i)
      /\ CommandNode(desktop, i).children = {}
    BY DEF CommandNode
<1>. QED
    BY <1>1, <1>2

\* The parent of an element's node is the node of the element above it.
LEMMA ParentIs ==
    ASSUME NEW d \in Desktops, NEW i \in DOMAIN d
    PROVE  \/ d[i].parent = 0 /\ ParentOf(d, d[i]) = None
           \/ \E j \in DOMAIN d : d[j].id = d[i].parent /\ ParentOf(d, d[i]) = NodeId(d, j)
    BY ParentNode DEF ParentOf

LEMMA ChildrenNameParents ==
    ASSUME desktop \in Desktops, NEW i \in DOMAIN desktop,
           NEW child \in Graph[NodeId(desktop, i)].node.children
    PROVE  Graph[child].node.parentId = NodeId(desktop, i)
<1>1. CASE child \in ElementsBelow(i)
  <2>1. PICK j \in DOMAIN desktop : desktop[j].parent = desktop[i].id /\ child = NodeId(desktop, j)
      BY <1>1 DEF ElementsBelow
  <2>2. desktop[j].parent # 0
      BY <2>1, DesktopFacts
  <2>3. PICK k \in DOMAIN desktop : /\ desktop[k].id = desktop[j].parent
                                    /\ ParentOf(desktop, desktop[j]) = NodeId(desktop, k)
      BY <2>2, ParentIs
  <2>4. k = i
      BY <2>1, <2>3, DesktopFacts
  <2>5. Graph[NodeId(desktop, j)].node.parentId = ParentOf(desktop, desktop[j])
      BY ElementFacts
  <2>. QED
      BY <2>1, <2>3, <2>4, <2>5
<1>2. CASE i \in WithShortcut(desktop) /\ child = CommandNodeId(desktop, i)
    BY <1>2, CommandFacts
<1>. QED
    BY <1>1, <1>2, ElementFacts

LEMMA ParentsNameChildren ==
    ASSUME desktop \in Desktops, NEW i \in DOMAIN desktop, ParentOf(desktop, desktop[i]) # None
    PROVE  /\ ParentOf(desktop, desktop[i]) \in DOMAIN Graph
           /\ NodeId(desktop, i) \in Graph[ParentOf(desktop, desktop[i])].node.children
<1>1. PICK j \in DOMAIN desktop : desktop[j].id = desktop[i].parent
                                  /\ ParentOf(desktop, desktop[i]) = NodeId(desktop, j)
    BY ParentIs
<1>2. NodeId(desktop, i) \in ElementsBelow(j)
    BY <1>1 DEF ElementsBelow
<1>3. NodeId(desktop, i) \in Graph[NodeId(desktop, j)].node.children
    BY <1>2, ElementFacts
<1>4. NodeId(desktop, j) \in DOMAIN Graph
    BY NodeFacts
<1>. QED
    BY <1>1, <1>3, <1>4

LEMMA ParentsAlwaysAgree == desktop \in Desktops => ParentsAgree
<1>. SUFFICES ASSUME desktop \in Desktops
              PROVE  ParentsAgree
    OBVIOUS
<1>. DEFINE Agree(id) == /\ \A child \in Graph[id].node.children : Graph[child].node.parentId = id
                         /\ Graph[id].node.parentId # None => id \in Graph[Graph[id].node.parentId].node.children
<1>1. ASSUME NEW i \in DOMAIN desktop
      PROVE  Agree(NodeId(desktop, i))
  <2>1. Graph[NodeId(desktop, i)].node.parentId = ParentOf(desktop, desktop[i])
      BY ElementFacts
  <2>. QED
      BY <2>1, ChildrenNameParents, ParentsNameChildren
<1>2. ASSUME NEW i \in WithShortcut(desktop)
      PROVE  Agree(CommandNodeId(desktop, i))
  <2>1. /\ Graph[CommandNodeId(desktop, i)].node.parentId = NodeId(desktop, i)
        /\ Graph[CommandNodeId(desktop, i)].node.children = {}
      BY CommandFacts
  <2>2. i \in DOMAIN desktop
      BY DEF WithShortcut
  <2>3. CommandNodeId(desktop, i) \in Graph[NodeId(desktop, i)].node.children
      BY <2>2, ElementFacts
  <2>. QED
      BY <2>1, <2>3
<1>3. ASSUME NEW i \in DOMAIN desktop
      PROVE  LET p == CapabilityParent(desktop, i)
             IN /\ Graph[NodeId(desktop, i)].node.parentId = IF p = 0 THEN None ELSE NodeByUiElementId(desktop, p)
                /\ p = DepthAnchor(desktop, i)
  <2>1. DepthAnchor(desktop, i) = desktop[i].parent
      BY AnchorIsParent
  <2>2. CapabilityParent(desktop, i) = desktop[i].parent
      BY <2>1 DEF CapabilityParent
  <2>3. Graph[NodeId(desktop, i)].node.parentId =
           IF desktop[i].parent = 0 THEN None ELSE NodeByUiElementId(desktop, desktop[i].parent)
    <3>1. Graph[NodeId(desktop, i)].node.parentId = ParentOf(desktop, desktop[i])
        BY ElementFacts
    <3>. QED
        BY <3>1 DEF ParentOf
  <2>. QED
      BY <2>1, <2>2, <2>3
<1>4. \A id \in DOMAIN Graph : Agree(id)
  <2>. HIDE DEF Agree
  <2>. QED
      BY <1>1, <1>2, NodeFacts
<1>. QED
    BY <1>3, <1>4 DEF ParentsAgree

-----------------------------------------------------------------------------
\* Plans.

\* The nodes that a plan for n may touch.
Targets(n) == {n.id} \cup (IF n.parentId # None THEN {n.parentId} ELSE {})

LEMMA PlanFacts ==
    ASSUME NEW n
    PROVE  LET steps == ExecutionPlan(n).steps IN
           /\ \A i \in DOMAIN steps : steps[i][2] \in Targets(n)
           /\ Last(steps)[2] = n.id
           /\ n.hidden => Len(steps) > 1 /\ RevealStrategy(n).steps # <<>>
<1>. DEFINE Actions == {"expand_parent", "focus_parent", "scroll_into_view", "probe_visibility",
                        "set_value", "select", "activate", "observe"}
            Steps == Actions \X Targets(n)
            expand == IF n.collapsed /\ n.parentId # None THEN <<Step("expand_parent", n.parentId)>> ELSE <<>>
            focus == IF n.hidden /\ n.parentId # None THEN <<Step("focus_parent", n.parentId)>> ELSE <<>>
            scroll == IF n.offscreen THEN <<Step("scroll_into_view", n.id)>> ELSE <<>>
            reveal == RevealStrategy(n).steps
            last == Step(IF n.type \in Interactive THEN ActionForNodeType(n.type) ELSE "observe", n.id)
<1>0. /\ \A action \in Actions, target \in Targets(n) :
            Step(action, target) \in Steps /\ Step(action, target)[2] = target
      /\ n.id \in Targets(n) /\ (n.parentId # None => n.parentId \in Targets(n))
  <2>1. n.id \in Targets(n) /\ (n.parentId # None => n.parentId \in Targets(n))
      BY DEF Targets
  <2>. HIDE DEF Actions
  <2>. QED
      BY <2>1 DEF Step
<1>1. \A s \in Steps : s[2] \in Targets(n)
    OBVIOUS
<1>2. expand \in Seq(Steps) /\ focus \in Seq(Steps) /\ scroll \in Seq(Steps)
  <2>1. n.parentId # None =>
           Step("expand_parent", n.parentId) \in Steps /\ Step("focus_parent", n.parentId) \in Steps
      BY <1>0
  <2>2. Step("scroll_into_view", n.id) \in Steps
      BY <1>0
  <2>3. \A s \in Steps : <<s>> \in Seq(Steps)
      OBVIOUS
  <2>4. <<>> \in Seq(Steps)
      OBVIOUS
  <2>. HIDE DEF Steps
  <2>. QED
      BY <2>1, <2>2, <2>3, <2>4
<1>3. <<Step("probe_visibility", n.id)>> \in Seq(Steps)
  <2>1. Step("probe_visibility", n.id) \in Steps
      BY <1>0
  <2>. HIDE DEF Steps
  <2>. QED
      BY <2>1
<1>4. /\ reveal \in Seq(Steps)
      /\ n.hidden => reveal # <<>>
  <2>. DEFINE all == expand \o focus \o scroll
  <2>1. reveal = IF ~(n.hidden \/ n.offscreen \/ n.collapsed) THEN <<>>
                 ELSE IF all = <<>> THEN <<Step("probe_visibility", n.id)>> ELSE all
      BY DEF RevealStrategy
  <2>. HIDE DEF expand, focus, scroll, Steps, reveal
  <2>2. all \in Seq(Steps)
      BY <1>2
  <2>. HIDE DEF all
  <2>3. <<Step("probe_visibility", n.id)>> # <<>>
      OBVIOUS
  <2>. QED
      BY <1>3, <2>1, <2>2, <2>3
<1>5. last[2] = n.id /\ last \in Steps
  <2>1. ActionForNodeType(n.type) \in Actions
      BY DEF ActionForNodeType
  <2>. HIDE DEF Steps
  <2>. QED
      BY <1>0, <2>1
<1>6. ExecutionPlan(n).steps = Append(reveal, last)
    BY DEF ExecutionPlan
<1>. HIDE DEF reveal, last, Steps
<1>7. /\ Append(reveal, last) \in Seq(Steps) /\ Len(Append(reveal, last)) = Len(reveal) + 1
      /\ Append(reveal, last)[Len(reveal) + 1] = last
    BY <1>4, <1>5
<1>8. Last(Append(reveal, last)) = last
    BY <1>7 DEF Last
<1>9. n.hidden => Len(reveal) > 0
    BY <1>4
<1>. QED
    BY <1>1, <1>4, <1>5, <1>6, <1>7, <1>8, <1>9 DEF reveal

LEMMA PlansReachable ==
    ASSUME desktop \in Desktops, NEW id \in DOMAIN Graph
    PROVE  /\ Graph[id] = PopulateNodeContracts(Graph[id].node) /\ Graph[id].node.id = id
           /\ Targets(Graph[id].node) \subseteq DOMAIN Graph
<1>1. ASSUME NEW i \in DOMAIN desktop, id = NodeId(desktop, i)
      PROVE  /\ Graph[id] = PopulateNodeContracts(Graph[id].node) /\ Graph[id].node.id = id
             /\ Graph[id].node.parentId # None => Graph[id].node.parentId \in DOMAIN Graph
  <2>1. Graph[id].node.id = id /\ Graph[id].node.parentId = ParentOf(desktop, desktop[i])
      BY <1>1, ElementFacts
  <2>2. Graph[id] = PopulateNodeContracts(Graph[id].node)
      BY <1>1, NodeFacts
  <2>. QED
      BY <2>1, <2>2, ParentsNameChildren
<1>2. ASSUME NEW i \in WithShortcut(desktop), id = CommandNodeId(desktop, i)
      PROVE  /\ Graph[id] = PopulateNodeContracts(Graph[id].node) /\ Graph[id].node.id = id
             /\ Graph[id].node.parentId # None => Graph[id].node.parentId \in DOMAIN Graph
  <2>1. Graph[id].node.id = id /\ Graph[id].node.parentId = NodeId(desktop, i)
      BY <1>2, CommandFacts
  <2>2. Graph[id] = PopulateNodeContracts(Graph[id].node)
      BY <1>2, NodeFacts
  <2>3. NodeId(desktop, i) \in DOMAIN Graph
      BY NodeFacts
  <2>. QED
      BY <2>1, <2>2, <2>3
<1>. QED
    BY <1>1, <1>2, NodeFacts DEF Targets

LEMMA PlansAreFollowed == desktop \in Desktops => PlansCanBeFollowed
<1>. SUFFICES ASSUME desktop \in Desktops, NEW id \in DOMAIN Graph
              PROVE  LET n == Graph[id]
                         plan == n.executionPlan
                     IN /\ \A i \in DOMAIN plan.steps : plan.steps[i][2] \in DOMAIN Graph
                        /\ Last(plan.steps)[2] = id
                        /\ n.node.hidden => Len(plan.steps) > 1
                        /\ plan.executable => id \in GenerateIntents(Graph, TRUE)
                        /\ plan.executable /\ id \notin GenerateIntents(Graph, FALSE) => n.revealStrategy.steps # <<>>
    BY DEF PlansCanBeFollowed
<1>. DEFINE node == Graph[id].node
<1>1. /\ Graph[id] = PopulateNodeContracts(node) /\ node.id = id
      /\ Targets(node) \subseteq DOMAIN Graph
    BY PlansReachable
<1>2. /\ Graph[id].executionPlan = ExecutionPlan(node)
      /\ Graph[id].revealStrategy = RevealStrategy(node)
  <2>1. /\ PopulateNodeContracts(node).executionPlan = ExecutionPlan(node)
        /\ PopulateNodeContracts(node).revealStrategy = RevealStrategy(node)
      BY DEF PopulateNodeContracts
  <2>. QED
      BY <1>1, <2>1
<1>3. ExecutionPlan(node).executable => node.type \in Interactive
    BY DEF ExecutionPlan
<1>. QED
    BY <1>1, <1>2, <1>3, PlanFacts DEF GenerateIntents

-----------------------------------------------------------------------------
\* Identity.

LEMMA AloneIsFirst ==
    ASSUME NEW d \in Desktops, NEW i \in DOMAIN d, Alone(d, IdentityKey(d, d[i]))
    PROVE  NodeId(d, i) = <<IdentityKey(d, d[i]), 0>>
<1>. DEFINE same == {j \in DOMAIN d : IdentityKey(d, d[j]) = IdentityKey(d, d[i])}
<1>1. DOMAIN d = 1..Len(d) /\ Len(d) \in Nat /\ i \in Nat
    BY DesktopFacts
<1>2. IsFiniteSet(same)
  <2>1. IsFiniteSet(1..Len(d))
      BY <1>1, FS_Interval
  <2>. QED
      BY <1>1, <2>1, FS_Subset
<1>3. PICK x : same = {x}
    BY <1>2, FS_Singleton DEF Alone
<1>4. SameBefore(d, i) = {}
  <2>1. i \in same /\ SameBefore(d, i) \subseteq same /\ i \notin SameBefore(d, i)
      BY <1>1 DEF SameBefore
  <2>. QED
      BY <1>3, <2>1
<1>. QED
    BY <1>4, NodeIdIs, FS_EmptySet

LEMMA IdentityKept ==
    ASSUME desktop \in Desktops, desktop' \in Desktops
    PROVE  KeepsIdentity
<1>1. \A d \in Desktops : \A i \in DOMAIN d :
         Alone(d, IdentityKey(d, d[i])) => NodeId(d, i) = <<IdentityKey(d, d[i]), 0>>
    BY AloneIsFirst
<1>. QED
    BY <1>1 DEF KeepsIdentity

\* An element keeps its node while its path and its automation id stay and no other shares them; and
\* in the graph of any desktop every element and shortcut has a node, parents and children name each
\* other as in the capability graph, and every plan can be followed (InteractionGraphBuilder::Build,
\* CapabilityGraphBuilder::Build, BuildExecutionPlan).
THEOREM GraphsHaveShape == ScreensSpec => NodesAreKept
<1>1. Spec => []DeltaInv
    BY DeltasStart, DeltasStep, PTL DEF Spec
<1>2. DeltaInv => desktop \in Desktops
    BY DEF DeltaInv
<1>3. desktop \in Desktops => OneNodePerElement
    BY NodesCounted DEF OneNodePerElement, Graph, GraphOf
<1>4. DeltaInv => (part = "shape" => OneNodePerElement /\ ParentsAgree /\ PlansCanBeFollowed)
    BY <1>2, <1>3, ParentsAlwaysAgree, PlansAreFollowed
<1>5. DeltaInv /\ DeltaInv' => [part = "shape" => KeepsIdentity]_vars
    BY IdentityKept DEF DeltaInv
<1>. QED
    BY <1>1, <1>4, <1>5, GraphBehaves, PTL DEF NodesAreKept

-----------------------------------------------------------------------------
\* Sequences that are cut to their newest elements.

Items(s) == {s[i] : i \in DOMAIN s}
Cut(s, limit) == IF Len(s) > limit THEN SubSeq(s, Len(s) - limit + 1, Len(s)) ELSE s

LEMMA CutFacts ==
    ASSUME NEW S, NEW s \in Seq(S), NEW limit \in Nat \ {0}, s # <<>>, NEW t, t = Cut(s, limit)
    PROVE  /\ t \in Seq(S) /\ t # <<>> /\ Len(t) = IF Len(s) > limit THEN limit ELSE Len(s)
           /\ \A i \in 1..Len(t) : t[i] = s[i + (Len(s) - Len(t))]
           /\ Last(t) = Last(s)
<1>1. CASE Len(s) > limit
  <2>1. /\ t \in Seq(S) /\ Len(t) = limit
        /\ \A i \in 1..limit : t[i] = s[i + (Len(s) - limit)]
      BY <1>1 DEF Cut
  <2>2. t # <<>> /\ t[Len(t)] = s[Len(s)]
      BY <2>1, <1>1
  <2>. QED
      BY <1>1, <2>1, <2>2 DEF Last
<1>2. CASE ~(Len(s) > limit)
    BY <1>2 DEF Cut
<1>. QED
    BY <1>1, <1>2

LEMMA Appended ==
    ASSUME NEW S, NEW s \in Seq(S), NEW e \in S
    PROVE  /\ Append(s, e) \in Seq(S) /\ Append(s, e) # <<>> /\ Len(Append(s, e)) = Len(s) + 1
           /\ Last(Append(s, e)) = e /\ Append(s, e)[Len(s) + 1] = e
           /\ \A i \in 1..Len(s) : Append(s, e)[i] = s[i]
<1>1. /\ Append(s, e) \in Seq(S) /\ Len(Append(s, e)) = Len(s) + 1 /\ Append(s, e)[Len(s) + 1] = e
      /\ \A i \in 1..Len(s) : Append(s, e)[i] = s[i]
    OBVIOUS
<1>. QED
    BY <1>1 DEF Last

\* The newest elements of a longer sequence are old ones and the new one.
LEMMA CutAppended ==
    ASSUME NEW S, NEW s \in Seq(S), NEW e \in S, NEW limit \in Nat \ {0}
    PROVE  /\ Cut(Append(s, e), limit) \in Seq(S) /\ Cut(Append(s, e), limit) # <<>>
           /\ Len(Cut(Append(s, e), limit)) <= limit /\ Last(Cut(Append(s, e), limit)) = e
<1>. DEFINE longer == Append(s, e)
            t == Cut(longer, limit)
<1>1. longer \in Seq(S) /\ longer # <<>> /\ Len(longer) = Len(s) + 1 /\ Last(longer) = e
    BY Appended
<1>. HIDE DEF longer
<1>2. /\ t \in Seq(S) /\ t # <<>> /\ Len(t) = IF Len(longer) > limit THEN limit ELSE Len(longer)
      /\ Last(t) = Last(longer)
    BY <1>1, CutFacts
<1>. HIDE DEF t
<1>3. t \in Seq(S) /\ t # <<>> /\ Len(t) <= limit /\ Last(t) = e
    BY <1>1, <1>2
<1>. QED
    BY <1>3 DEF t, longer

LEMMA CutItems ==
    ASSUME NEW S, NEW s \in Seq(S), NEW e \in S, NEW limit \in Nat \ {0}
    PROVE  Items(Cut(Append(s, e), limit)) \subseteq Items(s) \cup {e}
<1>. DEFINE longer == Append(s, e)
            t == Cut(longer, limit)
<1>1. longer \in Seq(S) /\ longer # <<>> /\ Items(longer) \subseteq Items(s) \cup {e}
    BY Appended DEF Items
<1>. HIDE DEF longer
<1>2. /\ t \in Seq(S) /\ Len(t) = IF Len(longer) > limit THEN limit ELSE Len(longer)
      /\ \A i \in 1..Len(t) : t[i] = longer[i + (Len(longer) - Len(t))]
    BY <1>1, CutFacts
<1>. HIDE DEF t
<1>3. \A i \in 1..Len(t) : i + (Len(longer) - Len(t)) \in 1..Len(longer)
    BY <1>1, <1>2
<1>4. Items(t) \subseteq Items(longer)
  <2>1. DOMAIN t = 1..Len(t) /\ DOMAIN longer = 1..Len(longer)
      BY <1>1, <1>2
  <2>2. \A i \in DOMAIN t : \E j \in DOMAIN longer : t[i] = longer[j]
      BY <1>2, <1>3, <2>1
  <2>. QED
      BY <2>2 DEF Items
<1>5. Items(t) \subseteq Items(s) \cup {e}
    BY <1>1, <1>4
<1>. QED
    BY <1>5 DEF t, longer

-----------------------------------------------------------------------------
\* Frames, in either of the two streams.

NoFrame == [id |-> 0, at |-> 0, screen |-> <<>>]
IsScreen(screen) == screen = [id \in DOMAIN screen |-> screen[id]]

Captured ==
    {latest} \cup {frames[c] : c \in DOMAIN frames} \cup {served[c] : c \in DOMAIN served}
    \cup Items(history) \cup Items(frameHistory)

\* An id names one frame.
Genuine(known, counter) ==
    /\ \A f \in known : /\ f.id \in 0..counter /\ f.at \in Int /\ IsScreen(f.screen)
                        /\ f.id = 0 => f = NoFrame
    /\ \A f, g \in known : f.id = g.id => f = g

FrameInv ==
    /\ frameCounter \in Nat /\ snapshot.at \in Int /\ IsScreen(snapshot.screen)
    /\ Genuine(Captured, frameCounter)
    /\ history \in Seq(Captured) /\ frameHistory \in Seq(Captured)

Fresh == [id |-> frameCounter + 1, at |-> snapshot.at, screen |-> snapshot.screen]

LEMMA GenuineKept ==
    ASSUME FrameInv,
           \/ Captured' \subseteq Captured \cup {NoFrame} /\ frameCounter' = frameCounter
           \/ Captured' \subseteq Captured \cup {NoFrame, Fresh} /\ frameCounter' = frameCounter + 1
    PROVE  frameCounter' \in Nat /\ Genuine(Captured', frameCounter')
<1>1. Fresh.id = frameCounter + 1 /\ Fresh.at = snapshot.at /\ Fresh.screen = snapshot.screen
    BY DEF Fresh
<1>2. NoFrame.id = 0 /\ NoFrame.at = 0 /\ IsScreen(NoFrame.screen)
    BY DEF NoFrame, IsScreen
<1>3. frameCounter \in Nat /\ Genuine(Captured, frameCounter)
    BY DEF FrameInv
<1>4. Genuine(Captured \cup {NoFrame}, frameCounter)
    BY <1>2, <1>3 DEF Genuine
<1>5. Genuine(Captured \cup {NoFrame, Fresh}, frameCounter + 1)
  <2>. DEFINE old == Captured \cup {NoFrame}
  <2>1. old \cup {Fresh} = Captured \cup {NoFrame, Fresh}
      OBVIOUS
  <2>2. \A f \in old : f.id \in 0..frameCounter
      BY <1>4 DEF Genuine
  <2>3. \A f \in old : f.id # Fresh.id /\ f.id \in 0..frameCounter + 1
      BY <1>1, <1>3, <2>2
  <2>4. Fresh.id \in 0..frameCounter + 1 /\ Fresh.id # 0 /\ Fresh.at \in Int /\ IsScreen(Fresh.screen)
      BY <1>1, <1>3 DEF FrameInv
  <2>. HIDE DEF old
  <2>5. Genuine(old, frameCounter)
      BY <1>4 DEF old
  <2>6. Genuine(old \cup {Fresh}, frameCounter + 1)
      BY <2>3, <2>4, <2>5 DEF Genuine
  <2>. QED
      BY <2>1, <2>6
<1>. QED
    BY <1>3, <1>4, <1>5 DEF Genuine

LEMMA Retyped ==
    ASSUME NEW S, NEW T, NEW s \in Seq(S), Items(s) \subseteq T
    PROVE  s \in Seq(T)
    BY IsASeq DEF Items

LEMMA GenuineIds ==
    ASSUME Genuine(Captured, frameCounter), frameCounter \in Nat
    PROVE  \A f \in Captured : f.id \in Nat /\ f.id <= frameCounter
    BY DEF Genuine

LEMMA FreshIsReal == FrameInv => Fresh # NoFrame
<1>1. Fresh.id = frameCounter + 1 /\ NoFrame.id = 0
    BY DEF Fresh, NoFrame
<1>. QED
    BY <1>1 DEF FrameInv

-----------------------------------------------------------------------------
\* The stream of many clients.

StreamBase ==
    /\ FrameInv /\ Stream!TypeOK
    /\ pc = [c \in Clients |-> pc[c]] /\ frames = [c \in Clients |-> frames[c]]
    /\ views = [c \in Clients |-> views[c]] /\ served = [c \in Clients |-> served[c]]

LEMMA StreamLimits ==
    /\ KeptFrames \in Nat /\ KeptFrames > 1 /\ KeptDeltas \in Nat \ {0}
    /\ \A screen \in Screens : IsScreen(screen)
    /\ Stream!NoFrame = NoFrame
    /\ Stream!NextFrame = Fresh
    /\ \A s, limit : Stream!Trimmed(s, limit) = Cut(s, limit)
    BY StreamsAssumption DEF Stream!StreamAssumption, IsScreen, Stream!NoFrame, NoFrame, Stream!NextFrame,
           Fresh, Stream!Trimmed, Stream!LastOf, Cut

LEMMA StreamBegins == Stream!Init => StreamBase
<1>. SUFFICES ASSUME Stream!Init
              PROVE  StreamBase
    OBVIOUS
<1>1. Captured = {NoFrame}
    BY StreamLimits DEF Stream!Init, Captured, Items
<1>2. NoFrame.id = 0 /\ NoFrame.at = 0 /\ IsScreen(NoFrame.screen)
    BY DEF NoFrame, IsScreen
<1>3. FrameInv
  <2>1. snapshot.at = 0 /\ IsScreen(snapshot.screen)
      BY StreamLimits DEF Stream!Init
  <2>. QED
      BY <1>1, <1>2, <2>1 DEF Stream!Init, FrameInv, Genuine
<1>4. Stream!TypeOK
    BY <1>2, StreamLimits DEF Stream!Init, Stream!TypeOK
<1>. QED
    BY <1>3, <1>4 DEF StreamBase, Stream!Init

LEMMA StreamRefreshes ==
    ASSUME StreamBase, NEW screen \in Screens, NEW elapsed \in {0, 1}, Stream!Refresh(screen, elapsed)
    PROVE  StreamBase'
<1>1. /\ snapshot' = [at |-> snapshot.at + elapsed, screen |-> screen]
      /\ UNCHANGED <<frameCounter, latest, pc, frames, history, transitions, frameHistory, views, served>>
    BY DEF Stream!Refresh, Stream!Requests
<1>2. Captured' = Captured
    BY <1>1 DEF Captured, Items
<1>3. FrameInv'
    BY <1>1, <1>2, StreamLimits DEF StreamBase, FrameInv
<1>4. Stream!TypeOK'
    BY <1>1 DEF StreamBase, Stream!TypeOK
<1>. QED
    BY <1>1, <1>3, <1>4 DEF StreamBase

LEMMA StreamLatestMoves ==
    ASSUME StreamBase, Stream!Sample \/ Stream!StopRuntime
    PROVE  StreamBase'
<1>1. /\ \/ latest' = Fresh /\ frameCounter' = frameCounter + 1
         \/ latest' = NoFrame /\ frameCounter' = frameCounter
      /\ UNCHANGED <<snapshot, pc, frames, history, transitions, frameHistory, views, served>>
    BY StreamLimits DEF Stream!Sample, Stream!StopRuntime, Stream!Requests
<1>2. Captured' \subseteq Captured \cup {latest'}
    BY <1>1 DEF Captured, Items
<1>3. frameCounter' \in Nat /\ Genuine(Captured', frameCounter') /\ frameCounter' \in {frameCounter, frameCounter + 1}
    BY <1>1, <1>2, GenuineKept DEF StreamBase
<1>4. history' \in Seq(Captured') /\ frameHistory' \in Seq(Captured')
  <2>1. Items(history) \subseteq Captured' /\ Items(frameHistory) \subseteq Captured'
      BY <1>1 DEF Captured, Items
  <2>. QED
      BY <1>1, <2>1, Retyped DEF StreamBase, FrameInv
<1>5. Stream!TypeOK'
  <2>1. \A d \in Clients : frames[d] \in Captured
      BY DEF Captured, StreamBase
  <2>2. \A d \in Clients : frames[d].id \in Nat /\ frames[d].id <= frameCounter'
      BY <1>3, <2>1, GenuineIds DEF StreamBase, FrameInv
  <2>3. \A i \in DOMAIN history : history[i].id \in 1..frameCounter'
      BY <1>3 DEF StreamBase, FrameInv, Stream!TypeOK
  <2>. QED
      BY <1>1, <2>2, <2>3 DEF StreamBase, Stream!TypeOK
<1>. QED
    BY <1>1, <1>3, <1>4, <1>5 DEF StreamBase, FrameInv

LEMMA StreamCaptures ==
    ASSUME StreamBase, NEW c \in Clients, Stream!Capture(c)
    PROVE  StreamBase'
<1>1. /\ \/ frames' = [frames EXCEPT ![c] = latest] /\ frameCounter' = frameCounter /\ latest # NoFrame
         \/ frames' = [frames EXCEPT ![c] = Fresh] /\ frameCounter' = frameCounter + 1
      /\ pc' = [pc EXCEPT ![c] = "captured"]
      /\ UNCHANGED <<snapshot, latest, history, transitions, frameHistory, views, served>>
    BY StreamLimits DEF Stream!Capture
<1>2. /\ \/ frames'[c] = latest /\ frameCounter' = frameCounter
         \/ frames'[c] = Fresh /\ frameCounter' = frameCounter + 1
      /\ \A d \in Clients : d # c => frames'[d] = frames[d]
      /\ frames' = [d \in Clients |-> frames'[d]]
  <2>1. frames = [d \in Clients |-> frames[d]]
      BY DEF StreamBase
  <2>2. CASE frames' = [frames EXCEPT ![c] = latest] /\ frameCounter' = frameCounter
      BY <2>1, <2>2
  <2>3. CASE frames' = [frames EXCEPT ![c] = Fresh] /\ frameCounter' = frameCounter + 1
      BY <2>1, <2>3
  <2>. QED
      BY <1>1, <2>2, <2>3
<1>3. Captured' \subseteq Captured \cup {frames'[c]}
  <2>1. {frames'[d] : d \in DOMAIN frames'} \subseteq {frames[d] : d \in DOMAIN frames} \cup {frames'[c]}
      BY <1>2 DEF StreamBase
  <2>. QED
      BY <1>1, <2>1 DEF Captured, Items
<1>4. latest \in Captured
    BY DEF Captured
<1>5. frameCounter' \in Nat /\ Genuine(Captured', frameCounter')
    BY <1>2, <1>3, <1>4, GenuineKept DEF StreamBase
<1>6. history' \in Seq(Captured') /\ frameHistory' \in Seq(Captured')
  <2>1. Items(history) \subseteq Captured' /\ Items(frameHistory) \subseteq Captured'
      BY <1>1 DEF Captured, Items
  <2>. QED
      BY <1>1, <2>1, Retyped DEF StreamBase, FrameInv
<1>7. Stream!TypeOK'
  <2>1. frames'[c] # NoFrame
      BY <1>1, <1>2, FreshIsReal DEF StreamBase
  <2>2. frames'[c].id <= frameCounter'
    <3>1. frames'[c] \in Captured'
        BY <1>2 DEF Captured, StreamBase
    <3>. QED
        BY <1>5, <3>1 DEF Genuine
  <2>3. pc'[c] = "captured" /\ \A d \in Clients : d # c => pc'[d] = pc[d]
      BY <1>1 DEF StreamBase
  <2>4. frameCounter' \in {frameCounter, frameCounter + 1} /\ frameCounter \in Nat
      BY <1>1 DEF StreamBase, FrameInv
  <2>5. \A d \in Clients : frames[d].id \in Nat
      BY GenuineIds DEF StreamBase, FrameInv, Captured
  <2>. QED
      BY <1>1, <1>2, <2>1, <2>2, <2>3, <2>4, <2>5, StreamLimits DEF StreamBase, Stream!TypeOK
<1>. QED
    BY <1>1, <1>2, <1>5, <1>6, <1>7 DEF StreamBase, FrameInv

LEMMA StreamRecords ==
    ASSUME StreamBase, NEW c \in Clients, Stream!RecordFrame(c)
    PROVE  /\ StreamBase'
           /\ history' = Cut(Append(history, frames[c]), KeptFrames) /\ frames[c] \in Captured
           /\ transitions' = IF history = <<>> THEN transitions
                             ELSE Cut(Append(transitions, Stream!Transition(Last(history), frames[c])), KeptFrames - 1)
           /\ UNCHANGED <<snapshot, frameCounter, latest, frames, frameHistory, views, served>>
<1>1. /\ history' = Cut(Append(history, frames[c]), KeptFrames)
      /\ transitions' = IF history = <<>> THEN transitions
                        ELSE Cut(Append(transitions, Stream!Transition(Last(history), frames[c])), KeptFrames - 1)
      /\ pc[c] = "captured" /\ pc' = [pc EXCEPT ![c] = "recorded"]
      /\ UNCHANGED <<snapshot, frameCounter, latest, frames, frameHistory, views, served>>
    BY StreamLimits DEF Stream!RecordFrame, Stream!Record, Stream!Last, Last
<1>2. frames[c] \in Captured /\ frames[c] # NoFrame
    BY <1>1, StreamLimits DEF Captured, StreamBase, Stream!TypeOK
<1>3. /\ history' \in Seq(Captured) /\ Len(history') <= KeptFrames
      /\ Items(history') \subseteq Items(history) \cup {frames[c]}
  <2>1. history \in Seq(Captured) /\ KeptFrames \in Nat \ {0}
      BY StreamLimits DEF StreamBase, FrameInv
  <2>2. history' = Cut(Append(history, frames[c]), KeptFrames)
      BY <1>1
  <2>3. history' \in Seq(Captured) /\ Len(history') <= KeptFrames
      BY <1>2, <2>1, <2>2, CutAppended, Zenon
  <2>4. Items(history') \subseteq Items(history) \cup {frames[c]}
      BY <1>2, <2>1, <2>2, CutItems, Zenon
  <2>. QED
      BY <2>3, <2>4
<1>4. Captured' \subseteq Captured
    BY <1>1, <1>2, <1>3 DEF Captured
<1>5. Genuine(Captured', frameCounter') /\ frameCounter' \in Nat
    BY <1>1, <1>4, GenuineKept DEF StreamBase
<1>6. history' \in Seq(Captured') /\ frameHistory' \in Seq(Captured')
  <2>1. Items(history') \subseteq Captured' /\ Items(frameHistory) \subseteq Captured'
      BY <1>1 DEF Captured, Items
  <2>. QED
      BY <1>1, <1>3, <2>1, Retyped DEF StreamBase, FrameInv
<1>7. Stream!TypeOK'
  <2>1. frames[c].id \in 1..frameCounter
      BY <1>2 DEF StreamBase, FrameInv, Genuine
  <2>2. \A i \in DOMAIN history' : history'[i].id \in 1..frameCounter
      BY <1>3, <2>1 DEF StreamBase, Stream!TypeOK, Items
  <2>. QED
      BY <1>1, <1>3, <2>2 DEF StreamBase, Stream!TypeOK
<1>. QED
    BY <1>1, <1>2, <1>5, <1>6, <1>7 DEF StreamBase, FrameInv

LEMMA StreamAnswers ==
    ASSUME StreamBase, NEW c \in Clients, NEW view, Stream!Answer(c, view)
    PROVE  /\ StreamBase'
           /\ frames[c] \in Captured /\ frames[c].id # 0
           /\ views' = [views EXCEPT ![c] = view] /\ served' = [served EXCEPT ![c] = frames[c]]
           /\ frameHistory' # <<>> /\ Last(frameHistory').id = frames[c].id /\ Last(frameHistory') \in Captured
           /\ UNCHANGED <<history, transitions>>
<1>1. /\ frameHistory' = IF frameHistory # <<>> /\ Last(frameHistory).id = frames[c].id THEN frameHistory
                         ELSE Cut(Append(frameHistory, frames[c]), KeptDeltas)
      /\ views' = [views EXCEPT ![c] = view] /\ served' = [served EXCEPT ![c] = frames[c]]
      /\ frames' = [frames EXCEPT ![c] = NoFrame] /\ pc' = [pc EXCEPT ![c] = "idle"] /\ pc[c] = "recorded"
      /\ UNCHANGED <<snapshot, frameCounter, latest, history, transitions>>
    BY StreamLimits DEF Stream!Answer, Stream!Remember, Stream!Last, Last
<1>2. frames[c] \in Captured /\ frames[c] # NoFrame
    BY <1>1, StreamLimits DEF Captured, StreamBase, Stream!TypeOK
<1>3. frames[c].id # 0
    BY <1>2 DEF StreamBase, FrameInv, Genuine
<1>4. /\ frameHistory' \in Seq(Captured) /\ Len(frameHistory') <= KeptDeltas
      /\ frameHistory' # <<>> /\ Last(frameHistory').id = frames[c].id /\ Last(frameHistory') \in Captured
      /\ Items(frameHistory') \subseteq Items(frameHistory) \cup {frames[c]}
  <2>1. CASE frameHistory # <<>> /\ Last(frameHistory).id = frames[c].id
    <3>1. Last(frameHistory) \in Captured
        BY <2>1 DEF Last, StreamBase, FrameInv
    <3>. QED
        BY <1>1, <2>1, <3>1 DEF StreamBase, FrameInv, Stream!TypeOK
  <2>2. CASE ~(frameHistory # <<>> /\ Last(frameHistory).id = frames[c].id)
    <3>1. frameHistory \in Seq(Captured) /\ KeptDeltas \in Nat \ {0}
        BY StreamLimits DEF StreamBase, FrameInv
    <3>2. frameHistory' = Cut(Append(frameHistory, frames[c]), KeptDeltas)
        BY <1>1, <2>2
    <3>3. Items(frameHistory') \subseteq Items(frameHistory) \cup {frames[c]}
        BY <1>2, <3>1, <3>2, CutItems, Zenon
    <3>4. /\ frameHistory' \in Seq(Captured) /\ Len(frameHistory') <= KeptDeltas
          /\ frameHistory' # <<>> /\ Last(frameHistory') = frames[c]
        BY <1>2, <3>1, <3>2, CutAppended
    <3>. QED
        BY <1>2, <3>3, <3>4
  <2>. QED
      BY <2>1, <2>2
<1>5. Captured' \subseteq Captured \cup {NoFrame}
  <2>1. \A d \in Clients : frames'[d] \in {NoFrame, frames[d]} /\ served'[d] \in {frames[c], served[d]}
      BY <1>1 DEF StreamBase
  <2>2. DOMAIN frames' = Clients /\ DOMAIN served' = Clients /\ DOMAIN frames = Clients /\ DOMAIN served = Clients
      BY <1>1 DEF StreamBase
  <2>. QED
      BY <1>1, <1>2, <1>4, <2>1, <2>2 DEF Captured, Items
<1>6. Genuine(Captured', frameCounter') /\ frameCounter' \in Nat
    BY <1>1, <1>5, GenuineKept DEF StreamBase
<1>7. history' \in Seq(Captured') /\ frameHistory' \in Seq(Captured')
  <2>1. Items(history) \subseteq Captured' /\ Items(frameHistory') \subseteq Captured'
      BY <1>1 DEF Captured, Items
  <2>. QED
      BY <1>1, <1>4, <2>1, Retyped DEF StreamBase, FrameInv
<1>8. Stream!TypeOK'
  <2>1. NoFrame.id = 0 /\ frameCounter \in Nat
      BY DEF NoFrame, StreamBase, FrameInv
  <2>. QED
      BY <1>1, <1>4, <2>1, StreamLimits DEF StreamBase, Stream!TypeOK
<1>. QED
    BY <1>1, <1>2, <1>3, <1>4, <1>6, <1>7, <1>8 DEF StreamBase, FrameInv

\* Whoever applies the delta from the screen that it knows has the other one.
LEMMA StreamDeltaLeads ==
    ASSUME NEW base, NEW current, IsScreen(base), IsScreen(current)
    PROVE  Stream!Patched(base, Stream!Delta(base, current)) = current
<1>. DEFINE delta == Stream!Delta(base, current)
            result == Stream!Patched(base, delta)
            updated == {e \in DOMAIN base \cap DOMAIN current : base[e] # current[e]}
<1>1. /\ delta.added = [id \in DOMAIN current \ DOMAIN base |-> current[id]]
      /\ delta.updated = [id \in updated |-> current[id]]
      /\ delta.removed = DOMAIN base \ DOMAIN current
    BY DEF Stream!Delta
<1>2. result = [id \in (DOMAIN base \ delta.removed) \cup DOMAIN delta.added \cup DOMAIN delta.updated |->
                  IF id \in DOMAIN delta.added THEN delta.added[id]
                  ELSE IF id \in DOMAIN delta.updated THEN delta.updated[id] ELSE base[id]]
    BY DEF Stream!Patched
<1>3. (DOMAIN base \ delta.removed) \cup DOMAIN delta.added \cup DOMAIN delta.updated = DOMAIN current
    BY <1>1
<1>4. \A id \in DOMAIN current : result[id] = current[id]
    BY <1>1, <1>2, <1>3
<1>5. DOMAIN result = DOMAIN current /\ result = [id \in DOMAIN current |-> result[id]]
    BY <1>2, <1>3
<1>6. current = [id \in DOMAIN current |-> current[id]]
    BY DEF IsScreen
<1>. HIDE DEF result
<1>7. result = current
    BY <1>4, <1>5, <1>6
<1>. QED
    BY <1>7 DEF result

StreamInv == StreamBase /\ Stream!DeltasAddUp

LEMMA StreamAnswersAddUp ==
    ASSUME StreamInv, NEW c \in Clients, Stream!ServeFull(c) \/ Stream!ServeDelta(c)
    PROVE  StreamInv'
<1>1. PICK view : /\ Stream!Answer(c, view)
                  /\ \/ view = frames[c].screen
                     \/ served[c] # NoFrame /\ view = Stream!DeltaAnswer(views[c], served[c].id, frames[c])
    BY StreamLimits DEF Stream!ServeFull, Stream!ServeDelta
<1>2. /\ StreamBase' /\ frames[c] \in Captured
      /\ views' = [views EXCEPT ![c] = view] /\ served' = [served EXCEPT ![c] = frames[c]]
    BY <1>1, StreamAnswers DEF StreamInv
<1>3. served[c] \in Captured /\ Genuine(Captured, frameCounter) /\ views[c] = served[c].screen
    BY DEF StreamInv, StreamBase, FrameInv, Captured, Stream!DeltasAddUp
<1>4. ASSUME served[c] # NoFrame
      PROVE  Stream!DeltaAnswer(views[c], served[c].id, frames[c]) = frames[c].screen
  <2>. DEFINE since == served[c].id
  <2>1. since \in Nat /\ since > 0
      BY <1>3, <1>4 DEF Genuine, StreamInv, StreamBase, FrameInv
  <2>2. CASE since = frames[c].id
    <3>1. served[c] = frames[c]
        BY <1>2, <1>3, <2>2 DEF Genuine
    <3>. QED
        BY <1>3, <2>1, <2>2, <3>1 DEF Stream!DeltaAnswer
  <2>3. CASE since # frames[c].id /\ Stream!Base(since) = {}
      BY <2>1, <2>3 DEF Stream!DeltaAnswer
  <2>4. CASE since # frames[c].id /\ Stream!Base(since) # {}
    <3>. DEFINE base == CHOOSE base \in Stream!Base(since) : TRUE
    <3>1. base \in Stream!Base(since)
        BY <2>4
    <3>2. base \in Items(frameHistory) /\ base.id = since
        BY <3>1, <2>1 DEF Stream!Base, Stream!Named, Items
    <3>3. base = served[c]
        BY <3>2, <1>3 DEF Genuine, Captured
    <3>4. Stream!DeltaAnswer(views[c], since, frames[c]) =
             Stream!Patched(views[c], Stream!Delta(base.screen, frames[c].screen))
        BY <2>4, <2>1 DEF Stream!DeltaAnswer
    <3>5. IsScreen(served[c].screen) /\ IsScreen(frames[c].screen)
        BY <1>2, <1>3 DEF Genuine
    <3>. HIDE DEF base, since
    <3>. QED
        BY <1>3, <3>3, <3>4, <3>5, StreamDeltaLeads DEF since
  <2>. QED
      BY <2>2, <2>3, <2>4
<1>5. view = frames[c].screen
    BY <1>1, <1>4
<1>6. Stream!DeltasAddUp'
    BY <1>2, <1>5 DEF StreamInv, StreamBase, Stream!DeltasAddUp
<1>. QED
    BY <1>2, <1>6 DEF StreamInv

LEMMA StreamKept == StreamInv /\ [Stream!Next]_(Stream!vars) => StreamInv'
<1>1. ASSUME StreamInv, UNCHANGED Stream!vars
      PROVE  StreamInv'
    BY <1>1 DEF StreamInv, StreamBase, FrameInv, Captured, Items, Genuine, Stream!vars, Stream!TypeOK, Stream!DeltasAddUp
<1>2. ASSUME StreamInv, NEW screen \in Screens, NEW elapsed \in {0, 1}, Stream!Refresh(screen, elapsed)
      PROVE  StreamInv'
    BY <1>2, StreamRefreshes DEF StreamInv, Stream!DeltasAddUp, Stream!Refresh, Stream!Requests
<1>3. ASSUME StreamInv, Stream!Sample \/ Stream!StopRuntime
      PROVE  StreamInv'
    BY <1>3, StreamLatestMoves DEF StreamInv, Stream!DeltasAddUp, Stream!Sample, Stream!StopRuntime, Stream!Requests
<1>4. ASSUME StreamInv, NEW c \in Clients, Stream!Capture(c)
      PROVE  StreamInv'
    BY <1>4, StreamCaptures DEF StreamInv, Stream!DeltasAddUp, Stream!Capture
<1>5. ASSUME StreamInv, NEW c \in Clients, Stream!RecordFrame(c)
      PROVE  StreamInv'
    BY <1>5, StreamRecords DEF StreamInv, Stream!DeltasAddUp
<1>. QED
    BY <1>1, <1>2, <1>3, <1>4, <1>5, StreamAnswersAddUp DEF Stream!Next

\* The ids of a window are at most as many as its frames.
LEMMA IdsBounded ==
    ASSUME NEW S, NEW window \in Seq(S)
    PROVE  /\ IsFiniteSet({window[i].id : i \in DOMAIN window})
           /\ Cardinality({window[i].id : i \in DOMAIN window}) <= Len(window)
<1>. DEFINE ids == {window[i].id : i \in DOMAIN window}
            f == [i \in 1..Len(window) |-> window[i].id]
<1>1. Len(window) \in Nat /\ DOMAIN window = 1..Len(window)
    OBVIOUS
<1>2. IsFiniteSet(1..Len(window)) /\ Cardinality(1..Len(window)) = Len(window)
  <2>1. IsFiniteSet(1..Len(window)) /\ Cardinality(1..Len(window)) = IF 1 > Len(window) THEN 0 ELSE Len(window) - 1 + 1
      BY <1>1, FS_Interval
  <2>. QED
      BY <1>1, <2>1
<1>3. f \in Surjection(1..Len(window), ids)
    BY <1>1 DEF Surjection
<1>. HIDE DEF ids, f
<1>4. IsFiniteSet(ids) /\ Cardinality(ids) <= Cardinality(1..Len(window))
    BY <1>2, <1>3, FS_Surjection
<1>. QED
    BY <1>2, <1>4 DEF ids

LEMMA StreamCounts == \A S : Stream!Cardinality(S) = Cardinality(S)
    BY DEF Cardinality, Stream!Cardinality

LEMMA SkipsReal == StreamInv => Stream!SkipsAreReal
<1>. SUFFICES ASSUME StreamInv, NEW limit \in 1..KeptFrames, history # <<>>
              PROVE  LET window == Stream!Trimmed(history, limit)
                         ids == {window[i].id : i \in DOMAIN window}
                     IN Stream!FrameConsistency(limit).skipped
                           <= Stream!Cardinality((window[1].id..Stream!Last(window).id) \ ids)
    BY DEF Stream!SkipsAreReal
<1>. DEFINE window == Stream!Trimmed(history, limit)
            ids == {window[i].id : i \in DOMAIN window}
            first == window[1].id
            last == Last(window).id
            span == first..last
<1>1. history \in Seq(Captured) /\ limit \in Nat \ {0}
    BY StreamLimits DEF StreamInv, StreamBase, FrameInv
<1>2. /\ window \in Seq(Captured) /\ window # <<>>
      /\ Len(window) = IF Len(history) > limit THEN limit ELSE Len(history)
      /\ \A i \in 1..Len(window) : window[i] = history[i + (Len(history) - Len(window))]
  <2>1. window = Cut(history, limit)
      BY StreamLimits
  <2>. HIDE DEF window
  <2>. QED
      BY <1>1, <2>1, CutFacts
<1>3. \A i \in DOMAIN window : window[i].id \in Nat
  <2>1. \A f \in Captured : f.id \in Nat
      BY GenuineIds DEF StreamInv, StreamBase, FrameInv
  <2>. QED
      BY <1>2, <2>1
<1>. HIDE DEF window
<1>4. first \in Nat /\ last \in Nat /\ Len(window) \in Nat /\ Len(window) > 0
    BY <1>2, <1>3 DEF Last
<1>. HIDE DEF first, last
<1>5. IsFiniteSet(span) /\ Cardinality(span) = IF first > last THEN 0 ELSE last - first + 1
  <2>1. first \in Int /\ last \in Int
      BY <1>4
  <2>. QED
      BY <2>1, FS_Interval
<1>6. IsFiniteSet(ids) /\ Cardinality(ids) <= Len(window)
    BY <1>2, IdsBounded
<1>. HIDE DEF ids, span
<1>7. IsFiniteSet(span \ ids) /\ Cardinality(span \ ids) = Cardinality(span) - Cardinality(span \cap ids)
    BY <1>5, FS_Difference
<1>8. Cardinality(span \cap ids) <= Cardinality(ids) /\ IsFiniteSet(span \cap ids)
    BY <1>6, FS_Subset
<1>9. /\ Cardinality(span) \in Nat /\ Cardinality(span \ ids) \in Nat
      /\ Cardinality(span \cap ids) \in Nat /\ Cardinality(ids) \in Nat
    BY <1>5, <1>6, <1>7, <1>8, FS_CardinalityType
<1>10. Stream!FrameConsistency(limit).skipped =
          LET expected == IF last >= first THEN last - first + 1 ELSE 0
          IN IF expected > Len(window) THEN expected - Len(window) ELSE 0
    BY StreamLimits DEF Stream!FrameConsistency, Stream!Last, Last, first, last, window
<1>11. Stream!FrameConsistency(limit).skipped <= Cardinality(span \ ids)
    BY <1>4, <1>5, <1>6, <1>7, <1>8, <1>9, <1>10
<1>. QED
    BY <1>11, StreamCounts DEF span, ids, first, last, window, Stream!Last, Last

-----------------------------------------------------------------------------
\* The stream of one client that names no frame.

SingleBase ==
    /\ FrameInv /\ Single!TypeOK
    /\ pc = [c \in {Client} |-> pc[c]] /\ frames = [c \in {Client} |-> frames[c]]
    /\ views = [c \in {Client} |-> views[c]] /\ served = [c \in {Client} |-> served[c]]

LEMMA SingleLimits ==
    /\ KeptAlone \in Nat /\ KeptAlone > 1 /\ KeptDeltasAlone \in Nat \ {0}
    /\ \A screen \in Screens : IsScreen(screen)
    /\ Single!NoFrame = NoFrame
    /\ Single!NextFrame = Fresh
    /\ \A s, limit : Single!Trimmed(s, limit) = Cut(s, limit)
    BY StreamsAssumption DEF Single!StreamAssumption, IsScreen, Single!NoFrame, NoFrame, Single!NextFrame,
           Fresh, Single!Trimmed, Single!LastOf, Cut

LEMMA SingleBegins == Single!Init => SingleBase
<1>. SUFFICES ASSUME Single!Init
              PROVE  SingleBase
    OBVIOUS
<1>1. Captured = {NoFrame}
    BY SingleLimits DEF Single!Init, Captured, Items
<1>2. NoFrame.id = 0 /\ NoFrame.at = 0 /\ IsScreen(NoFrame.screen)
    BY DEF NoFrame, IsScreen
<1>3. FrameInv
  <2>1. snapshot.at = 0 /\ IsScreen(snapshot.screen)
      BY SingleLimits DEF Single!Init
  <2>. QED
      BY <1>1, <1>2, <2>1 DEF Single!Init, FrameInv, Genuine
<1>4. Single!TypeOK
    BY <1>2, SingleLimits DEF Single!Init, Single!TypeOK
<1>. QED
    BY <1>3, <1>4 DEF SingleBase, Single!Init

LEMMA SingleRefreshes ==
    ASSUME SingleBase, NEW screen \in Screens, NEW elapsed \in {0, 1}, Single!Refresh(screen, elapsed)
    PROVE  SingleBase'
<1>1. /\ snapshot' = [at |-> snapshot.at + elapsed, screen |-> screen]
      /\ UNCHANGED <<frameCounter, latest, pc, frames, history, transitions, frameHistory, views, served>>
    BY DEF Single!Refresh, Single!Requests
<1>2. Captured' = Captured
    BY <1>1 DEF Captured, Items
<1>3. FrameInv'
    BY <1>1, <1>2, SingleLimits DEF SingleBase, FrameInv
<1>4. Single!TypeOK'
    BY <1>1 DEF SingleBase, Single!TypeOK
<1>. QED
    BY <1>1, <1>3, <1>4 DEF SingleBase

LEMMA SingleLatestMoves ==
    ASSUME SingleBase, Single!Sample \/ Single!StopRuntime
    PROVE  SingleBase'
<1>1. /\ \/ latest' = Fresh /\ frameCounter' = frameCounter + 1
         \/ latest' = NoFrame /\ frameCounter' = frameCounter
      /\ UNCHANGED <<snapshot, pc, frames, history, transitions, frameHistory, views, served>>
    BY SingleLimits DEF Single!Sample, Single!StopRuntime, Single!Requests
<1>2. Captured' \subseteq Captured \cup {latest'}
    BY <1>1 DEF Captured, Items
<1>3. frameCounter' \in Nat /\ Genuine(Captured', frameCounter') /\ frameCounter' \in {frameCounter, frameCounter + 1}
    BY <1>1, <1>2, GenuineKept DEF SingleBase
<1>4. history' \in Seq(Captured') /\ frameHistory' \in Seq(Captured')
  <2>1. Items(history) \subseteq Captured' /\ Items(frameHistory) \subseteq Captured'
      BY <1>1 DEF Captured, Items
  <2>. QED
      BY <1>1, <2>1, Retyped DEF SingleBase, FrameInv
<1>5. Single!TypeOK'
  <2>1. \A d \in {Client} : frames[d] \in Captured
      BY DEF Captured, SingleBase
  <2>2. \A d \in {Client} : frames[d].id \in Nat /\ frames[d].id <= frameCounter'
      BY <1>3, <2>1, GenuineIds DEF SingleBase, FrameInv
  <2>3. \A i \in DOMAIN history : history[i].id \in 1..frameCounter'
      BY <1>3 DEF SingleBase, FrameInv, Single!TypeOK
  <2>. QED
      BY <1>1, <2>2, <2>3 DEF SingleBase, Single!TypeOK
<1>. QED
    BY <1>1, <1>3, <1>4, <1>5 DEF SingleBase, FrameInv

LEMMA SingleCaptures ==
    ASSUME SingleBase, NEW c \in {Client}, Single!Capture(c)
    PROVE  SingleBase'
<1>1. /\ \/ frames' = [frames EXCEPT ![c] = latest] /\ frameCounter' = frameCounter /\ latest # NoFrame
         \/ frames' = [frames EXCEPT ![c] = Fresh] /\ frameCounter' = frameCounter + 1
      /\ pc' = [pc EXCEPT ![c] = "captured"]
      /\ UNCHANGED <<snapshot, latest, history, transitions, frameHistory, views, served>>
    BY SingleLimits DEF Single!Capture
<1>2. /\ \/ frames'[c] = latest /\ frameCounter' = frameCounter
         \/ frames'[c] = Fresh /\ frameCounter' = frameCounter + 1
      /\ \A d \in {Client} : d # c => frames'[d] = frames[d]
      /\ frames' = [d \in {Client} |-> frames'[d]]
  <2>1. frames = [d \in {Client} |-> frames[d]]
      BY DEF SingleBase
  <2>2. CASE frames' = [frames EXCEPT ![c] = latest] /\ frameCounter' = frameCounter
      BY <2>1, <2>2
  <2>3. CASE frames' = [frames EXCEPT ![c] = Fresh] /\ frameCounter' = frameCounter + 1
      BY <2>1, <2>3
  <2>. QED
      BY <1>1, <2>2, <2>3
<1>3. Captured' \subseteq Captured \cup {frames'[c]}
  <2>1. {frames'[d] : d \in DOMAIN frames'} \subseteq {frames[d] : d \in DOMAIN frames} \cup {frames'[c]}
      BY <1>2 DEF SingleBase
  <2>. QED
      BY <1>1, <2>1 DEF Captured, Items
<1>4. latest \in Captured
    BY DEF Captured
<1>5. frameCounter' \in Nat /\ Genuine(Captured', frameCounter')
    BY <1>2, <1>3, <1>4, GenuineKept DEF SingleBase
<1>6. history' \in Seq(Captured') /\ frameHistory' \in Seq(Captured')
  <2>1. Items(history) \subseteq Captured' /\ Items(frameHistory) \subseteq Captured'
      BY <1>1 DEF Captured, Items
  <2>. QED
      BY <1>1, <2>1, Retyped DEF SingleBase, FrameInv
<1>7. Single!TypeOK'
  <2>1. frames'[c] # NoFrame
      BY <1>1, <1>2, FreshIsReal DEF SingleBase
  <2>2. frames'[c].id <= frameCounter'
    <3>1. frames'[c] \in Captured'
        BY <1>2 DEF Captured, SingleBase
    <3>. QED
        BY <1>5, <3>1 DEF Genuine
  <2>3. pc'[c] = "captured" /\ \A d \in {Client} : d # c => pc'[d] = pc[d]
      BY <1>1 DEF SingleBase
  <2>4. frameCounter' \in {frameCounter, frameCounter + 1} /\ frameCounter \in Nat
      BY <1>1 DEF SingleBase, FrameInv
  <2>5. \A d \in {Client} : frames[d].id \in Nat
      BY GenuineIds DEF SingleBase, FrameInv, Captured
  <2>. QED
      BY <1>1, <1>2, <2>1, <2>2, <2>3, <2>4, <2>5, SingleLimits DEF SingleBase, Single!TypeOK
<1>. QED
    BY <1>1, <1>2, <1>5, <1>6, <1>7 DEF SingleBase, FrameInv

LEMMA SingleRecords ==
    ASSUME SingleBase, NEW c \in {Client}, Single!RecordFrame(c)
    PROVE  /\ SingleBase'
           /\ history' = Cut(Append(history, frames[c]), KeptAlone) /\ frames[c] \in Captured
           /\ transitions' = IF history = <<>> THEN transitions
                             ELSE Cut(Append(transitions, Single!Transition(Last(history), frames[c])), KeptAlone - 1)
           /\ UNCHANGED <<snapshot, frameCounter, latest, frames, frameHistory, views, served>>
<1>1. /\ history' = Cut(Append(history, frames[c]), KeptAlone)
      /\ transitions' = IF history = <<>> THEN transitions
                        ELSE Cut(Append(transitions, Single!Transition(Last(history), frames[c])), KeptAlone - 1)
      /\ pc[c] = "captured" /\ pc' = [pc EXCEPT ![c] = "recorded"]
      /\ UNCHANGED <<snapshot, frameCounter, latest, frames, frameHistory, views, served>>
    BY SingleLimits DEF Single!RecordFrame, Single!Record, Single!Last, Last
<1>2. frames[c] \in Captured /\ frames[c] # NoFrame
    BY <1>1, SingleLimits DEF Captured, SingleBase, Single!TypeOK
<1>3. /\ history' \in Seq(Captured) /\ Len(history') <= KeptAlone
      /\ Items(history') \subseteq Items(history) \cup {frames[c]}
  <2>1. history \in Seq(Captured) /\ KeptAlone \in Nat \ {0}
      BY SingleLimits DEF SingleBase, FrameInv
  <2>2. history' = Cut(Append(history, frames[c]), KeptAlone)
      BY <1>1
  <2>3. history' \in Seq(Captured) /\ Len(history') <= KeptAlone
      BY <1>2, <2>1, <2>2, CutAppended, Zenon
  <2>4. Items(history') \subseteq Items(history) \cup {frames[c]}
      BY <1>2, <2>1, <2>2, CutItems, Zenon
  <2>. QED
      BY <2>3, <2>4
<1>4. Captured' \subseteq Captured
    BY <1>1, <1>2, <1>3 DEF Captured
<1>5. Genuine(Captured', frameCounter') /\ frameCounter' \in Nat
    BY <1>1, <1>4, GenuineKept DEF SingleBase
<1>6. history' \in Seq(Captured') /\ frameHistory' \in Seq(Captured')
  <2>1. Items(history') \subseteq Captured' /\ Items(frameHistory) \subseteq Captured'
      BY <1>1 DEF Captured, Items
  <2>. QED
      BY <1>1, <1>3, <2>1, Retyped DEF SingleBase, FrameInv
<1>7. Single!TypeOK'
  <2>1. frames[c].id \in 1..frameCounter
      BY <1>2 DEF SingleBase, FrameInv, Genuine
  <2>2. \A i \in DOMAIN history' : history'[i].id \in 1..frameCounter
      BY <1>3, <2>1 DEF SingleBase, Single!TypeOK, Items
  <2>. QED
      BY <1>1, <1>3, <2>2 DEF SingleBase, Single!TypeOK
<1>. QED
    BY <1>1, <1>2, <1>5, <1>6, <1>7 DEF SingleBase, FrameInv

LEMMA SingleAnswers ==
    ASSUME SingleBase, NEW c \in {Client}, NEW view, Single!Answer(c, view)
    PROVE  /\ SingleBase'
           /\ frames[c] \in Captured /\ frames[c].id # 0
           /\ views' = [views EXCEPT ![c] = view] /\ served' = [served EXCEPT ![c] = frames[c]]
           /\ frameHistory' # <<>> /\ Last(frameHistory').id = frames[c].id /\ Last(frameHistory') \in Captured
           /\ UNCHANGED <<history, transitions>>
<1>1. /\ frameHistory' = IF frameHistory # <<>> /\ Last(frameHistory).id = frames[c].id THEN frameHistory
                         ELSE Cut(Append(frameHistory, frames[c]), KeptDeltasAlone)
      /\ views' = [views EXCEPT ![c] = view] /\ served' = [served EXCEPT ![c] = frames[c]]
      /\ frames' = [frames EXCEPT ![c] = NoFrame] /\ pc' = [pc EXCEPT ![c] = "idle"] /\ pc[c] = "recorded"
      /\ UNCHANGED <<snapshot, frameCounter, latest, history, transitions>>
    BY SingleLimits DEF Single!Answer, Single!Remember, Single!Last, Last
<1>2. frames[c] \in Captured /\ frames[c] # NoFrame
    BY <1>1, SingleLimits DEF Captured, SingleBase, Single!TypeOK
<1>3. frames[c].id # 0
    BY <1>2 DEF SingleBase, FrameInv, Genuine
<1>4. /\ frameHistory' \in Seq(Captured) /\ Len(frameHistory') <= KeptDeltasAlone
      /\ frameHistory' # <<>> /\ Last(frameHistory').id = frames[c].id /\ Last(frameHistory') \in Captured
      /\ Items(frameHistory') \subseteq Items(frameHistory) \cup {frames[c]}
  <2>1. CASE frameHistory # <<>> /\ Last(frameHistory).id = frames[c].id
    <3>1. Last(frameHistory) \in Captured
        BY <2>1 DEF Last, SingleBase, FrameInv
    <3>. QED
        BY <1>1, <2>1, <3>1 DEF SingleBase, FrameInv, Single!TypeOK
  <2>2. CASE ~(frameHistory # <<>> /\ Last(frameHistory).id = frames[c].id)
    <3>1. frameHistory \in Seq(Captured) /\ KeptDeltasAlone \in Nat \ {0}
        BY SingleLimits DEF SingleBase, FrameInv
    <3>2. frameHistory' = Cut(Append(frameHistory, frames[c]), KeptDeltasAlone)
        BY <1>1, <2>2
    <3>3. Items(frameHistory') \subseteq Items(frameHistory) \cup {frames[c]}
        BY <1>2, <3>1, <3>2, CutItems, Zenon
    <3>4. /\ frameHistory' \in Seq(Captured) /\ Len(frameHistory') <= KeptDeltasAlone
          /\ frameHistory' # <<>> /\ Last(frameHistory') = frames[c]
        BY <1>2, <3>1, <3>2, CutAppended
    <3>. QED
        BY <1>2, <3>3, <3>4
  <2>. QED
      BY <2>1, <2>2
<1>5. Captured' \subseteq Captured \cup {NoFrame}
  <2>1. \A d \in {Client} : frames'[d] \in {NoFrame, frames[d]} /\ served'[d] \in {frames[c], served[d]}
      BY <1>1 DEF SingleBase
  <2>2. DOMAIN frames' = {Client} /\ DOMAIN served' = {Client} /\ DOMAIN frames = {Client} /\ DOMAIN served = {Client}
      BY <1>1 DEF SingleBase
  <2>. QED
      BY <1>1, <1>2, <1>4, <2>1, <2>2 DEF Captured, Items
<1>6. Genuine(Captured', frameCounter') /\ frameCounter' \in Nat
    BY <1>1, <1>5, GenuineKept DEF SingleBase
<1>7. history' \in Seq(Captured') /\ frameHistory' \in Seq(Captured')
  <2>1. Items(history) \subseteq Captured' /\ Items(frameHistory') \subseteq Captured'
      BY <1>1 DEF Captured, Items
  <2>. QED
      BY <1>1, <1>4, <2>1, Retyped DEF SingleBase, FrameInv
<1>8. Single!TypeOK'
  <2>1. NoFrame.id = 0 /\ frameCounter \in Nat
      BY DEF NoFrame, SingleBase, FrameInv
  <2>. QED
      BY <1>1, <1>4, <2>1, SingleLimits DEF SingleBase, Single!TypeOK
<1>. QED
    BY <1>1, <1>2, <1>3, <1>4, <1>6, <1>7, <1>8 DEF SingleBase, FrameInv

LEMMA SingleDeltaLeads ==
    ASSUME NEW base, NEW current, IsScreen(base), IsScreen(current)
    PROVE  Single!Patched(base, Single!Delta(base, current)) = current
<1>1. Single!Delta(base, current) = Stream!Delta(base, current)
    BY DEF Single!Delta, Stream!Delta
<1>2. \A delta : Single!Patched(base, delta) = Stream!Patched(base, delta)
    BY DEF Single!Patched, Stream!Patched
<1>. QED
    BY <1>1, <1>2, StreamDeltaLeads

\* What is served last is what was served to the only client.
LastServed == frameHistory # <<>> => Last(frameHistory) = served[Client]

\* A frame that is recorded twice is the same frame, so that nothing in it has changed and no time
\* has passed.
TransitionsInv ==
    /\ transitions \in Seq([from : Nat, to : Nat, changed : BOOLEAN, stable : BOOLEAN])
    /\ Single!TransitionsFollowHistory /\ Single!OnlyRepetitionsAreUnchanged

SingleInv == SingleBase /\ Single!DeltasAddUp /\ LastServed /\ TransitionsInv

LEMMA SingleAnswersAddUp ==
    ASSUME SingleInv, NEW c \in {Client}, Single!ServeFull(c) \/ Single!ServeDelta(c)
    PROVE  SingleInv'
<1>1. PICK view : /\ Single!Answer(c, view)
                  /\ view = frames[c].screen \/ view = Single!DeltaAnswer(views[c], 0, frames[c])
    BY DEF Single!ServeFull, Single!ServeDelta
<1>2. /\ SingleBase' /\ frames[c] \in Captured
      /\ views' = [views EXCEPT ![c] = view] /\ served' = [served EXCEPT ![c] = frames[c]]
      /\ frameHistory' # <<>> /\ Last(frameHistory').id = frames[c].id /\ Last(frameHistory') \in Captured
      /\ UNCHANGED <<history, transitions>>
    BY <1>1, SingleAnswers DEF SingleInv
<1>3. served[c] \in Captured /\ Genuine(Captured, frameCounter) /\ views[c] = served[c].screen /\ c = Client
    BY DEF SingleInv, SingleBase, FrameInv, Captured, Single!DeltasAddUp
<1>4. Single!DeltaAnswer(views[c], 0, frames[c]) = frames[c].screen
  <2>1. CASE frameHistory = <<>>
      BY <2>1 DEF Single!DeltaAnswer, Single!Base
  <2>2. CASE frameHistory # <<>>
    <3>1. Single!Base(0) = {Last(frameHistory)}
        BY <2>2 DEF Single!Base, Single!Last, Last
    <3>2. (CHOOSE base \in Single!Base(0) : TRUE) = served[c]
        BY <2>2, <3>1, <1>3 DEF SingleInv, LastServed
    <3>3. Single!DeltaAnswer(views[c], 0, frames[c]) =
             Single!Patched(views[c], Single!Delta(served[c].screen, frames[c].screen))
        BY <3>1, <3>2 DEF Single!DeltaAnswer
    <3>4. IsScreen(served[c].screen) /\ IsScreen(frames[c].screen)
        BY <1>2, <1>3 DEF Genuine
    <3>. QED
        BY <1>3, <3>3, <3>4, SingleDeltaLeads
  <2>. QED
      BY <2>1, <2>2
<1>5. view = frames[c].screen
    BY <1>1, <1>4
<1>6. Single!DeltasAddUp'
    BY <1>2, <1>5 DEF SingleInv, SingleBase, Single!DeltasAddUp
<1>7. LastServed'
  <2>1. Last(frameHistory') = frames[c]
      BY <1>2, <1>3 DEF Genuine
  <2>2. served'[Client] = frames[c]
      BY <1>2, <1>3 DEF SingleInv, SingleBase
  <2>. QED
      BY <2>1, <2>2 DEF LastServed
<1>8. TransitionsInv'
    BY <1>2 DEF SingleInv, TransitionsInv, Single!TransitionsFollowHistory, Single!OnlyRepetitionsAreUnchanged
<1>. QED
    BY <1>2, <1>6, <1>7, <1>8 DEF SingleInv

LEMMA TransitionIs ==
    ASSUME FrameInv, NEW from \in Captured, NEW to \in Captured
    PROVE  LET t == Single!Transition(from, to) IN
           /\ t \in [from : Nat, to : Nat, changed : BOOLEAN, stable : BOOLEAN]
           /\ t.from = from.id /\ t.to = to.id /\ t.changed = (t.from # t.to) /\ ~t.stable
<1>. DEFINE changed == <<from.id, from.screen>> # <<to.id, to.screen>>
            stable == ~changed /\ to.at - from.at >= 1
<1>1. Single!Transition(from, to) = [from |-> from.id, to |-> to.id, changed |-> changed, stable |-> stable]
    BY DEF Single!Transition, Single!Signature
<1>2. from.id \in Nat /\ to.id \in Nat /\ from.at \in Int /\ to.at \in Int
    BY GenuineIds DEF FrameInv, Genuine
<1>3. from.id = to.id => from = to
    BY DEF FrameInv, Genuine
<1>4. changed = (from.id # to.id)
    BY <1>3
<1>5. ~stable
    BY <1>2, <1>3
<1>6. changed \in BOOLEAN /\ stable \in BOOLEAN
    OBVIOUS
<1>. HIDE DEF changed, stable
<1>. QED
    BY <1>1, <1>2, <1>4, <1>5, <1>6

LEMMA SingleTransitions ==
    ASSUME SingleInv, NEW c \in {Client}, Single!RecordFrame(c)
    PROVE  TransitionsInv'
<1>. DEFINE f == frames[c]
            Records == [from : Nat, to : Nat, changed : BOOLEAN, stable : BOOLEAN]
            n == Len(history)
            t == Single!Transition(Last(history), f)
            longer == Append(history, f)
            more == Append(transitions, t)
<1>1. /\ history' = Cut(longer, KeptAlone) /\ f \in Captured
      /\ transitions' = IF history = <<>> THEN transitions ELSE Cut(more, KeptAlone - 1)
    BY SingleRecords DEF SingleInv
<1>2. /\ history \in Seq(Captured) /\ n \in Nat /\ n <= KeptAlone /\ FrameInv
      /\ KeptAlone \in Nat \ {0} /\ KeptAlone - 1 \in Nat \ {0}
    BY SingleLimits DEF SingleInv, SingleBase, FrameInv, Single!TypeOK
<1>3. /\ transitions \in Seq(Records) /\ Len(transitions) = (IF history = <<>> THEN 0 ELSE n - 1)
      /\ \A i \in 1..Len(transitions) :
            /\ transitions[i].from = history[i].id /\ transitions[i].to = history[i + 1].id
            /\ transitions[i].changed = (transitions[i].from # transitions[i].to) /\ ~transitions[i].stable
  <2>1. /\ transitions \in Seq(Records)
        /\ Len(transitions) = (IF history = <<>> THEN 0 ELSE n - 1)
    <3>1. transitions \in Seq(Records)
        BY DEF SingleInv, TransitionsInv
    <3>2. Len(transitions) = (IF history = <<>> THEN 0 ELSE n - 1)
        BY Zenon DEF SingleInv, TransitionsInv, Single!TransitionsFollowHistory
    <3>. QED
        BY <3>1, <3>2
  <2>. HIDE DEF Records
  <2>2. DOMAIN transitions = 1..Len(transitions)
      BY <2>1
  <2>3. \A i \in DOMAIN transitions :
           /\ transitions[i].from = history[i].id /\ transitions[i].to = history[i + 1].id
           /\ transitions[i].changed = (transitions[i].from # transitions[i].to) /\ ~transitions[i].stable
      BY Zenon DEF SingleInv, TransitionsInv, Single!TransitionsFollowHistory, Single!OnlyRepetitionsAreUnchanged
  <2>. QED
      BY <2>1, <2>2, <2>3
<1>4. /\ longer \in Seq(Captured) /\ longer # <<>> /\ Len(longer) = n + 1 /\ longer[n + 1] = f
      /\ \A i \in 1..n : longer[i] = history[i]
    BY <1>1, <1>2, Appended
<1>5. /\ history' \in Seq(Captured) /\ history' # <<>>
      /\ Len(history') = IF n + 1 > KeptAlone THEN KeptAlone ELSE n + 1
      /\ \A i \in 1..Len(history') : history'[i] = longer[i + (n + 1 - Len(history'))]
  <2>. HIDE DEF longer
  <2>. QED
      BY <1>1, <1>2, <1>4, CutFacts
<1>6. CASE history = <<>>
  <2>1. transitions' = transitions /\ Len(transitions) = 0 /\ n = 0 /\ transitions = <<>>
      BY <1>1, <1>2, <1>3, <1>6
  <2>2. Len(history') = 1
      BY <1>2, <1>5, <2>1
  <2>. QED
      BY <1>3, <1>5, <2>1, <2>2
         DEF TransitionsInv, Single!TransitionsFollowHistory, Single!OnlyRepetitionsAreUnchanged
<1>7. CASE history # <<>>
  <2>1. n > 0 /\ Last(history) = history[n] /\ Last(history) \in Captured
      BY <1>2, <1>7 DEF Last
  <2>2. /\ t \in Records /\ t.from = history[n].id /\ t.to = f.id
        /\ t.changed = (t.from # t.to) /\ ~t.stable
      BY <1>1, <1>2, <2>1, TransitionIs
  <2>. HIDE DEF t, f, longer
  <2>3. /\ more \in Seq(Records) /\ more # <<>> /\ Len(more) = n /\ more[n] = t
        /\ \A i \in 1..n - 1 : more[i] = transitions[i]
      BY <1>2, <1>3, <1>7, <2>2
  <2>. HIDE DEF more
  <2>4. \A i \in 1..n :
           /\ more[i].from = longer[i].id /\ more[i].to = longer[i + 1].id
           /\ more[i].changed = (more[i].from # more[i].to) /\ ~more[i].stable
    <3>. TAKE i \in 1..n
    <3>1. CASE i = n
        BY <1>2, <1>4, <2>1, <2>2, <2>3, <3>1
    <3>2. CASE i # n
      <4>1. i \in 1..n - 1 /\ i \in 1..Len(transitions) /\ i + 1 \in 1..n
          BY <1>2, <1>3, <1>7, <3>2
      <4>. QED
          BY <1>3, <1>4, <2>3, <4>1
    <3>. QED
        BY <3>1, <3>2
  <2>5. /\ transitions' \in Seq(Records) /\ transitions' # <<>>
        /\ Len(transitions') = IF n > KeptAlone - 1 THEN KeptAlone - 1 ELSE n
        /\ \A i \in 1..Len(transitions') : transitions'[i] = more[i + (n - Len(transitions'))]
    <3>. DEFINE limit == KeptAlone - 1
                after == transitions'
    <3>1. after = Cut(more, limit)
        BY <1>1, <1>7 DEF more
    <3>2. limit \in Nat \ {0}
        BY <1>2
    <3>. HIDE DEF limit, after, Records
    <3>3. /\ after \in Seq(Records) /\ after # <<>>
          /\ Len(after) = IF Len(more) > limit THEN limit ELSE Len(more)
          /\ \A i \in 1..Len(after) : after[i] = more[i + (Len(more) - Len(after))]
        BY <2>3, <3>1, <3>2, CutFacts
    <3>. QED
        BY <2>3, <3>3 DEF limit, after
  <2>6. /\ Len(transitions') = Len(history') - 1 /\ Len(transitions') \in Nat
        /\ n + 1 - Len(history') = n - Len(transitions')
    <3>1. /\ Len(history') = IF n + 1 > KeptAlone THEN KeptAlone ELSE n + 1
          /\ Len(transitions') = IF n > KeptAlone - 1 THEN KeptAlone - 1 ELSE n
        BY <1>5, <2>5
    <3>2. n \in Nat /\ KeptAlone \in Nat /\ KeptAlone - 1 \in Nat \ {0}
        BY <1>2
    <3>. HIDE DEF n
    <3>3. CASE n + 1 > KeptAlone
        BY <3>1, <3>2, <3>3
    <3>4. CASE ~(n + 1 > KeptAlone)
        BY <3>1, <3>2, <3>4
    <3>. QED
        BY <3>3, <3>4
  <2>7. \A i \in 1..Len(transitions') :
           /\ i + (n - Len(transitions')) \in 1..n
           /\ history'[i] = longer[i + (n - Len(transitions'))]
           /\ history'[i + 1] = longer[i + (n - Len(transitions')) + 1]
    <3>. TAKE i \in 1..Len(transitions')
    <3>1. i \in 1..Len(history') /\ i + 1 \in 1..Len(history') /\ Len(history') \in Nat
        BY <1>2, <2>6, <1>5
    <3>2. i + (n - Len(transitions')) \in 1..n
        BY <1>2, <2>5, <2>6
    <3>3. history'[i] = longer[i + (n + 1 - Len(history'))] /\ history'[i + 1] = longer[i + 1 + (n + 1 - Len(history'))]
        BY <1>5, <3>1
    <3>4. i + 1 + (n + 1 - Len(history')) = i + (n - Len(transitions')) + 1
        BY <1>2, <2>6, <3>1
    <3>. QED
        BY <2>6, <3>2, <3>3, <3>4
  <2>8. \A i \in 1..Len(transitions') :
           /\ transitions'[i].from = history'[i].id /\ transitions'[i].to = history'[i + 1].id
           /\ transitions'[i].changed = (transitions'[i].from # transitions'[i].to) /\ ~transitions'[i].stable
    <3>. TAKE i \in 1..Len(transitions')
    <3>. DEFINE j == i + (n - Len(transitions'))
    <3>1. j \in 1..n /\ history'[i] = longer[j] /\ history'[i + 1] = longer[j + 1]
        BY <2>7
    <3>2. transitions'[i] = more[j]
        BY <2>5
    <3>. HIDE DEF j
    <3>. QED
        BY <2>4, <3>1, <3>2
  <2>9. DOMAIN transitions' = 1..Len(transitions')
      BY <2>5
  <2>. QED
      BY <1>5, <2>5, <2>6, <2>8, <2>9
         DEF TransitionsInv, Single!TransitionsFollowHistory, Single!OnlyRepetitionsAreUnchanged
<1>. QED
    BY <1>6, <1>7

LEMMA SingleKept == SingleInv /\ [Single!Next]_(Single!vars) => SingleInv'
<1>. DEFINE Still == UNCHANGED <<history, transitions, frameHistory, views, served>>
<1>0. ASSUME SingleInv, SingleBase', Still
      PROVE  SingleInv'
    BY <1>0 DEF SingleInv, Single!DeltasAddUp, LastServed, TransitionsInv, Single!TransitionsFollowHistory,
           Single!OnlyRepetitionsAreUnchanged
<1>1. ASSUME SingleInv, UNCHANGED Single!vars
      PROVE  SingleInv'
  <2>1. SingleBase' /\ Still
      BY <1>1 DEF SingleInv, SingleBase, FrameInv, Captured, Items, Genuine, Single!vars, Single!TypeOK
  <2>. QED
      BY <1>0, <1>1, <2>1
<1>2. ASSUME SingleInv, NEW screen \in Screens, NEW elapsed \in {0, 1}, Single!Refresh(screen, elapsed)
      PROVE  SingleInv'
    BY <1>0, <1>2, SingleRefreshes DEF SingleInv, Single!Refresh, Single!Requests
<1>3. ASSUME SingleInv, Single!Sample \/ Single!StopRuntime
      PROVE  SingleInv'
    BY <1>0, <1>3, SingleLatestMoves DEF SingleInv, Single!Sample, Single!StopRuntime, Single!Requests
<1>4. ASSUME SingleInv, NEW c \in {Client}, Single!Capture(c)
      PROVE  SingleInv'
    BY <1>0, <1>4, SingleCaptures DEF SingleInv, Single!Capture
<1>5. ASSUME SingleInv, NEW c \in {Client}, Single!RecordFrame(c)
      PROVE  SingleInv'
    BY <1>5, SingleRecords, SingleTransitions DEF SingleInv, Single!DeltasAddUp, LastServed
<1>. QED
    BY <1>1, <1>2, <1>3, <1>4, <1>5, SingleAnswersAddUp DEF Single!Next

-----------------------------------------------------------------------------
\* Both streams.
StreamsInv == /\ part = "stream" => StreamInv
              /\ part = "single" => SingleInv

LEMMA StreamsMove ==
    ASSUME [ScreensNext]_screensVars
    PROVE  /\ part' = part
           /\ part = "stream" => [Stream!Next]_(Stream!vars)
           /\ part = "single" => [Single!Next]_(Single!vars)
    BY DEF ScreensNext, DeltasNext, ShapeNext, Observe, screensVars, streamVars, Stream!vars, Single!vars

\* Whoever applies the deltas of GET /stream/frame, naming the frame that it holds or being the only
\* client, knows the screen of the frame that it was answered with, for any screens, clients and
\* lengths of the histories; transitions lead from each frame of the history to the next, only a
\* frame that is recorded twice counts as unchanged, and no frame is reported as skipped that was
\* recorded (IntentApiServer's /stream/frame, TemporalStateEngine::Record and FrameConsistency).
THEOREM FramesAreCarried == ScreensSpec => []FrameDeltasAddUp
<1>1. ScreensInit => StreamsInv
  <2>1. ASSUME ScreensInit, part = "stream"
        PROVE  StreamInv
    <3>1. Stream!Init
        BY <2>1 DEF ScreensInit
    <3>. QED
        BY <3>1, StreamBegins DEF StreamInv, Stream!DeltasAddUp, Stream!Init, Stream!NoFrame
  <2>2. ASSUME ScreensInit, part = "single"
        PROVE  SingleInv
    <3>1. Single!Init
        BY <2>2 DEF ScreensInit
    <3>2. SingleBase /\ Single!DeltasAddUp /\ LastServed
        BY <3>1, SingleBegins DEF Single!DeltasAddUp, LastServed, Single!Init, Single!NoFrame
    <3>3. TransitionsInv
        BY <3>1 DEF TransitionsInv, Single!TransitionsFollowHistory, Single!OnlyRepetitionsAreUnchanged, Single!Init
    <3>. QED
        BY <3>2, <3>3 DEF SingleInv
  <2>. QED
      BY <2>1, <2>2 DEF StreamsInv
<1>2. StreamsInv /\ [ScreensNext]_screensVars => StreamsInv'
  <2>. SUFFICES ASSUME StreamsInv, [ScreensNext]_screensVars
                PROVE  StreamsInv'
      OBVIOUS
  <2>1. part = "stream" => StreamInv'
      BY StreamsMove, StreamKept DEF StreamsInv
  <2>2. part = "single" => SingleInv'
      BY StreamsMove, SingleKept DEF StreamsInv
  <2>. QED
      BY <2>1, <2>2, StreamsMove DEF StreamsInv
<1>3. StreamsInv => FrameDeltasAddUp
    BY SkipsReal DEF StreamsInv, FrameDeltasAddUp, StreamInv, StreamBase, SingleInv, SingleBase, TransitionsInv
<1>. QED
    BY <1>1, <1>2, <1>3, PTL DEF ScreensSpec
=============================================================================
