------------------------------ MODULE ReflexProofs ------------------------------
(***************************************************************************)
(* What the reflex runtime keeps across threads, stops and the end of its  *)
(* process, for any clients, calls, screens, goals and bounds: the         *)
(* experience file is in order, a stop that meets no start leaves nothing  *)
(* installed and everything saved, skills count what was recorded of them, *)
(* the agent decides what is permitted and lets the last outcome of a      *)
(* choice count, and of the bundles that propose the same the best wins.   *)
(***************************************************************************)
EXTENDS MCReflex, FoldFacts

-----------------------------------------------------------------------------
\* The experience file.

\* Outcomes in the order they were recorded in, as many as are remembered.
InOrder(entries, last) ==
    /\ entries \in Seq(Nat) /\ Len(entries) <= KEntries
    /\ \A i \in DOMAIN entries : entries[i] <= last
    /\ \A i, j \in DOMAIN entries : i < j => entries[i] < entries[j]

\* What was remembered at two moments of one process: until the memory is full the shorter is how
\* the longer begins, and then its entries are no newer.
Fits(shorter, longer) ==
    Len(shorter) <= Len(longer) /\ Len(shorter) < KEntries =>
        \A i \in DOMAIN shorter :
            IF Len(longer) < KEntries THEN shorter[i] = longer[i] ELSE shorter[i] <= longer[i]

\* An earlier memory and the one of now.
Earlier(entries) ==
    InOrder(entries, recorded) /\ Len(entries) <= Len(remembered) /\ Fits(entries, remembered)

Copy(c) == copied[c].experience

ServiceTypes ==
    /\ copied \in [Clients -> [goal : SavedGoals \cup {"none"}, experience : Seq(Nat)]]
    /\ argument \in [Clients -> SavedGoals \cup {"none"}]
    /\ goal \in SavedGoals \cup {"none"} /\ goalFile \in SavedGoals \cup {"none"}
    /\ recorded \in Nat

ServiceOrder ==
    /\ InOrder(remembered, recorded) /\ Earlier(experienceFile)
    /\ \A c \in Clients : Earlier(Copy(c)) /\ Fits(Copy(c), experienceFile)
    /\ \A c, d \in Clients : Fits(Copy(c), Copy(d))

ServiceInv == ServiceTypes /\ ServiceOrder

-----------------------------------------------------------------------------
LEMMA Limits ==
    /\ KEntries \in Nat \ {0} /\ "none" \notin SavedGoals
    /\ {KReports, KCalls, KQueued, KCrashes} \subseteq Nat
    BY PersistenceAssumption DEF Service!ServiceAssumption

\* What is in order, entry by entry.
LEMMA OrderFacts ==
    ASSUME NEW last \in Nat, NEW s, InOrder(s, last)
    PROVE  /\ s \in Seq(Nat) /\ Len(s) \in Nat /\ DOMAIN s = 1..Len(s) /\ Len(s) <= KEntries
           /\ KEntries \in Nat \ {0}
           /\ \A i \in 1..Len(s) : s[i] \in Nat /\ s[i] <= last
           /\ \A i, j \in 1..Len(s) : i < j => s[i] < s[j]
<1>1. s \in Seq(Nat) /\ KEntries \in Nat \ {0} /\ Len(s) <= KEntries
    BY Limits DEF InOrder
<1>2. Len(s) \in Nat /\ DOMAIN s = 1..Len(s) /\ \A i \in 1..Len(s) : s[i] \in Nat
    BY <1>1
<1>3. /\ \A i \in 1..Len(s) : s[i] <= last
      /\ \A i, j \in 1..Len(s) : i < j => s[i] < s[j]
    BY <1>2 DEF InOrder
<1>. QED
    BY <1>1, <1>2, <1>3

LEMMA OrderIntro ==
    ASSUME NEW last \in Nat, NEW s \in Seq(Nat), Len(s) <= KEntries,
           \A i \in 1..Len(s) : s[i] <= last,
           \A i, j \in 1..Len(s) : i < j => s[i] < s[j]
    PROVE  InOrder(s, last)
<1>1. DOMAIN s = 1..Len(s)
    OBVIOUS
<1>. QED
    BY <1>1 DEF InOrder

\* Fits, with the entries numbered.
BeginsWith(s, t) == \A i \in 1..Len(s) : s[i] = t[i]
Older(s, t) == \A i \in 1..Len(s) : s[i] <= t[i]

LEMMA FitsFacts ==
    ASSUME NEW s \in Seq(Nat), NEW t \in Seq(Nat)
    PROVE  Fits(s, t) <=> \/ ~(Len(s) <= Len(t)) \/ ~(Len(s) < KEntries)
                          \/ Len(t) < KEntries /\ BeginsWith(s, t)
                          \/ ~(Len(t) < KEntries) /\ Older(s, t)
<1>1. DOMAIN s = 1..Len(s)
    OBVIOUS
<1>. QED
    BY <1>1 DEF Fits, BeginsWith, Older

\* Of two that fit the shorter is no newer, as long as it is not full.
LEMMA FitsOlder ==
    ASSUME NEW s \in Seq(Nat), NEW t \in Seq(Nat), Fits(s, t), Len(s) <= Len(t), Len(s) < KEntries
    PROVE  Older(s, t)
<1>1. CASE Len(t) < KEntries
  <2>1. BeginsWith(s, t)
    BY <1>1, FitsFacts
  <2>2. \A i \in 1..Len(s) : s[i] \in Nat
    OBVIOUS
  <2>. QED
    BY <2>1, <2>2 DEF BeginsWith, Older
<1>2. CASE ~(Len(t) < KEntries)
    BY <1>2, FitsFacts
<1>. QED
    BY <1>1, <1>2

LEMMA FitsIntro ==
    ASSUME NEW s \in Seq(Nat), NEW t \in Seq(Nat),
           Len(s) <= Len(t) /\ Len(s) < KEntries =>
              IF Len(t) < KEntries THEN BeginsWith(s, t) ELSE Older(s, t)
    PROVE  Fits(s, t)
    BY FitsFacts

\* A later number changes nothing, and an empty memory fits everywhere.
LEMMA InOrderLater ==
    ASSUME NEW last \in Nat, NEW next \in Nat, last <= next, NEW s, InOrder(s, last)
    PROVE  InOrder(s, next)
<1>1. s \in Seq(Nat) /\ \A i \in DOMAIN s : s[i] \in Nat
    BY DEF InOrder
<1>. QED
    BY <1>1 DEF InOrder

LEMMA EmptyFits ==
    ASSUME NEW last \in Nat, NEW s, InOrder(s, last)
    PROVE  InOrder(<<>>, last) /\ Fits(<<>>, s) /\ Fits(s, <<>>) /\ Fits(s, s) /\ Len(s) \in Nat
    BY Limits DEF InOrder, Fits

\* An outcome is remembered, and when the memory is full the oldest one is forgotten.
LEMMA Remembered ==
    ASSUME NEW last \in Nat, NEW s, InOrder(s, last),
           NEW t, t = Service!Latest(Append(s, last + 1))
    PROVE  /\ InOrder(t, last + 1) /\ Len(s) <= Len(t)
           /\ \A e : InOrder(e, last) /\ Len(e) <= Len(s) /\ Fits(e, s) => Fits(e, t)
<1>1. /\ s \in Seq(Nat) /\ Len(s) \in Nat /\ Len(s) <= KEntries /\ KEntries \in Nat \ {0}
      /\ \A i \in 1..Len(s) : s[i] \in Nat /\ s[i] <= last
      /\ \A i, j \in 1..Len(s) : i < j => s[i] < s[j]
    BY OrderFacts
<1>. DEFINE a == Append(s, last + 1)
<1>2. /\ a \in Seq(Nat) /\ Len(a) = Len(s) + 1
      /\ a[Len(s) + 1] = last + 1 /\ \A i \in 1..Len(s) : a[i] = s[i]
    BY <1>1
<1>3. t = IF Len(s) + 1 > KEntries THEN Tail(a) ELSE a
    BY <1>2 DEF Service!Latest
<1>. HIDE DEF a
<1>4. ASSUME NEW i \in 1..Len(s) + 1
      PROVE  a[i] \in Nat /\ a[i] <= last + 1
  <2>1. CASE i \in 1..Len(s)
    <3>1. a[i] = s[i] /\ s[i] \in Nat /\ s[i] <= last
        BY <1>1, <1>2, <2>1
    <3>. QED
        BY <3>1
  <2>2. CASE i = Len(s) + 1
    BY <1>2, <2>2
  <2>. QED
    BY <1>1, <2>1, <2>2
<1>5. ASSUME NEW i \in 1..Len(s) + 1, NEW j \in 1..Len(s) + 1, i < j
      PROVE  a[i] < a[j]
  <2>1. i \in 1..Len(s) /\ a[i] = s[i] /\ s[i] \in Nat /\ s[i] <= last
    BY <1>1, <1>2, <1>5, SMTT(20)
  <2>2. CASE j \in 1..Len(s)
    BY <1>1, <1>2, <1>5, <2>1, <2>2
  <2>3. CASE j = Len(s) + 1
    BY <1>2, <2>1, <2>3
  <2>. QED
    BY <1>1, <2>2, <2>3
<1>6. CASE Len(s) < KEntries
  <2>1. t = a /\ t \in Seq(Nat) /\ Len(t) = Len(s) + 1 /\ Len(t) <= KEntries
    BY <1>1, <1>2, <1>3, <1>6
  <2>2. InOrder(t, last + 1)
    <3>1. \A i \in 1..Len(t) : t[i] <= last + 1
        BY <1>4, <2>1
    <3>2. \A i, j \in 1..Len(t) : i < j => t[i] < t[j]
        BY <1>5, <2>1
    <3>. QED
        BY <2>1, <3>1, <3>2, OrderIntro, last + 1 \in Nat
  <2>3. ASSUME NEW e, InOrder(e, last), Len(e) <= Len(s), Fits(e, s)
        PROVE  Fits(e, t)
    <3>1. e \in Seq(Nat) /\ Len(e) \in Nat /\ \A i \in 1..Len(e) : e[i] \in Nat
        BY <2>3, OrderFacts
    <3>2. BeginsWith(e, s)
        BY <1>1, <1>6, <2>3, <3>1, FitsFacts
    <3>3. ASSUME NEW i \in 1..Len(e)
          PROVE  e[i] = t[i]
      <4>1. i \in 1..Len(s) /\ e[i] = s[i]
        BY <1>1, <2>3, <3>1, <3>2 DEF BeginsWith
      <4>. QED
        BY <1>2, <2>1, <4>1
    <3>4. BeginsWith(e, t) /\ Older(e, t)
        BY <3>1, <3>3 DEF BeginsWith, Older
    <3>. QED
        BY <2>1, <3>1, <3>4, FitsIntro
  <2>. QED
    BY <1>1, <2>1, <2>2, <2>3
<1>7. CASE Len(s) = KEntries
  <2>1. t = Tail(a) /\ t \in Seq(Nat) /\ Len(t) = Len(s)
    BY <1>1, <1>2, <1>3, <1>7
  <2>2. ASSUME NEW i \in 1..Len(s)
        PROVE  t[i] = a[i + 1] /\ i + 1 \in 1..Len(s) + 1 /\ i \in 1..Len(s) + 1
    <3>1. i + 1 \in 1..Len(s) + 1 /\ i \in 1..Len(s) + 1
        BY <1>1
    <3>2. a # <<>>
        BY <1>1, <1>2
    <3>3. Tail(a)[i] = a[i + 1]
        BY <1>1, <1>2, <3>2, HeadTailProperties
    <3>. QED
        BY <2>1, <3>1, <3>3
  <2>3. \A i \in 1..Len(s) : t[i] <= last + 1
    BY <1>4, <2>2
  <2>4. ASSUME NEW i \in 1..Len(s), NEW j \in 1..Len(s), i < j
        PROVE  t[i] < t[j]
    <3>1. i + 1 < j + 1
        BY <1>1, <2>4
    <3>. QED
        BY <1>5, <2>2, <3>1
  <2>5. InOrder(t, last + 1)
    <3>1. \A i, j \in 1..Len(t) : i < j => t[i] < t[j]
        BY <2>1, <2>4
    <3>. QED
        BY <1>1, <2>1, <2>3, <3>1, OrderIntro, last + 1 \in Nat
  <2>6. ASSUME NEW i \in 1..Len(s)
        PROVE  s[i] <= t[i] /\ s[i] \in Nat /\ t[i] \in Nat
    <3>1. a[i] < a[i + 1] /\ a[i] = s[i] /\ a[i + 1] \in Nat /\ a[i] \in Nat
        BY <1>1, <1>2, <1>4, <1>5, <2>2, SMTT(30)
    <3>. QED
        BY <2>2, <3>1
  <2>7. ASSUME NEW e, InOrder(e, last), Len(e) <= Len(s), Fits(e, s)
        PROVE  Fits(e, t)
    <3>1. e \in Seq(Nat) /\ Len(e) \in Nat /\ \A i \in 1..Len(e) : e[i] \in Nat
        BY <2>7, OrderFacts
    <3>2. CASE Len(e) < KEntries
      <4>1. Older(e, s)
        BY <1>1, <1>7, <2>7, <3>1, <3>2, FitsFacts
      <4>2. ASSUME NEW i \in 1..Len(e)
            PROVE  e[i] <= t[i]
        <5>1. i \in 1..Len(s)
            BY <1>1, <2>7, <3>1
        <5>2. e[i] <= s[i] /\ e[i] \in Nat
            BY <3>1, <4>1 DEF Older
        <5>. QED
            BY <2>6, <5>1, <5>2
      <4>3. Older(e, t) /\ ~(Len(t) < KEntries)
        BY <1>1, <1>7, <2>1, <4>2 DEF Older
      <4>. QED
        BY <2>1, <3>1, <4>3, FitsIntro
    <3>3. CASE ~(Len(e) < KEntries)
        BY <2>1, <3>1, <3>3, FitsFacts
    <3>. QED
        BY <3>2, <3>3
  <2>. QED
    BY <1>1, <2>1, <2>5, <2>7
<1>8. Len(s) < KEntries \/ Len(s) = KEntries
    BY <1>1
<1>. QED
    BY <1>6, <1>7, <1>8

\* A copy is written over what another thread wrote. What is longer is newer, so that the entries
\* behind it are newer, too.
LEMMA Overwritten ==
    ASSUME NEW last \in Nat, NEW s, NEW e, NEW m, InOrder(s, last), InOrder(e, last), InOrder(m, last),
           Len(s) <= Len(m), Fits(s, m), Len(e) <= Len(m), Fits(e, m), Fits(e, s),
           NEW t, t = Service!Overwrite(s, e)
    PROVE  /\ InOrder(t, last) /\ Len(t) <= Len(m) /\ Fits(t, m)
           /\ \A d : InOrder(d, last) /\ Fits(d, s) /\ Fits(d, e) /\ Fits(e, d) => Fits(d, t)
<1>1. /\ s \in Seq(Nat) /\ Len(s) \in Nat /\ DOMAIN s = 1..Len(s) /\ Len(s) <= KEntries
      /\ \A i \in 1..Len(s) : s[i] \in Nat /\ s[i] <= last
      /\ \A i, j \in 1..Len(s) : i < j => s[i] < s[j]
    BY OrderFacts
<1>2. /\ e \in Seq(Nat) /\ Len(e) \in Nat /\ DOMAIN e = 1..Len(e) /\ Len(e) <= KEntries
      /\ \A i \in 1..Len(e) : e[i] \in Nat /\ e[i] <= last
      /\ \A i, j \in 1..Len(e) : i < j => e[i] < e[j]
    BY OrderFacts
<1>3. m \in Seq(Nat) /\ Len(m) \in Nat /\ Len(m) <= KEntries /\ KEntries \in Nat
    BY OrderFacts
<1>4. CASE Len(s) <= Len(e)
  <2>1. DOMAIN s \cup DOMAIN e = 1..Len(e)
    BY <1>1, <1>2, <1>4
  <2>2. t = [i \in 1..Len(e) |-> e[i]]
    BY <1>2, <2>1 DEF Service!Overwrite
  <2>3. t = e
    BY <1>2, <2>2
  <2>. QED
    BY <2>3
<1>5. CASE Len(e) < Len(s)
  <2>1. DOMAIN s \cup DOMAIN e = 1..Len(s) /\ Len(e) < KEntries /\ Len(e) <= Len(s)
    BY <1>1, <1>2, <1>3, <1>5
  <2>2. t = [i \in 1..Len(s) |-> IF i \in 1..Len(e) THEN e[i] ELSE s[i]]
    BY <1>2, <2>1 DEF Service!Overwrite
  <2>3. \A i \in 1..Len(s) : IF i \in 1..Len(e) THEN t[i] = e[i] ELSE t[i] = s[i]
    BY <2>2
  <2>4. \A i \in 1..Len(s) : t[i] \in Nat /\ t[i] <= last
    BY <1>1, <1>2, <2>3
  <2>5. t \in Seq(Nat) /\ Len(t) = Len(s)
    BY <1>1, <2>2, <2>4
  <2>6. Older(e, s)
    BY <1>1, <1>2, <2>1, FitsOlder
  <2>7. ASSUME NEW i \in 1..Len(s), NEW j \in 1..Len(s), i < j
        PROVE  t[i] < t[j]
    <3>1. CASE i \in 1..Len(e) /\ j \in 1..Len(e)
        BY <1>2, <2>3, <2>7, <3>1
    <3>2. CASE i \in 1..Len(e) /\ j \notin 1..Len(e)
      <4>1. t[i] = e[i] /\ t[j] = s[j] /\ e[i] <= s[i] /\ s[i] < s[j]
        BY <1>1, <2>3, <2>6, <2>7, <3>2 DEF Older
      <4>2. e[i] \in Nat /\ s[i] \in Nat /\ s[j] \in Nat
        BY <1>1, <1>2, <3>2
      <4>. QED
        BY <4>1, <4>2
    <3>3. CASE i \notin 1..Len(e) /\ j \notin 1..Len(e)
        BY <1>1, <2>3, <2>7, <3>3
    <3>4. CASE i \notin 1..Len(e) /\ j \in 1..Len(e)
        BY <1>1, <1>2, <2>7, <3>4
    <3>. QED
        BY <3>1, <3>2, <3>3, <3>4
  <2>8. InOrder(t, last)
    BY <1>1, <2>4, <2>5, <2>7, OrderIntro
  <2>9. Fits(t, m)
    <3>1. SUFFICES ASSUME Len(s) < KEntries, Len(s) <= Len(m)
                   PROVE  IF Len(m) < KEntries THEN BeginsWith(t, m) ELSE Older(t, m)
        BY <1>3, <2>5, FitsIntro
    <3>2. Len(e) <= Len(m)
        OBVIOUS
    <3>3. CASE Len(m) < KEntries
      <4>1. BeginsWith(s, m) /\ BeginsWith(e, m)
        BY <1>1, <1>2, <1>3, <2>1, <3>1, <3>2, <3>3, FitsFacts
      <4>. QED
        BY <2>3, <2>5, <3>3, <4>1 DEF BeginsWith
    <3>4. CASE ~(Len(m) < KEntries)
      <4>1. Older(s, m) /\ Older(e, m)
        BY <1>1, <1>2, <1>3, <2>1, <3>1, <3>2, <3>4, FitsFacts
      <4>. QED
        BY <2>3, <2>5, <3>4, <4>1 DEF Older
    <3>. QED
        BY <3>3, <3>4
  <2>10. ASSUME NEW d, InOrder(d, last), Fits(d, s), Fits(d, e), Fits(e, d)
         PROVE  Fits(d, t)
    <3>1. d \in Seq(Nat) /\ Len(d) \in Nat /\ \A i \in 1..Len(d) : d[i] \in Nat
        BY <2>10, OrderFacts
    <3>2. SUFFICES ASSUME Len(d) <= Len(s), Len(d) < KEntries
                   PROVE  IF Len(s) < KEntries THEN BeginsWith(d, t) ELSE Older(d, t)
        BY <2>5, <3>1, FitsIntro
    <3>3. ASSUME NEW i \in 1..Len(d), i \in 1..Len(e)
          PROVE  d[i] = e[i]
      <4>1. CASE Len(d) <= Len(e)
        <5>1. BeginsWith(d, e)
            BY <1>2, <2>1, <2>10, <3>1, <3>2, <4>1, FitsFacts
        <5>. QED
            BY <5>1 DEF BeginsWith
      <4>2. CASE Len(e) <= Len(d)
        <5>1. BeginsWith(e, d)
            BY <1>2, <2>1, <2>10, <3>1, <3>2, <4>2, FitsFacts
        <5>. QED
            BY <3>3, <5>1 DEF BeginsWith
      <4>. QED
        BY <1>2, <3>1, <4>1, <4>2
    <3>4. ASSUME NEW i \in 1..Len(d)
          PROVE  i \in 1..Len(s) /\ d[i] \in Nat
        BY <1>1, <3>1, <3>2
    <3>5. CASE Len(s) < KEntries
      <4>1. BeginsWith(d, s)
        BY <1>1, <2>10, <3>1, <3>2, <3>5, FitsFacts
      <4>2. ASSUME NEW i \in 1..Len(d)
            PROVE  d[i] = t[i]
        BY <2>3, <3>3, <3>4, <4>1 DEF BeginsWith
      <4>. QED
        BY <3>5, <4>2 DEF BeginsWith
    <3>6. CASE ~(Len(s) < KEntries)
      <4>1. Older(d, s)
        BY <1>1, <2>10, <3>1, <3>2, <3>6, FitsFacts
      <4>2. ASSUME NEW i \in 1..Len(d)
            PROVE  d[i] <= t[i]
        <5>1. CASE i \in 1..Len(e)
            BY <2>3, <3>3, <3>4, <5>1
        <5>2. CASE i \notin 1..Len(e)
            BY <2>3, <3>4, <4>1, <5>2 DEF Older
        <5>. QED
            BY <5>1, <5>2
      <4>. QED
        BY <3>6, <4>2 DEF Older
    <3>. QED
        BY <3>5, <3>6
  <2>. QED
    BY <2>5, <2>8, <2>9, <2>10
<1>. QED
    BY <1>1, <1>2, <1>4, <1>5

-----------------------------------------------------------------------------
\* The service, action by action.

\* The steps of the endpoints that neither copy what is remembered nor touch its file.
EndpointStep(c) ==
    \/ Service!Receive(c) \/ Service!StartRuntime(c) \/ Service!Activate(c) \/ Service!Install(c)
    \/ Service!Observe(c) \/ Service!Deactivate(c) \/ Service!Forget(c) \/ Service!Uninstall(c)
    \/ Service!Unobserve(c) \/ Service!RequestHalt(c) \/ Service!Halt(c) \/ Service!SetGoal(c)
    \/ Service!TruncateGoal(c) \/ Service!WriteGoal(c)

RuntimeStep ==
    \/ Service!CallProvider \/ Service!TakeSnapshot \/ Service!Enqueue \/ Service!Execute \/ Service!RuntimeEnds

LEMMA EndpointKeepsOrder ==
    ASSUME NEW c \in Clients, EndpointStep(c)
    PROVE  UNCHANGED <<copied, remembered, recorded, experienceFile>>
<1>. USE DEF Service!threads, Service!service, Service!memory, Service!runtime, Service!files
<1>1. CASE Service!Receive(c)
    BY <1>1 DEF Service!Receive
<1>2. CASE Service!StartRuntime(c)
    BY <1>2 DEF Service!StartRuntime
<1>3. CASE Service!Activate(c)
    BY <1>3 DEF Service!Activate
<1>4. CASE Service!Install(c)
    BY <1>4 DEF Service!Install
<1>5. CASE Service!Observe(c)
    BY <1>5 DEF Service!Observe
<1>6. CASE Service!Deactivate(c)
    BY <1>6 DEF Service!Deactivate
<1>7. CASE Service!Forget(c)
    BY <1>7 DEF Service!Forget
<1>8. CASE Service!Uninstall(c)
    BY <1>8 DEF Service!Uninstall
<1>9. CASE Service!Unobserve(c)
    BY <1>9 DEF Service!Unobserve
<1>10. CASE Service!RequestHalt(c)
    BY <1>10 DEF Service!RequestHalt
<1>11. CASE Service!Halt(c)
    BY <1>11 DEF Service!Halt
<1>12. CASE Service!SetGoal(c)
    BY <1>12 DEF Service!SetGoal
<1>13. CASE Service!TruncateGoal(c)
    BY <1>13 DEF Service!TruncateGoal
<1>14. CASE Service!WriteGoal(c)
    BY <1>14 DEF Service!WriteGoal
<1>. QED
    BY <1>1, <1>2, <1>3, <1>4, <1>5, <1>6, <1>7, <1>8, <1>9, <1>10, <1>11, <1>12, <1>13, <1>14 DEF EndpointStep

LEMMA EndpointTypes ==
    ASSUME ServiceTypes, NEW c \in Clients, EndpointStep(c)
    PROVE  ServiceTypes'
<1>1. UNCHANGED <<copied, recorded>>
    BY EndpointKeepsOrder
<1>. USE DEF Service!threads, Service!service, Service!memory, Service!runtime, Service!files, ServiceTypes,
             Service!Continue, Service!Answer
<1>2. CASE Service!Receive(c)
  <2>1. PICK g \in SavedGoals \cup {"none"} : argument' = [argument EXCEPT ![c] = g]
    BY <1>2 DEF Service!Receive
  <2>2. UNCHANGED <<goal, goalFile>>
    BY <1>2 DEF Service!Receive
  <2>. QED
    BY <1>1, <2>1, <2>2
<1>3. CASE Service!SetGoal(c)
    BY <1>1, <1>3 DEF Service!SetGoal
<1>4. CASE Service!TruncateGoal(c)
    BY <1>1, <1>4 DEF Service!TruncateGoal
<1>5. CASE Service!WriteGoal(c)
    BY <1>1, <1>5 DEF Service!WriteGoal
<1>6. CASE \/ Service!StartRuntime(c) \/ Service!Activate(c) \/ Service!Install(c) \/ Service!Observe(c)
          \/ Service!Deactivate(c) \/ Service!Forget(c) \/ Service!Uninstall(c)
          \/ Service!Unobserve(c) \/ Service!RequestHalt(c) \/ Service!Halt(c)
  <2>1. UNCHANGED <<argument, goal, goalFile>>
    BY <1>6 DEF Service!StartRuntime, Service!Activate, Service!Install, Service!Observe, Service!Deactivate,
               Service!Forget, Service!Uninstall, Service!Unobserve, Service!RequestHalt, Service!Halt
  <2>. QED
    BY <1>1, <2>1
<1>. QED
    BY <1>2, <1>3, <1>4, <1>5, <1>6 DEF EndpointStep

LEMMA OrderUnchanged ==
    ASSUME ServiceOrder, UNCHANGED <<copied, remembered, recorded, experienceFile>>
    PROVE  ServiceOrder'
    BY DEF ServiceOrder, Earlier, Copy

\* A copy is taken: it is what is remembered now.
LEMMA CopyTaken ==
    ASSUME ServiceInv, NEW c \in Clients, Service!ReadExperience(c)
    PROVE  ServiceInv'
<1>. USE DEF Service!service, Service!memory, Service!runtime, Service!files
<1>1. /\ UNCHANGED <<goal, remembered, recorded, goalFile, experienceFile, argument>>
      /\ copied' = [copied EXCEPT ![c].experience = remembered]
    BY DEF Service!ReadExperience, Service!Continue
<1>2. remembered \in Seq(Nat) /\ InOrder(remembered, recorded) /\ recorded \in Nat
    BY DEF ServiceInv, ServiceOrder, ServiceTypes, InOrder
<1>3. ServiceTypes'
    BY <1>1, <1>2 DEF ServiceInv, ServiceTypes
<1>4. \A d \in Clients : Copy(d)' = IF d = c THEN remembered ELSE Copy(d)
    BY <1>1 DEF Copy, ServiceInv, ServiceTypes
<1>5. Fits(remembered, remembered)
    BY <1>2, EmptyFits
<1>6. ASSUME NEW s, InOrder(s, recorded), Len(s) <= Len(remembered), Fits(s, remembered)
      PROVE  Fits(remembered, s)
  <2>1. s \in Seq(Nat) /\ Len(s) \in Nat /\ \A i \in 1..Len(s) : s[i] \in Nat
    BY <1>2, <1>6, OrderFacts
  <2>2. Len(remembered) \in Nat
    BY <1>2
  <2>3. SUFFICES ASSUME Len(remembered) <= Len(s), Len(remembered) < KEntries
                 PROVE  Len(s) < KEntries /\ BeginsWith(remembered, s)
    BY <1>2, <2>1, FitsIntro
  <2>4. Len(s) = Len(remembered)
    BY <1>6, <2>1, <2>2, <2>3
  <2>5. BeginsWith(s, remembered)
    BY <1>2, <1>6, <2>1, <2>3, <2>4, FitsFacts
  <2>. QED
    BY <2>3, <2>4, <2>5 DEF BeginsWith
<1>7. ServiceOrder'
  <2>1. InOrder(remembered, recorded)' /\ Earlier(experienceFile)'
    BY <1>1 DEF ServiceInv, ServiceOrder, Earlier
  <2>2. ASSUME NEW d \in Clients
        PROVE  Earlier(Copy(d))' /\ Fits(Copy(d), experienceFile)'
    <3>1. CASE d = c
        BY <1>1, <1>2, <1>4, <1>5, <1>6, <3>1 DEF ServiceInv, ServiceOrder, Earlier
    <3>2. CASE d # c
        BY <1>1, <1>4, <3>2 DEF ServiceInv, ServiceOrder, Earlier
    <3>. QED
        BY <3>1, <3>2
  <2>3. ASSUME NEW d \in Clients, NEW e \in Clients
        PROVE  Fits(Copy(d), Copy(e))'
    <3>1. Fits(Copy(d), remembered) /\ Fits(remembered, Copy(e)) /\ Fits(Copy(d), Copy(e))
        BY <1>6 DEF ServiceInv, ServiceOrder, Earlier
    <3>. QED
        BY <1>4, <1>5, <3>1
  <2>. QED
    BY <2>1, <2>2, <2>3 DEF ServiceOrder
<1>. QED
    BY <1>3, <1>7 DEF ServiceInv

LEMMA GoalCopied ==
    ASSUME ServiceInv, NEW c \in Clients, Service!ReadGoal(c)
    PROVE  ServiceInv'
<1>. USE DEF Service!service, Service!memory, Service!runtime, Service!files
<1>1. /\ UNCHANGED <<goal, remembered, recorded, goalFile, experienceFile, argument>>
      /\ copied' = [copied EXCEPT ![c].goal = goal]
    BY DEF Service!ReadGoal, Service!Continue
<1>2. ServiceTypes'
    BY <1>1 DEF ServiceInv, ServiceTypes
<1>3. \A d \in Clients : Copy(d)' = Copy(d)
    BY <1>1 DEF Copy, ServiceInv, ServiceTypes
<1>4. ServiceOrder'
    BY <1>1, <1>3 DEF ServiceInv, ServiceOrder, Earlier
<1>. QED
    BY <1>2, <1>4 DEF ServiceInv

\* The file is emptied, and written: with a copy that may be older than what is there.
LEMMA FileTruncated ==
    ASSUME ServiceInv, NEW c \in Clients, Service!TruncateExperience(c)
    PROVE  ServiceInv'
<1>. USE DEF Service!service, Service!memory, Service!runtime, Service!files
<1>1. /\ UNCHANGED <<goal, remembered, recorded, goalFile, copied, argument>>
      /\ experienceFile' = <<>>
    BY DEF Service!TruncateExperience, Service!Continue
<1>2. ServiceTypes'
    BY <1>1 DEF ServiceInv, ServiceTypes
<1>3. \A d \in Clients : Copy(d)' = Copy(d)
    BY <1>1 DEF Copy
<1>4. recorded \in Nat /\ InOrder(remembered, recorded) /\ \A d \in Clients : InOrder(Copy(d), recorded)
    BY DEF ServiceInv, ServiceTypes, ServiceOrder, Earlier
<1>5. /\ InOrder(<<>>, recorded) /\ Fits(<<>>, remembered) /\ Len(remembered) \in Nat
      /\ \A d \in Clients : Fits(Copy(d), <<>>)
    BY <1>4, EmptyFits
<1>6. ServiceOrder'
    BY <1>1, <1>3, <1>5 DEF ServiceInv, ServiceOrder, Earlier
<1>. QED
    BY <1>2, <1>6 DEF ServiceInv

LEMMA FileWritten ==
    ASSUME ServiceInv, NEW c \in Clients, Service!WriteExperience(c)
    PROVE  ServiceInv'
<1>. USE DEF Service!service, Service!memory, Service!runtime, Service!files
<1>1. /\ UNCHANGED <<goal, remembered, recorded, goalFile, copied, argument>>
      /\ experienceFile' = Service!Overwrite(experienceFile, Copy(c))
    BY DEF Service!WriteExperience, Service!Continue, Copy
<1>2. ServiceTypes'
    BY <1>1 DEF ServiceInv, ServiceTypes
<1>3. \A d \in Clients : Copy(d)' = Copy(d)
    BY <1>1 DEF Copy
<1>4. /\ recorded \in Nat /\ InOrder(remembered, recorded)
      /\ InOrder(experienceFile, recorded) /\ Len(experienceFile) <= Len(remembered)
      /\ Fits(experienceFile, remembered)
      /\ \A d \in Clients : /\ InOrder(Copy(d), recorded) /\ Len(Copy(d)) <= Len(remembered)
                            /\ Fits(Copy(d), remembered) /\ Fits(Copy(d), experienceFile)
      /\ \A d, e \in Clients : Fits(Copy(d), Copy(e))
    BY DEF ServiceInv, ServiceTypes, ServiceOrder, Earlier
<1>. DEFINE t == Service!Overwrite(experienceFile, Copy(c))
<1>5. /\ InOrder(t, recorded) /\ Len(t) <= Len(remembered) /\ Fits(t, remembered)
      /\ \A s : InOrder(s, recorded) /\ Fits(s, experienceFile) /\ Fits(s, Copy(c)) /\ Fits(Copy(c), s) => Fits(s, t)
    BY <1>4, Overwritten
<1>6. \A d \in Clients : Fits(Copy(d), t)
    BY <1>4, <1>5
<1>. HIDE DEF t
<1>7. ServiceOrder'
    BY <1>1, <1>3, <1>4, <1>5, <1>6 DEF ServiceOrder, Earlier, t
<1>. QED
    BY <1>2, <1>7 DEF ServiceInv

\* An outcome is reported.
LEMMA OutcomeReported ==
    ASSUME ServiceInv, Service!Report
    PROVE  ServiceInv'
<1>. USE DEF Service!threads, Service!service, Service!memory, Service!runtime, Service!files
<1>1. UNCHANGED <<goal, goalFile, copied, argument, experienceFile>>
    BY DEF Service!Report
<1>2. CASE UNCHANGED <<remembered, recorded>>
    BY <1>1, <1>2, OrderUnchanged DEF ServiceInv, ServiceTypes
<1>3. CASE recorded' = recorded + 1 /\ remembered' = Service!Latest(Append(remembered, recorded + 1))
  <2>1. recorded \in Nat /\ recorded + 1 \in Nat /\ recorded <= recorded + 1 /\ InOrder(remembered, recorded)
    BY DEF ServiceInv, ServiceTypes, ServiceOrder
  <2>2. ServiceTypes'
    BY <1>1, <1>3, <2>1 DEF ServiceInv, ServiceTypes
  <2>3. /\ InOrder(remembered, recorded)' /\ Len(remembered) <= Len(remembered')
        /\ \A e : InOrder(e, recorded) /\ Len(e) <= Len(remembered) /\ Fits(e, remembered) => Fits(e, remembered')
    BY <1>3, <2>1, Remembered
  <2>4. Len(remembered) \in Nat /\ Len(remembered') \in Nat
    BY <2>1, <2>3, <1>3, OrderFacts
  <2>5. ASSUME NEW e, Earlier(e)
        PROVE  InOrder(e, recorded') /\ Len(e) <= Len(remembered') /\ Fits(e, remembered')
    <3>1. InOrder(e, recorded) /\ Len(e) <= Len(remembered) /\ Fits(e, remembered)
        BY <2>5 DEF Earlier
    <3>2. Len(e) \in Nat
        BY <2>1, <3>1, OrderFacts
    <3>3. InOrder(e, recorded + 1)
        BY <2>1, <3>1, InOrderLater
    <3>. QED
        BY <1>3, <2>3, <2>4, <3>1, <3>2, <3>3
  <2>6. \A d \in Clients : Copy(d)' = Copy(d)
    BY <1>1 DEF Copy
  <2>7. ServiceOrder'
    <3>1. Earlier(experienceFile)'
        BY <1>1, <2>5 DEF ServiceInv, ServiceOrder, Earlier
    <3>2. \A d \in Clients : Earlier(Copy(d))'
        BY <2>5, <2>6 DEF ServiceInv, ServiceOrder, Earlier
    <3>. QED
        BY <1>1, <2>3, <2>6, <3>1, <3>2 DEF ServiceInv, ServiceOrder
  <2>. QED
    BY <2>2, <2>7 DEF ServiceInv
<1>. QED
    BY <1>2, <1>3 DEF Service!Report

\* The process ends: what was being written may have been written in part.
LEMMA ProcessEnds ==
    ASSUME ServiceInv, Service!Crash
    PROVE  ServiceInv'
<1>1. /\ goal' = goalFile /\ UNCHANGED <<recorded, goalFile>> /\ remembered' = experienceFile'
      /\ argument' = [c \in Clients |-> "none"]
      /\ copied' = [c \in Clients |-> [goal |-> "none", experience |-> <<>>]]
    BY DEF Service!Crash
<1>2. ServiceTypes'
    BY <1>1 DEF ServiceInv, ServiceTypes
<1>3. recorded \in Nat /\ InOrder(experienceFile, recorded)
    BY DEF ServiceInv, ServiceTypes, ServiceOrder, Earlier
<1>4. InOrder(experienceFile', recorded)
  <2>1. CASE UNCHANGED experienceFile
    BY <1>3, <2>1
  <2>2. ASSUME NEW c \in Clients, NEW n \in 1..Len(Copy(c)), experienceFile' = SubSeq(Copy(c), 1, n)
        PROVE  InOrder(experienceFile', recorded)
    <3>1. InOrder(Copy(c), recorded)
        BY DEF ServiceInv, ServiceOrder, Earlier
    <3>2. /\ Copy(c) \in Seq(Nat) /\ Len(Copy(c)) \in Nat /\ Len(Copy(c)) <= KEntries /\ KEntries \in Nat
          /\ \A i \in 1..Len(Copy(c)) : Copy(c)[i] \in Nat /\ Copy(c)[i] <= recorded
          /\ \A i, j \in 1..Len(Copy(c)) : i < j => Copy(c)[i] < Copy(c)[j]
        BY <1>3, <3>1, OrderFacts
    <3>. DEFINE t == SubSeq(Copy(c), 1, n)
    <3>3. t \in Seq(Nat) /\ Len(t) = n /\ \A i \in 1..n : t[i] = Copy(c)[i] /\ i \in 1..Len(Copy(c))
        BY <3>2
    <3>. HIDE DEF t
    <3>4. Len(t) <= KEntries /\ \A i \in 1..Len(t) : t[i] <= recorded
        BY <3>2, <3>3, SMTT(30)
    <3>5. \A i, j \in 1..Len(t) : i < j => t[i] < t[j]
        BY <3>2, <3>3
    <3>6. InOrder(t, recorded)
        BY <1>3, <3>3, <3>4, <3>5, OrderIntro
    <3>. QED
        BY <2>2, <3>6 DEF t
  <2>. QED
    BY <2>1, <2>2 DEF Service!Crash, Copy
<1>5. \A c \in Clients : Copy(c)' = <<>>
    BY <1>1 DEF Copy
<1>6. /\ Fits(experienceFile', experienceFile') /\ Fits(<<>>, experienceFile') /\ Fits(<<>>, <<>>)
      /\ InOrder(<<>>, recorded) /\ Len(experienceFile') \in Nat
    BY <1>3, <1>4, EmptyFits
<1>7. ServiceOrder'
    BY <1>1, <1>4, <1>5, <1>6 DEF ServiceOrder, Earlier
<1>. QED
    BY <1>2, <1>7 DEF ServiceInv

LEMMA ServiceBegins ==
    ASSUME Service!Init
    PROVE  ServiceInv
<1>1. /\ goal = "none" /\ goalFile = "none" /\ recorded = 0 /\ remembered = <<>> /\ experienceFile = <<>>
      /\ argument = [c \in Clients |-> "none"]
      /\ copied = [c \in Clients |-> [goal |-> "none", experience |-> <<>>]]
    BY DEF Service!Init
<1>2. ServiceTypes
    BY <1>1 DEF ServiceTypes
<1>3. InOrder(<<>>, 0)
    BY Limits DEF InOrder
<1>4. Fits(<<>>, <<>>) /\ Len(<<>>) <= Len(<<>>)
    BY <1>3, EmptyFits
<1>5. \A c \in Clients : Copy(c) = <<>>
    BY <1>1 DEF Copy
<1>6. ServiceOrder
    BY <1>1, <1>3, <1>4, <1>5 DEF ServiceOrder, Earlier
<1>. QED
    BY <1>2, <1>6 DEF ServiceInv

LEMMA ServiceKept ==
    ASSUME ServiceInv, [Service!Next]_(Service!vars)
    PROVE  ServiceInv'
<1>. USE DEF Service!threads, Service!service, Service!memory, Service!runtime, Service!files
<1>1. ASSUME NEW c \in Clients, EndpointStep(c)
      PROVE  ServiceInv'
    BY <1>1, EndpointTypes, EndpointKeepsOrder, OrderUnchanged DEF ServiceInv
<1>2. CASE RuntimeStep
  <2>1. UNCHANGED <<copied, argument, goal, goalFile, remembered, recorded, experienceFile>>
    BY <1>2 DEF RuntimeStep, Service!CallProvider, Service!TakeSnapshot, Service!Enqueue, Service!Execute,
               Service!RuntimeEnds
  <2>. QED
    BY <2>1, OrderUnchanged DEF ServiceInv, ServiceTypes
<1>3. CASE UNCHANGED Service!vars
  <2>1. UNCHANGED <<copied, argument, goal, goalFile, remembered, recorded, experienceFile>>
    BY <1>3 DEF Service!vars
  <2>. QED
    BY <2>1, OrderUnchanged DEF ServiceInv, ServiceTypes
<1>. QED
    BY <1>1, <1>2, <1>3, CopyTaken, GoalCopied, FileTruncated, FileWritten, OutcomeReported, ProcessEnds
    DEF Service!Next, EndpointStep, RuntimeStep

-----------------------------------------------------------------------------
\* Starts and stops of several clients. What is left of a call is one of these.

Later(steps) == {SubSeq(steps, k, Len(steps)) : k \in 1..Len(steps) + 1}

Plans == UNION {Later(Service!Steps(call)) : call \in {"start", "stop", "control stop", "goal"}}

PlaceOf(t) == IF t = <<>> THEN "away" ELSE Head(t)

Place(c) == PlaceOf(todo[c])
StepsLeft(c) == Len(todo[c])

TodoTyped == todo \in [Clients -> Plans]

RuntimeTyped ==
    /\ active \in BOOLEAN /\ provider \in BOOLEAN /\ observer \in BOOLEAN /\ recorded \in 0..KReports
    /\ worker \in {"idle", "called", "deciding"} /\ executing \in {"idle", "observed", "unobserved"}
    /\ queued \in 0..KQueued

\* A worker that decides found the runtime active.
LateOnce == late \in {0, 1} /\ (active => late = 0) /\ (late = 1 => worker # "deciding")

\* Whom a call has met is in its history.
MetInv == \A c, d \in Clients : c # d => Service!Meets(todo[c], todo[d]) \subseteq met[c]

\* A start that has installed something, and a stop that found the runtime active or has uninstalled
\* something: a stop that finds it active has 8 steps left when it uninstalls the provider, one that
\* forgets it later has 11.
BeingStarted(c) == Place(c) \in {"install", "observe"}
StoppedFirst(c) == Place(c) = "uninstall" /\ StepsLeft(c) = 8
BeingStopped(c) == Place(c) \in {"unobserve", "forget"} \/ StoppedFirst(c)

ControlInv ==
    /\ control = "none" => ~active /\ ~provider /\ ~observer
    /\ \A c \in Clients : Place(c) = "activate" \/ BeingStarted(c) \/ StoppedFirst(c) => control # "none"

\* What a call that has met no opposite has done is not undone.
Undisturbed(c) ==
    /\ Place(c) = "install" => active
    /\ Place(c) = "observe" => active /\ provider
    /\ StoppedFirst(c) => ~active
    /\ Place(c) = "unobserve" => ~provider /\ (StepsLeft(c) = 7 => ~active)

ProgressInv == \A c \in Clients : "opposite" \in met[c] \/ Undisturbed(c)

\* What the start or stop that was carried through last has left, until another one acts.
SettledInv ==
    \/ "opposite" \in settled.met
    \/ /\ settled.call = "start" /\ \A c \in Clients : Place(c) # "forget"
       /\ (\E c \in Clients : BeingStopped(c)) \/ (active /\ provider /\ observer)
    \/ /\ settled.call # "start"
       /\ (\E c \in Clients : BeingStarted(c)) \/ (~provider /\ ~observer)
       /\ (\E c \in Clients : BeingStarted(c) \/ Place(c) = "forget") \/ ~active

Writing == {"truncate goal", "write goal", "truncate experience", "write experience"}
Unsaved == {"forget", "read goal", "read experience"}

Memories == {s \in Seq(Nat) : Len(s) <= KEntries}

\* Memory is what it was when the observer was uninstalled, and at most the one outcome that was
\* being reported; copies and file are one or the other, or somebody is about to write it.
Reported(old) ==
    \/ remembered = old
    \/ executing # "observed" /\ \E n \in 1..recorded : remembered = Service!Latest(Append(old, n))

Kept(old) ==
    /\ Reported(old)
    /\ \A c \in Clients : Place(c) \in Writing => Copy(c) \in {old, remembered}
    /\ (\E c \in Clients : Place(c) \in Unsaved \cup Writing) \/ experienceFile \in {old, remembered}
    /\ \A c \in Clients : Place(c) = "write experience" => experienceFile \in {<<>>, old, remembered}

AlonePersisted == settled = [call |-> "stop", met |-> {}]

SavedInv ==
    /\ settled.call = "stop" => ~observer
    /\ AlonePersisted => \E old \in Memories : Kept(old)

StoppingInv ==
    /\ TodoTyped /\ RuntimeTyped /\ LateOnce /\ MetInv
    /\ ControlInv /\ ProgressInv /\ SettledInv /\ SavedInv

\* The steps of the runtime, and those of a call that install and uninstall nothing.
FrameStep ==
    \/ Service!CallProvider \/ Service!TakeSnapshot \/ Service!Enqueue \/ Service!Execute
    \/ Service!Report \/ Service!RuntimeEnds

NeutralStep(c) ==
    \/ Service!RequestHalt(c) \/ Service!Halt(c) \/ Service!SetGoal(c)
    \/ Service!ReadGoal(c) \/ Service!ReadExperience(c) \/ Service!TruncateGoal(c) \/ Service!WriteGoal(c)
    \/ Service!TruncateExperience(c) \/ Service!WriteExperience(c)

InstallingStep(c) ==
    \/ Service!StartRuntime(c) \/ Service!Activate(c) \/ Service!Install(c) \/ Service!Observe(c)
    \/ Service!Deactivate(c) \/ Service!Forget(c) \/ Service!Uninstall(c) \/ Service!Unobserve(c)

-----------------------------------------------------------------------------
\* The calls, step by step.

StepNames ==
    {"start", "activate", "install", "observe", "deactivate", "uninstall", "unobserve", "forget", "goal",
     "read goal", "read experience", "truncate goal", "write goal", "truncate experience", "write experience",
     "request halt", "halt"}

LEMMA LaterFacts ==
    ASSUME NEW s \in Seq(StepNames), NEW t \in Later(s)
    PROVE  \/ t = <<>>
           \/ \E k \in 1..Len(s) :
                 /\ t # <<>> /\ Head(t) = s[k] /\ Len(t) = Len(s) + 1 - k /\ Tail(t) \in Later(s)
                 /\ IF k = Len(s) THEN Tail(t) = <<>> ELSE Tail(t) # <<>> /\ Head(Tail(t)) = s[k + 1]
<1>1. PICK k \in 1..Len(s) + 1 : t = SubSeq(s, k, Len(s))
    BY DEF Later
<1>2. CASE k = Len(s) + 1
    BY <1>1, <1>2
<1>3. CASE k \in 1..Len(s)
  <2>1. /\ t \in Seq(StepNames) /\ Len(t) = Len(s) + 1 - k /\ t # <<>> /\ Head(t) = s[k]
        /\ \A i \in 1..Len(t) : t[i] = s[k + i - 1]
    <3>1. k \in 1..Len(s) + 1 /\ Len(s) \in k - 1..Len(s) /\ k \in Nat /\ k <= Len(s) /\ Len(s) \in Nat
        BY <1>3
    <3>2. /\ t \in Seq(StepNames) /\ Len(t) = Len(s) - k + 1
          /\ \A i \in 1..Len(s) - k + 1 : t[i] = s[k + i - 1]
        BY <1>1, <3>1, SubSeqProperties
    <3>3. t # <<>> /\ 1 \in 1..Len(t) /\ Len(t) = Len(s) + 1 - k
        BY <3>1, <3>2
    <3>4. t[1] = s[k] /\ Head(t) = t[1]
        BY <3>1, <3>2, <3>3
    <3>. QED
        BY <3>2, <3>3, <3>4
  <2>. DEFINE r == SubSeq(s, k + 1, Len(s))
  <2>2. /\ r \in Seq(StepNames) /\ Len(r) = Len(s) - k
        /\ \A i \in 1..Len(r) : r[i] = s[k + i]
    <3>1. k + 1 \in 1..Len(s) + 1 /\ Len(s) \in k..Len(s) /\ k \in Nat /\ k <= Len(s) /\ Len(s) \in Nat
        BY <1>3
    <3>2. /\ r \in Seq(StepNames) /\ Len(r) = Len(s) - (k + 1) + 1
          /\ \A i \in 1..Len(s) - (k + 1) + 1 : r[i] = s[(k + 1) + i - 1]
        BY <3>1, SubSeqProperties
    <3>. QED
        BY <3>1, <3>2
  <2>3. r \in Later(s)
    <3>1. k + 1 \in 1..Len(s) + 1
        BY <1>3
    <3>. QED
        BY <3>1 DEF Later
  <2>4. Tail(t) = r
    <3>1. Tail(t) \in Seq(StepNames) /\ Len(Tail(t)) = Len(s) - k /\ \A i \in 1..Len(s) - k : Tail(t)[i] = t[i + 1]
        BY <1>3, <2>1, HeadTailProperties
    <3>2. \A i \in 1..Len(s) - k : Tail(t)[i] = r[i]
        BY <1>3, <2>1, <2>2, <3>1
    <3>. QED
        BY <2>2, <3>1, <3>2, SeqEqual
  <2>. HIDE DEF r
  <2>5. CASE k = Len(s)
    <3>1. r = <<>>
        BY <2>2, <2>5
    <3>. QED
        BY <1>3, <2>1, <2>3, <2>4, <2>5, <3>1
  <2>6. CASE k < Len(s)
    <3>1. r # <<>> /\ Head(r) = r[1] /\ 1 \in 1..Len(r) /\ k # Len(s)
        BY <1>3, <2>2, <2>6
    <3>2. Head(r) = s[k + 1]
        BY <2>2, <3>1
    <3>. QED
        BY <1>3, <2>1, <2>3, <2>4, <3>1, <3>2
  <2>. QED
    BY <1>3, <2>5, <2>6
<1>. QED
    BY <1>2, <1>3

Follows(h, n, length) ==
    /\ h = "start" => n = "activate"
    /\ h = "activate" => n = "install"
    /\ h = "install" => n = "observe"
    /\ h = "observe" => n = "away"
    /\ h = "deactivate" => n = "uninstall" /\ length = 9
    /\ h = "uninstall" => n = "unobserve" /\ length \in {8, 11}
    /\ h = "unobserve" => (length = 7 /\ n = "read goal") \/ (length = 10 /\ n = "forget")
    /\ h = "forget" => n = "read goal"
    /\ h = "goal" => n = "read goal"
    /\ h = "read goal" => n = "read experience"
    /\ h = "read experience" => n = "truncate goal"
    /\ h = "truncate goal" => n = "write goal"
    /\ h = "write goal" => n = "truncate experience"
    /\ h = "truncate experience" => n = "write experience"
    /\ h = "write experience" => n \in {"away", "request halt"}
    /\ h = "request halt" => n = "halt"
    /\ h = "halt" => n = "away"

FollowsIn(t) ==
    /\ Len(t) \in 0..11
    /\ t # <<>> => Tail(t) \in Plans /\ Len(Tail(t)) = Len(t) - 1 /\ Follows(Head(t), PlaceOf(Tail(t)), Len(t))

LEMMA LengthLeft ==
    ASSUME NEW n \in Nat, n <= 11, NEW k \in 1..n
    PROVE  n + 1 - k \in 0..11
    OBVIOUS

\* The plans of a list of steps follow one another as its steps do.
LEMMA PlansOf ==
    ASSUME NEW s \in Seq(StepNames), Len(s) <= 11, Later(s) \subseteq Plans,
           Follows(s[Len(s)], "away", 1),
           \A k \in 1..Len(s) - 1 : Follows(s[k], s[k + 1], Len(s) + 1 - k),
           NEW t \in Later(s)
    PROVE  FollowsIn(t)
<1>1. CASE t = <<>>
    BY <1>1 DEF FollowsIn
<1>2. ASSUME NEW k \in 1..Len(s), t # <<>>, Head(t) = s[k], Len(t) = Len(s) + 1 - k, Tail(t) \in Later(s),
             IF k = Len(s) THEN Tail(t) = <<>> ELSE Tail(t) # <<>> /\ Head(Tail(t)) = s[k + 1]
      PROVE  FollowsIn(t)
  <2>1. t \in Seq(StepNames) /\ Len(t) \in 0..11
    <3>1. PICK j \in 1..Len(s) + 1 : t = SubSeq(s, j, Len(s))
        BY DEF Later
    <3>2. t \in Seq(StepNames)
        BY <3>1
    <3>3. Len(t) = Len(s) + 1 - k /\ Len(s) \in Nat /\ Len(s) <= 11 /\ k \in 1..Len(s)
        BY <1>2
    <3>. QED
        BY <3>2, <3>3, LengthLeft
  <2>2. Len(Tail(t)) = Len(t) - 1
    BY <1>2, <2>1, HeadTailProperties
  <2>3. Follows(Head(t), PlaceOf(Tail(t)), Len(t))
    <3>1. CASE k = Len(s)
        BY <1>2, <3>1 DEF PlaceOf
    <3>2. CASE k # Len(s)
      <4>1. k \in 1..Len(s) - 1 /\ PlaceOf(Tail(t)) = s[k + 1]
        BY <1>2, <3>2 DEF PlaceOf
      <4>. QED
        BY <1>2, <4>1
    <3>. QED
        BY <3>1, <3>2
  <2>. QED
    BY <1>2, <2>1, <2>2, <2>3 DEF FollowsIn
<1>. QED
    BY <1>1, <1>2, LaterFacts

\* A call: how it begins, its length, and what follows what.
Call(s, first, n) ==
    s \in Seq(StepNames) /\ Len(s) = n /\ s[1] = first /\ \A t \in Later(s) : FollowsIn(t)

LEMMA StartPlan == Call(Service!StartSteps, "start", 4)
<1>1. Len(Service!StartSteps) = 4
    BY DEF Service!StartSteps
<1>6. Service!StartSteps \in Seq(StepNames)
    BY DEF Service!StartSteps, StepNames
<1>2. /\ Service!StartSteps[1] = "start" /\ Service!StartSteps[2] = "activate"
      /\ Service!StartSteps[3] = "install" /\ Service!StartSteps[4] = "observe"
    BY DEF Service!StartSteps
<1>3. Later(Service!StartSteps) \subseteq Plans
    BY DEF Plans, Service!Steps
<1>4. Follows("observe", "away", 1)
    BY DEF Follows
<1>5. ASSUME NEW k \in 1..3
      PROVE  Follows(Service!StartSteps[k], Service!StartSteps[k + 1], 5 - k)
  <2>1. /\ Follows("start", "activate", 4) /\ Follows("activate", "install", 3)
        /\ Follows("install", "observe", 2)
    BY DEF Follows
  <2>2. k = 1 \/ k = 2 \/ k = 3
    OBVIOUS
  <2>. QED
    BY <1>2, <2>1, <2>2
<1>7. ASSUME NEW t \in Later(Service!StartSteps)
      PROVE  FollowsIn(t)
    BY <1>1, <1>2, <1>3, <1>4, <1>5, <1>6, PlansOf
<1>. QED
    BY <1>1, <1>2, <1>6, <1>7 DEF Call

\* What persisting adds to a call.
LEMMA PersistSteps ==
    /\ Service!Persist \in Seq(StepNames) /\ Len(Service!Persist) = 6
    /\ Service!Persist[1] = "read goal" /\ Service!Persist[2] = "read experience"
    /\ Service!Persist[3] = "truncate goal" /\ Service!Persist[4] = "write goal"
    /\ Service!Persist[5] = "truncate experience" /\ Service!Persist[6] = "write experience"
<1>1. Service!Persist \in Seq(StepNames)
    BY DEF Service!Persist, StepNames
<1>2. Len(Service!Persist) = 6
    BY DEF Service!Persist
<1>3. /\ Service!Persist[1] = "read goal" /\ Service!Persist[2] = "read experience"
      /\ Service!Persist[3] = "truncate goal" /\ Service!Persist[4] = "write goal"
      /\ Service!Persist[5] = "truncate experience" /\ Service!Persist[6] = "write experience"
    BY DEF Service!Persist
<1>. QED
    BY <1>1, <1>2, <1>3

\* Where a step of two joined lists comes from.
LEMMA JoinedLater ==
    ASSUME NEW b \in Seq(StepNames), NEW p \in Seq(StepNames), NEW i \in 1..Len(p), NEW j \in Nat, j = Len(b) + i
    PROVE  (b \o p)[j] = p[i]
<1>. j \in 1..Len(b) + Len(p) /\ ~(j <= Len(b)) /\ j - Len(b) = i
    OBVIOUS
<1>. QED
    BY ConcatProperties

LEMMA JoinedFirst ==
    ASSUME NEW b \in Seq(StepNames), NEW p \in Seq(StepNames), NEW i \in 1..Len(b)
    PROVE  (b \o p)[i] = b[i]
<1>. i \in 1..Len(b) + Len(p) /\ i <= Len(b)
    OBVIOUS
<1>. QED
    BY ConcatProperties

LEMMA JoinedType ==
    ASSUME NEW b \in Seq(StepNames), NEW p \in Seq(StepNames), NEW n \in Nat, n = Len(b) + Len(p)
    PROVE  b \o p \in Seq(StepNames) /\ Len(b \o p) = n
<1>1. b \o p \in Seq(StepNames)
    OBVIOUS
<1>2. Len(b \o p) = Len(b) + Len(p)
    BY ConcatProperties
<1>. QED
    BY <1>1, <1>2

\* Two joined lists, spelled out.
Spelled1And6(s, b, p) ==
    /\ s \in Seq(StepNames) /\ Len(s) = 7
    /\ s[1] = b[1] /\ s[2] = p[1] /\ s[3] = p[2] /\ s[4] = p[3] /\ s[5] = p[4]
    /\ s[6] = p[5] /\ s[7] = p[6]

LEMMA Joined1And6 ==
    ASSUME NEW b \in Seq(StepNames), NEW p \in Seq(StepNames), Len(b) = 1, Len(p) = 6
    PROVE  Spelled1And6(b \o p, b, p)
<1>1. 7 \in Nat /\ 7 = Len(b) + Len(p)
    OBVIOUS
<1>2. b \o p \in Seq(StepNames)
    BY <1>1, JoinedType
<1>3. Len(b \o p) = 7
  <2>1. Len(b \o p) = Len(b) + Len(p)
    BY ConcatProperties
  <2>. QED
    BY <1>1, <2>1
<1>4. (b \o p)[1] = b[1]
    BY 1 \in 1..Len(b), JoinedFirst
<1>5. (b \o p)[2] = p[1]
    BY 1 \in 1..Len(p), 2 = Len(b) + 1, JoinedLater
<1>6. (b \o p)[3] = p[2]
    BY 2 \in 1..Len(p), 3 = Len(b) + 2, JoinedLater
<1>7. (b \o p)[4] = p[3]
    BY 3 \in 1..Len(p), 4 = Len(b) + 3, JoinedLater
<1>8. (b \o p)[5] = p[4]
    BY 4 \in 1..Len(p), 5 = Len(b) + 4, JoinedLater
<1>9. (b \o p)[6] = p[5]
    BY 5 \in 1..Len(p), 6 = Len(b) + 5, JoinedLater
<1>10. (b \o p)[7] = p[6]
    BY 6 \in 1..Len(p), 7 = Len(b) + 6, JoinedLater, ZenonT(30)
<1>. QED
    BY <1>2, <1>3, <1>4, <1>5, <1>6, <1>7, <1>8, <1>9, <1>10 DEF Spelled1And6

Spelled3And6(s, b, p) ==
    /\ s \in Seq(StepNames) /\ Len(s) = 9
    /\ s[1] = b[1] /\ s[2] = b[2] /\ s[3] = b[3] /\ s[4] = p[1] /\ s[5] = p[2]
    /\ s[6] = p[3] /\ s[7] = p[4] /\ s[8] = p[5] /\ s[9] = p[6]

LEMMA Joined3And6 ==
    ASSUME NEW b \in Seq(StepNames), NEW p \in Seq(StepNames), Len(b) = 3, Len(p) = 6
    PROVE  Spelled3And6(b \o p, b, p)
<1>1. 9 \in Nat /\ 9 = Len(b) + Len(p)
    OBVIOUS
<1>2. b \o p \in Seq(StepNames)
    BY <1>1, JoinedType
<1>3. Len(b \o p) = 9
  <2>1. Len(b \o p) = Len(b) + Len(p)
    BY ConcatProperties
  <2>. QED
    BY <1>1, <2>1
<1>4. (b \o p)[1] = b[1]
    BY 1 \in 1..Len(b), JoinedFirst
<1>5. (b \o p)[2] = b[2]
    BY 2 \in 1..Len(b), JoinedFirst
<1>6. (b \o p)[3] = b[3]
    BY 3 \in 1..Len(b), JoinedFirst
<1>7. (b \o p)[4] = p[1]
    BY 1 \in 1..Len(p), 4 = Len(b) + 1, JoinedLater
<1>8. (b \o p)[5] = p[2]
    BY 2 \in 1..Len(p), 5 = Len(b) + 2, JoinedLater
<1>9. (b \o p)[6] = p[3]
    BY 3 \in 1..Len(p), 6 = Len(b) + 3, JoinedLater
<1>10. (b \o p)[7] = p[4]
    BY 4 \in 1..Len(p), 7 = Len(b) + 4, JoinedLater
<1>11. (b \o p)[8] = p[5]
    BY 5 \in 1..Len(p), 8 = Len(b) + 5, JoinedLater
<1>12. (b \o p)[9] = p[6]
    BY 6 \in 1..Len(p), 9 = Len(b) + 6, JoinedLater
<1>. QED
    BY <1>2, <1>3, <1>4, <1>5, <1>6, <1>7, <1>8, <1>9, <1>10, <1>11, <1>12 DEF Spelled3And6

Spelled9And2(s, b, p) ==
    /\ s \in Seq(StepNames) /\ Len(s) = 11
    /\ s[1] = b[1] /\ s[2] = b[2] /\ s[3] = b[3] /\ s[4] = b[4] /\ s[5] = b[5]
    /\ s[6] = b[6] /\ s[7] = b[7] /\ s[8] = b[8] /\ s[9] = b[9] /\ s[10] = p[1]
    /\ s[11] = p[2]

LEMMA Joined9And2 ==
    ASSUME NEW b \in Seq(StepNames), NEW p \in Seq(StepNames), Len(b) = 9, Len(p) = 2
    PROVE  Spelled9And2(b \o p, b, p)
<1>1. 11 \in Nat /\ 11 = Len(b) + Len(p)
    OBVIOUS
<1>2. b \o p \in Seq(StepNames)
    BY <1>1, JoinedType
<1>3. Len(b \o p) = 11
  <2>1. Len(b \o p) = Len(b) + Len(p)
    BY ConcatProperties
  <2>. QED
    BY <1>1, <2>1
<1>4. (b \o p)[1] = b[1]
    BY 1 \in 1..Len(b), JoinedFirst
<1>5. (b \o p)[2] = b[2]
    BY 2 \in 1..Len(b), JoinedFirst
<1>6. (b \o p)[3] = b[3]
    BY 3 \in 1..Len(b), JoinedFirst
<1>7. (b \o p)[4] = b[4]
    BY 4 \in 1..Len(b), JoinedFirst
<1>8. (b \o p)[5] = b[5]
    BY 5 \in 1..Len(b), JoinedFirst
<1>9. (b \o p)[6] = b[6]
    BY 6 \in 1..Len(b), JoinedFirst
<1>10. (b \o p)[7] = b[7]
    BY 7 \in 1..Len(b), JoinedFirst
<1>11. (b \o p)[8] = b[8]
    BY 8 \in 1..Len(b), JoinedFirst
<1>12. (b \o p)[9] = b[9]
    BY 9 \in 1..Len(b), JoinedFirst
<1>13. (b \o p)[10] = p[1]
    BY 1 \in 1..Len(p), 10 = Len(b) + 1, JoinedLater, ZenonT(30)
<1>14. (b \o p)[11] = p[2]
    BY 2 \in 1..Len(p), 11 = Len(b) + 2, JoinedLater, ZenonT(30)
<1>. QED
    BY <1>2, <1>3, <1>4, <1>5, <1>6, <1>7, <1>8, <1>9, <1>10, <1>11, <1>12, <1>13, <1>14 DEF Spelled9And2

\* One step after another.
LEMMA Cases7 ==
    ASSUME NEW s, Follows(s[1], s[2], 7), Follows(s[2], s[3], 6), Follows(s[3], s[4], 5),
           Follows(s[4], s[5], 4), Follows(s[5], s[6], 3), Follows(s[6], s[7], 2),
           NEW k \in 1..6
    PROVE  Follows(s[k], s[k + 1], 8 - k)
    OBVIOUS

LEMMA Cases9 ==
    ASSUME NEW s, Follows(s[1], s[2], 9), Follows(s[2], s[3], 8), Follows(s[3], s[4], 7),
           Follows(s[4], s[5], 6), Follows(s[5], s[6], 5), Follows(s[6], s[7], 4), Follows(s[7], s[8], 3),
           Follows(s[8], s[9], 2),
           NEW k \in 1..8
    PROVE  Follows(s[k], s[k + 1], 10 - k)
    OBVIOUS

LEMMA Cases11 ==
    ASSUME NEW s, Follows(s[1], s[2], 11), Follows(s[2], s[3], 10), Follows(s[3], s[4], 9),
           Follows(s[4], s[5], 8), Follows(s[5], s[6], 7), Follows(s[6], s[7], 6), Follows(s[7], s[8], 5),
           Follows(s[8], s[9], 4), Follows(s[9], s[10], 3), Follows(s[10], s[11], 2),
           NEW k \in 1..10
    PROVE  Follows(s[k], s[k + 1], 12 - k)
    OBVIOUS

\* The four calls.
LEMMA GoalPlan == Call(Service!GoalSteps, "goal", 7)
<1>. DEFINE s == Service!GoalSteps
            p == Service!Persist
            b == <<"goal">>
<1>1. b \in Seq(StepNames) /\ Len(b) = 1
    BY DEF StepNames
<1>2. b[1] = "goal"
    OBVIOUS
<1>3. p \in Seq(StepNames) /\ Len(p) = 6
    BY PersistSteps
<1>4. /\ p[1] = "read goal" /\ p[2] = "read experience" /\ p[3] = "truncate goal"
      /\ p[4] = "write goal" /\ p[5] = "truncate experience" /\ p[6] = "write experience"
    BY PersistSteps
<1>5. s = b \o p
    BY DEF Service!GoalSteps
<1>6. Later(s) \subseteq Plans
    BY DEF Plans, Service!Steps
<1>. HIDE DEF s, p, b
<1>7. Spelled1And6(s, b, p)
    BY <1>1, <1>3, <1>5, Joined1And6
<1>8. s \in Seq(StepNames) /\ Len(s) = 7
    BY <1>7 DEF Spelled1And6
<1>9. /\ s[1] = "goal" /\ s[2] = "read goal" /\ s[3] = "read experience"
      /\ s[4] = "truncate goal" /\ s[5] = "write goal" /\ s[6] = "truncate experience"
      /\ s[7] = "write experience"
    BY <1>2, <1>4, <1>7 DEF Spelled1And6
<1>10. /\ Follows(s[1], s[2], 7) /\ Follows(s[2], s[3], 6) /\ Follows(s[3], s[4], 5)
      /\ Follows(s[4], s[5], 4) /\ Follows(s[5], s[6], 3) /\ Follows(s[6], s[7], 2)
    BY <1>9 DEF Follows
<1>11. Follows(s[Len(s)], "away", 1) /\ Len(s) <= 11
  <2>1. Follows(s[7], "away", 1)
    BY <1>9 DEF Follows
  <2>. QED
    BY <1>8, <2>1
<1>12. ASSUME NEW k \in 1..Len(s) - 1
       PROVE  Follows(s[k], s[k + 1], Len(s) + 1 - k)
  <2>1. k \in 1..6 /\ Len(s) + 1 - k = 8 - k
    BY <1>8
  <2>2. Follows(s[k], s[k + 1], 8 - k)
    BY <1>10, <2>1, Cases7
  <2>. QED
    BY <2>1, <2>2
<1>13. ASSUME NEW t \in Later(s)
       PROVE  FollowsIn(t)
    BY <1>6, <1>11, <1>12, <1>8, PlansOf
<1>. QED
    BY <1>9, <1>13, <1>8 DEF Call, s

LEMMA StopPlan == Call(Service!StopSteps, "deactivate", 9)
<1>. DEFINE s == Service!StopSteps
            p == Service!Persist
            b == <<"deactivate", "uninstall", "unobserve">>
<1>1. b \in Seq(StepNames) /\ Len(b) = 3
    BY DEF StepNames
<1>2. b[1] = "deactivate" /\ b[2] = "uninstall" /\ b[3] = "unobserve"
    OBVIOUS
<1>3. p \in Seq(StepNames) /\ Len(p) = 6
    BY PersistSteps
<1>4. /\ p[1] = "read goal" /\ p[2] = "read experience" /\ p[3] = "truncate goal"
      /\ p[4] = "write goal" /\ p[5] = "truncate experience" /\ p[6] = "write experience"
    BY PersistSteps
<1>5. s = b \o p
    BY DEF Service!StopSteps
<1>6. Later(s) \subseteq Plans
    BY DEF Plans, Service!Steps
<1>. HIDE DEF s, p, b
<1>7. Spelled3And6(s, b, p)
    BY <1>1, <1>3, <1>5, Joined3And6
<1>8. s \in Seq(StepNames) /\ Len(s) = 9
    BY <1>7 DEF Spelled3And6
<1>9. /\ s[1] = "deactivate" /\ s[2] = "uninstall" /\ s[3] = "unobserve"
      /\ s[4] = "read goal" /\ s[5] = "read experience" /\ s[6] = "truncate goal"
      /\ s[7] = "write goal" /\ s[8] = "truncate experience" /\ s[9] = "write experience"
    BY <1>2, <1>4, <1>7 DEF Spelled3And6
<1>10. /\ Follows(s[1], s[2], 9) /\ Follows(s[2], s[3], 8) /\ Follows(s[3], s[4], 7)
      /\ Follows(s[4], s[5], 6) /\ Follows(s[5], s[6], 5) /\ Follows(s[6], s[7], 4)
      /\ Follows(s[7], s[8], 3) /\ Follows(s[8], s[9], 2)
    BY <1>9 DEF Follows
<1>11. Follows(s[Len(s)], "away", 1) /\ Len(s) <= 11
  <2>1. Follows(s[9], "away", 1)
    BY <1>9 DEF Follows
  <2>. QED
    BY <1>8, <2>1
<1>12. ASSUME NEW k \in 1..Len(s) - 1
       PROVE  Follows(s[k], s[k + 1], Len(s) + 1 - k)
  <2>1. k \in 1..8 /\ Len(s) + 1 - k = 10 - k
    BY <1>8
  <2>2. Follows(s[k], s[k + 1], 10 - k)
    BY <1>10, <2>1, Cases9
  <2>. QED
    BY <2>1, <2>2
<1>13. ASSUME NEW t \in Later(s)
       PROVE  FollowsIn(t)
    BY <1>6, <1>11, <1>12, <1>8, PlansOf
<1>. QED
    BY <1>9, <1>13, <1>8 DEF Call, s

LEMMA ControlStopPlan == Call(Service!ControlStopSteps, "uninstall", 11)
<1>. DEFINE s == Service!ControlStopSteps
            p == Service!Persist
            b == <<"uninstall", "unobserve", "forget">>
            r == b \o p
            h == <<"request halt", "halt">>
<1>1. b \in Seq(StepNames) /\ Len(b) = 3
    BY DEF StepNames
<1>2. b[1] = "uninstall" /\ b[2] = "unobserve" /\ b[3] = "forget"
    OBVIOUS
<1>3. p \in Seq(StepNames) /\ Len(p) = 6
    BY PersistSteps
<1>4. /\ p[1] = "read goal" /\ p[2] = "read experience" /\ p[3] = "truncate goal"
      /\ p[4] = "write goal" /\ p[5] = "truncate experience" /\ p[6] = "write experience"
    BY PersistSteps
<1>5. s = r \o h
    BY DEF Service!ControlStopSteps
<1>6. h \in Seq(StepNames) /\ Len(h) = 2
    BY DEF StepNames
<1>7. h[1] = "request halt" /\ h[2] = "halt"
    OBVIOUS
<1>8. Later(s) \subseteq Plans
    BY DEF Plans, Service!Steps
<1>9. r = b \o p
    OBVIOUS
<1>. HIDE DEF s, p, b, r, h
<1>10. Spelled3And6(r, b, p)
    BY <1>1, <1>3, <1>9, Joined3And6
<1>11. r \in Seq(StepNames) /\ Len(r) = 9
    BY <1>10 DEF Spelled3And6
<1>12. Spelled9And2(s, r, h)
    BY <1>5, <1>6, <1>11, Joined9And2
<1>13. s \in Seq(StepNames) /\ Len(s) = 11
    BY <1>12 DEF Spelled9And2
<1>14. /\ s[1] = "uninstall" /\ s[2] = "unobserve" /\ s[3] = "forget"
      /\ s[4] = "read goal" /\ s[5] = "read experience" /\ s[6] = "truncate goal"
      /\ s[7] = "write goal" /\ s[8] = "truncate experience" /\ s[9] = "write experience"
      /\ s[10] = "request halt" /\ s[11] = "halt"
    BY <1>2, <1>4, <1>12, <1>7, <1>10 DEF Spelled3And6, Spelled9And2
<1>15. /\ Follows(s[1], s[2], 11) /\ Follows(s[2], s[3], 10) /\ Follows(s[3], s[4], 9)
      /\ Follows(s[4], s[5], 8) /\ Follows(s[5], s[6], 7) /\ Follows(s[6], s[7], 6)
      /\ Follows(s[7], s[8], 5) /\ Follows(s[8], s[9], 4) /\ Follows(s[9], s[10], 3)
      /\ Follows(s[10], s[11], 2)
    BY <1>14 DEF Follows
<1>16. Follows(s[Len(s)], "away", 1) /\ Len(s) <= 11
  <2>1. Follows(s[11], "away", 1)
    BY <1>14 DEF Follows
  <2>. QED
    BY <1>13, <2>1
<1>17. ASSUME NEW k \in 1..Len(s) - 1
       PROVE  Follows(s[k], s[k + 1], Len(s) + 1 - k)
  <2>1. k \in 1..10 /\ Len(s) + 1 - k = 12 - k
    BY <1>13
  <2>2. Follows(s[k], s[k + 1], 12 - k)
    BY <1>15, <2>1, Cases11
  <2>. QED
    BY <2>1, <2>2
<1>18. ASSUME NEW t \in Later(s)
       PROVE  FollowsIn(t)
    BY <1>8, <1>16, <1>17, <1>13, PlansOf
<1>. QED
    BY <1>14, <1>18, <1>13 DEF Call, s

LEMMA PlanFollows ==
    ASSUME NEW t \in Plans
    PROVE  FollowsIn(t)
<1>1. \/ t \in Later(Service!StartSteps) \/ t \in Later(Service!StopSteps)
      \/ t \in Later(Service!ControlStopSteps) \/ t \in Later(Service!GoalSteps)
    BY DEF Plans, Service!Steps
<1>. QED
    BY <1>1, StartPlan, StopPlan, ControlStopPlan, GoalPlan DEF Call

-----------------------------------------------------------------------------
\* A call goes on, or is answered; the calls of other clients stay where they are.

OthersStay(c) == \A d \in Clients \ {c} : Place(d)' = Place(d) /\ StepsLeft(d)' = StepsLeft(d)

Going(c, h) ==
    /\ Place(c) = h /\ Follows(h, Place(c)', StepsLeft(c)) /\ OthersStay(c)
    /\ StepsLeft(c)' = 7 => StepsLeft(c) = 8
    /\ h = "deactivate" => StepsLeft(c)' = 8
Ending(c, h) == Place(c) = h /\ Place(c)' = "away" /\ OthersStay(c)

LEMMA Goes ==
    ASSUME TodoTyped, NEW c \in Clients, NEW h, Service!At(c, h), Service!Continue(c)
    PROVE  TodoTyped' /\ Going(c, h)
<1>. DEFINE t == todo[c]
<1>1. t \in Plans /\ t # <<>> /\ Head(t) = h
    BY DEF TodoTyped, Service!At
<1>2. /\ Tail(t) \in Plans /\ Len(Tail(t)) = Len(t) - 1 /\ Follows(h, PlaceOf(Tail(t)), Len(t))
      /\ Len(t) \in 0..11
    BY <1>1, PlanFollows DEF FollowsIn
<1>3. todo' = [todo EXCEPT ![c] = Tail(t)] /\ c \in DOMAIN todo
    BY DEF Service!Continue, TodoTyped
<1>4. todo'[c] = Tail(t) /\ \A d \in Clients \ {c} : todo'[d] = todo[d]
    BY <1>3 DEF TodoTyped
<1>5. TodoTyped'
    BY <1>2, <1>3 DEF TodoTyped
<1>6. Place(c) = h /\ Place(c)' = PlaceOf(Tail(t)) /\ OthersStay(c)
    BY <1>1, <1>4 DEF Place, PlaceOf, OthersStay, StepsLeft
<1>7. StepsLeft(c) = Len(t) /\ StepsLeft(c)' = Len(t) - 1
    BY <1>2, <1>4 DEF StepsLeft
<1>8. h = "deactivate" => Len(t) = 9
    BY <1>2 DEF Follows
<1>. HIDE DEF t
<1>9. (StepsLeft(c)' = 7 => StepsLeft(c) = 8) /\ (h = "deactivate" => StepsLeft(c)' = 8)
    BY <1>2, <1>7, <1>8
<1>. QED
    BY <1>2, <1>5, <1>6, <1>7, <1>9 DEF Going

LEMMA NothingLeft == <<>> \in Plans
<1>1. <<>> = SubSeq(Service!StartSteps, 5, Len(Service!StartSteps)) /\ 5 \in 1..Len(Service!StartSteps) + 1
    BY DEF Service!StartSteps
<1>2. <<>> \in Later(Service!Steps("start"))
    BY <1>1 DEF Later, Service!Steps
<1>. QED
    BY <1>2 DEF Plans

LEMMA Ends ==
    ASSUME TodoTyped, NEW c \in Clients, NEW h, Service!At(c, h), Service!Answer(c)
    PROVE  TodoTyped' /\ Ending(c, h)
<1>1. todo' = [todo EXCEPT ![c] = <<>>] /\ c \in DOMAIN todo
    BY DEF Service!Answer, TodoTyped
<1>2. todo'[c] = <<>> /\ \A d \in Clients \ {c} : todo'[d] = todo[d]
    BY <1>1 DEF TodoTyped
<1>3. TodoTyped'
    BY <1>1, NothingLeft DEF TodoTyped
<1>. QED
    BY <1>2, <1>3 DEF Ending, OthersStay, Place, PlaceOf, StepsLeft, Service!At

LEMMA WholeList ==
    ASSUME NEW s \in Seq(StepNames)
    PROVE  s = SubSeq(s, 1, Len(s))
<1>1. 1 \in 1..Len(s) + 1 /\ Len(s) \in 1 - 1..Len(s)
    OBVIOUS
<1>2. /\ SubSeq(s, 1, Len(s)) \in Seq(StepNames) /\ Len(SubSeq(s, 1, Len(s))) = Len(s)
      /\ \A i \in 1..Len(s) : SubSeq(s, 1, Len(s))[i] = s[i]
    BY <1>1, SubSeqProperties
<1>. QED
    BY <1>2, SeqEqual

LEMMA CallLengths ==
    ASSUME NEW n \in {4, 7, 9, 11}
    PROVE  n # 0 /\ n # 8 /\ n \in Nat
    OBVIOUS

LEMMA CallLength ==
    ASSUME NEW s \in Seq(StepNames), Len(s) \in {4, 7, 9, 11}
    PROVE  s # <<>> /\ Head(s) = s[1] /\ Len(s) # 8 /\ 1 \in 1..Len(s) + 1
<1>1. Len(s) # 0 /\ Len(s) # 8 /\ Len(s) \in Nat
    BY CallLengths
<1>. QED
    BY <1>1

\* A call is received: it is at its first step, and who meets whom is noted.
Begun(c) ==
    /\ Place(c) = "away" /\ Place(c)' \in {"start", "deactivate", "uninstall", "goal"}
    /\ StepsLeft(c)' # 8 /\ OthersStay(c)

LEMMA Received ==
    ASSUME TodoTyped, NEW c \in Clients, Service!Receive(c)
    PROVE  /\ TodoTyped' /\ Begun(c)
           /\ \A d \in Clients : d # c => met[d] \subseteq met'[d]
           /\ MetInv => MetInv'
<1>1. PICK call \in {"start", "stop", "control stop", "goal"} :
          /\ todo' = [todo EXCEPT ![c] = Service!Steps(call)]
          /\ met' = [d \in Clients |->
                        IF d = c THEN UNION {Service!Meets(Service!Steps(call), todo[e]) : e \in Clients}
                        ELSE met[d] \cup Service!Meets(todo[d], Service!Steps(call))]
    BY DEF Service!Receive
<1>. DEFINE s == Service!Steps(call)
<1>2. todo[c] = <<>> /\ todo'[c] = s /\ \A d \in Clients \ {c} : todo'[d] = todo[d]
    BY <1>1 DEF Service!Receive, TodoTyped
<1>3. s \in Seq(StepNames) /\ Len(s) \in {4, 7, 9, 11} /\ s[1] \in {"start", "deactivate", "uninstall", "goal"}
  <2>1. CASE call = "start"
    BY <2>1, StartPlan DEF Call, Service!Steps
  <2>2. CASE call = "stop"
    BY <2>2, StopPlan DEF Call, Service!Steps
  <2>3. CASE call = "control stop"
    BY <2>3, ControlStopPlan DEF Call, Service!Steps
  <2>4. CASE call = "goal"
    BY <2>4, GoalPlan DEF Call, Service!Steps
  <2>. QED
    BY <2>1, <2>2, <2>3, <2>4
<1>4. ASSUME MetInv
      PROVE  MetInv'
  <2>1. SUFFICES ASSUME NEW d \in Clients, NEW e \in Clients, d # e
                 PROVE  Service!Meets(todo'[d], todo'[e]) \subseteq met'[d]
    BY DEF MetInv
  <2>2. CASE d = c
    BY <1>1, <1>2, <2>1, <2>2
  <2>3. CASE d # c /\ e = c
    BY <1>1, <1>2, <2>3
  <2>4. CASE d # c /\ e # c
    BY <1>1, <1>2, <1>4, <2>1, <2>4 DEF MetInv
  <2>. QED
    BY <2>2, <2>3, <2>4
<1>5. \A d \in Clients : d # c => met[d] \subseteq met'[d]
    BY <1>1
<1>. HIDE DEF s
<1>6. s # <<>> /\ Head(s) = s[1] /\ Len(s) # 8 /\ 1 \in 1..Len(s) + 1
    BY <1>3, CallLength
<1>7. s \in Plans
  <2>1. s = SubSeq(s, 1, Len(s))
    BY <1>3, WholeList
  <2>2. s \in Later(s)
    BY <1>6, <2>1 DEF Later
  <2>. QED
    BY <2>2 DEF Plans, s
<1>8. TodoTyped'
    BY <1>1, <1>7 DEF TodoTyped, s
<1>9. Begun(c)
    BY <1>2, <1>3, <1>6 DEF Begun, OthersStay, Place, PlaceOf, StepsLeft
<1>. QED
    BY <1>4, <1>5, <1>8, <1>9

-----------------------------------------------------------------------------
\* What each kind of step does to the calls.

NeutralSteps ==
    {"goal", "read goal", "read experience", "truncate goal", "write goal", "truncate experience",
     "write experience", "request halt", "halt"}
Neutral == NeutralSteps \cup {"away"}

LEMMA NeutralFollows ==
    ASSUME NEW h \in NeutralSteps, NEW p, NEW n, Follows(h, p, n)
    PROVE  p \in Neutral
    BY DEF Follows, NeutralSteps, Neutral

LEMMA NeutralGoes ==
    ASSUME TodoTyped, NEW c \in Clients, NeutralStep(c)
    PROVE  /\ TodoTyped' /\ \E h \in NeutralSteps : Going(c, h)
           /\ Place(c) \in Neutral /\ Place(c)' \in Neutral /\ OthersStay(c)
           /\ UNCHANGED <<active, provider, observer, met, settled>>
           /\ control' = "none" => control = "none"
<1>1. \E h \in NeutralSteps : Service!At(c, h) /\ Service!Continue(c)
    BY DEF NeutralStep, Service!RequestHalt, Service!Halt, Service!SetGoal, Service!ReadGoal,
       Service!ReadExperience, Service!TruncateGoal, Service!WriteGoal, Service!TruncateExperience,
       Service!WriteExperience, NeutralSteps
<1>2. PICK h \in NeutralSteps : TodoTyped' /\ Going(c, h)
    BY <1>1, Goes
<1>3. Place(c) \in Neutral /\ Place(c)' \in Neutral /\ OthersStay(c)
  <2>1. Place(c) = h /\ Follows(h, Place(c)', StepsLeft(c)) /\ OthersStay(c)
    BY <1>2 DEF Going
  <2>2. Place(c)' \in Neutral
    BY <2>1, NeutralFollows
  <2>. QED
    BY <2>1, <2>2 DEF Neutral
<1>4. UNCHANGED <<active, provider, observer, met, settled>>
    BY DEF NeutralStep, Service!RequestHalt, Service!Halt, Service!SetGoal, Service!ReadGoal,
       Service!ReadExperience, Service!TruncateGoal, Service!WriteGoal, Service!TruncateExperience,
       Service!WriteExperience, Service!service, Service!meetings
<1>5. control' = "none" => control = "none"
  <2>1. CASE Service!RequestHalt(c) \/ Service!Halt(c)
    BY <2>1 DEF Service!RequestHalt, Service!Halt
  <2>2. CASE UNCHANGED control
    BY <2>2
  <2>. QED
    BY <2>1, <2>2 DEF NeutralStep, Service!SetGoal, Service!ReadGoal, Service!ReadExperience,
       Service!TruncateGoal, Service!WriteGoal, Service!TruncateExperience, Service!WriteExperience,
       Service!service
<1>. QED
    BY <1>2, <1>3, <1>4, <1>5

LEMMA FrameStays ==
    ASSUME FrameStep
    PROVE  /\ UNCHANGED <<todo, copied, active, provider, observer, met, settled, experienceFile>>
           /\ control' = "none" => control = "none"
    BY DEF FrameStep, Service!CallProvider, Service!TakeSnapshot, Service!Enqueue, Service!Execute,
       Service!Report, Service!RuntimeEnds, Service!threads, Service!service, Service!files, Service!meetings

LEMMA NoOneThere ==
    ASSUME Service!Crash
    PROVE  \A c \in Clients : Place(c)' = "away"
    BY DEF Service!Crash, Place, PlaceOf

\* The steps that install or uninstall.
LEMMA StartGoes ==
    ASSUME TodoTyped, NEW c \in Clients, Service!StartRuntime(c)
    PROVE  /\ TodoTyped' /\ Place(c) = "start" /\ OthersStay(c)
           /\ Place(c)' = "away" \/ (Place(c)' = "activate" /\ control' # "none")
           /\ UNCHANGED <<active, provider, observer, met, settled>>
           /\ control' = "none" => control = "none"
<1>. USE DEF Service!meetings
<1>1. CASE Service!Continue(c)
  <2>1. TodoTyped' /\ Going(c, "start")
    BY <1>1, Goes DEF Service!StartRuntime
  <2>2. Place(c) = "start" /\ Place(c)' = "activate" /\ OthersStay(c)
    BY <2>1 DEF Going, Follows
  <2>3. Place(c)' # "away"
    BY <2>2
  <2>4. ~Service!Answer(c)
    BY <2>3, Ends DEF Service!StartRuntime, Ending
  <2>5. control' # "none"
    BY <2>4 DEF Service!StartRuntime
  <2>. QED
    BY <2>1, <2>2, <2>5 DEF Service!StartRuntime
<1>2. CASE Service!Answer(c)
  <2>1. TodoTyped' /\ Ending(c, "start")
    BY <1>2, Ends DEF Service!StartRuntime
  <2>. QED
    BY <2>1 DEF Service!StartRuntime, Ending
<1>. QED
    BY <1>1, <1>2 DEF Service!StartRuntime

LEMMA ActivateGoes ==
    ASSUME TodoTyped, NEW c \in Clients, Service!Activate(c)
    PROVE  /\ TodoTyped' /\ Place(c) = "activate" /\ Place(c)' = "install" /\ OthersStay(c)
           /\ active' /\ UNCHANGED <<control, provider, observer, met, settled>>
<1>1. TodoTyped' /\ Going(c, "activate")
    BY Goes DEF Service!Activate
<1>. QED
    BY <1>1 DEF Service!Activate, Service!meetings, Going, Follows

LEMMA InstallGoes ==
    ASSUME TodoTyped, NEW c \in Clients, Service!Install(c)
    PROVE  /\ TodoTyped' /\ Place(c) = "install" /\ Place(c)' = "observe" /\ OthersStay(c)
           /\ provider' /\ UNCHANGED <<control, active, observer, met, settled>>
<1>1. TodoTyped' /\ Going(c, "install")
    BY Goes DEF Service!Install
<1>. QED
    BY <1>1 DEF Service!Install, Service!meetings, Going, Follows

LEMMA ObserveGoes ==
    ASSUME TodoTyped, NEW c \in Clients, Service!Observe(c)
    PROVE  /\ TodoTyped' /\ Place(c) = "observe" /\ Place(c)' = "away" /\ OthersStay(c)
           /\ observer' /\ settled' = [call |-> "start", met |-> met[c]]
           /\ UNCHANGED <<control, active, provider, met>>
<1>1. TodoTyped' /\ Going(c, "observe")
    BY Goes DEF Service!Observe
<1>. QED
    BY <1>1 DEF Service!Observe, Going, Follows

LEMMA DeactivateGoes ==
    ASSUME TodoTyped, NEW c \in Clients, Service!Deactivate(c)
    PROVE  /\ TodoTyped' /\ Place(c) = "deactivate" /\ OthersStay(c)
           /\ IF active THEN Place(c)' = "uninstall" /\ StepsLeft(c)' = 8 ELSE Place(c)' = "away"
           /\ ~active' /\ UNCHANGED <<control, provider, observer, met, settled>>
<1>1. CASE active
  <2>1. TodoTyped' /\ Going(c, "deactivate")
    BY <1>1, Goes DEF Service!Deactivate
  <2>. QED
    BY <1>1, <2>1 DEF Service!Deactivate, Service!meetings, Going, Follows
<1>2. CASE ~active
  <2>1. TodoTyped' /\ Ending(c, "deactivate")
    BY <1>2, Ends DEF Service!Deactivate
  <2>. QED
    BY <1>2, <2>1 DEF Service!Deactivate, Service!meetings, Ending
<1>. QED
    BY <1>1, <1>2

LEMMA ForgetGoes ==
    ASSUME TodoTyped, NEW c \in Clients, Service!Forget(c)
    PROVE  /\ TodoTyped' /\ Place(c) = "forget" /\ Place(c)' = "read goal" /\ OthersStay(c)
           /\ ~active' /\ UNCHANGED <<control, provider, observer, met, settled>>
<1>1. TodoTyped' /\ Going(c, "forget")
    BY Goes DEF Service!Forget
<1>. QED
    BY <1>1 DEF Service!Forget, Service!meetings, Going, Follows

LEMMA UninstallGoes ==
    ASSUME TodoTyped, NEW c \in Clients, Service!Uninstall(c)
    PROVE  /\ TodoTyped' /\ Place(c) = "uninstall" /\ OthersStay(c)
           /\ IF control = "none" THEN Place(c)' = "away"
              ELSE Place(c)' = "unobserve" /\ (StepsLeft(c)' = 7 => StepsLeft(c) = 8)
           /\ ~provider' /\ UNCHANGED <<control, active, observer, met, settled>>
<1>1. CASE control = "none"
  <2>1. TodoTyped' /\ Ending(c, "uninstall")
    BY <1>1, Ends DEF Service!Uninstall
  <2>. QED
    BY <1>1, <2>1 DEF Service!Uninstall, Service!meetings, Ending
<1>2. CASE control # "none"
  <2>1. TodoTyped' /\ Going(c, "uninstall")
    BY <1>2, Goes DEF Service!Uninstall
  <2>. QED
    BY <1>2, <2>1 DEF Service!Uninstall, Service!meetings, Going, Follows
<1>. QED
    BY <1>1, <1>2

LEMMA UnobserveGoes ==
    ASSUME TodoTyped, NEW c \in Clients, Service!Unobserve(c)
    PROVE  /\ TodoTyped' /\ Place(c) = "unobserve" /\ OthersStay(c)
           /\ Place(c)' = "forget" \/ (StepsLeft(c) = 7 /\ Place(c)' = "read goal")
           /\ ~observer' /\ settled' = [call |-> "stop", met |-> met[c]]
           /\ UNCHANGED <<control, active, provider, met>>
<1>1. TodoTyped' /\ Going(c, "unobserve")
    BY Goes DEF Service!Unobserve
<1>. QED
    BY <1>1 DEF Service!Unobserve, Going, Follows

LEMMA TodoKept ==
    ASSUME TodoTyped, Service!Next
    PROVE  TodoTyped'
<1>1. CASE FrameStep \/ Service!Crash
  <2>1. CASE FrameStep
    BY <2>1, FrameStays DEF TodoTyped
  <2>2. CASE Service!Crash
    BY <2>2, NothingLeft DEF Service!Crash, TodoTyped
  <2>. QED
    BY <1>1, <2>1, <2>2
<1>2. ASSUME NEW c \in Clients, Service!Receive(c) \/ NeutralStep(c) \/ InstallingStep(c)
      PROVE  TodoTyped'
    BY <1>2, Received, NeutralGoes, StartGoes, ActivateGoes, InstallGoes, ObserveGoes, DeactivateGoes,
       ForgetGoes, UninstallGoes, UnobserveGoes DEF InstallingStep
<1>. QED
    BY <1>1, <1>2 DEF Service!Next, FrameStep, NeutralStep, InstallingStep

-----------------------------------------------------------------------------
\* Where a call goes on, it stays a start, a stop or a save, if it is one afterwards: whom it meets
\* then it has met before.

Phases == {Service!Starting, Service!Stopping, Service!Saving}

LEMMA InPlace ==
    ASSUME NEW c \in Clients, NEW phase \in Phases
    PROVE  /\ Service!In(todo[c], phase) <=> Place(c) \in phase
           /\ Service!In(todo'[c], phase) <=> Place(c)' \in phase
<1>1. "away" \notin phase
  <2>1. /\ "away" \notin Service!Starting /\ "away" \notin Service!Stopping
        /\ "away" \notin Service!Saving
    BY DEF Service!Starting, Service!Stopping, Service!Saving
  <2>. QED
    BY <2>1 DEF Phases
<1>. QED
    BY <1>1 DEF Service!In, Place, PlaceOf

NarrowsTo(before, after) == \A phase \in Phases : after \in phase => before \in phase

LEMMA NeutralNarrows ==
    ASSUME NEW c \in Clients, NEW h \in NeutralSteps, Going(c, h)
    PROVE  NarrowsTo(Place(c), Place(c)')
<1>1. ASSUME NEW p, NEW n, Follows(h, p, n)
      PROVE  p \notin Service!Starting /\ p \notin Service!Stopping
  <2>1. p \in Neutral
    BY <1>1, NeutralFollows
  <2>. QED
    BY <2>1 DEF Service!Starting, Service!Stopping, Neutral, NeutralSteps
<1>2. \A p, n : Follows(h, p, n) /\ p \in Service!Saving => h \in Service!Saving
    BY DEF Follows, NeutralSteps, Service!Saving, Service!Stopping
<1>. QED
    BY <1>1, <1>2 DEF NarrowsTo, Phases, Going

LEMMA MetStays ==
    ASSUME MetInv, NEW c \in Clients, OthersStay(c), met' = met, NarrowsTo(Place(c), Place(c)')
    PROVE  MetInv'
<1>1. SUFFICES ASSUME NEW d \in Clients, NEW e \in Clients, d # e
               PROVE  Service!Meets(todo'[d], todo'[e]) \subseteq met[d]
    BY DEF MetInv
<1>2. \A f \in Clients, phase \in Phases : Service!In(todo'[f], phase) => Service!In(todo[f], phase)
  <2>1. ASSUME NEW f \in Clients, NEW phase \in Phases, Place(f)' \in phase
        PROVE  Place(f) \in phase
    BY <2>1 DEF OthersStay, NarrowsTo
  <2>. QED
    BY <2>1, InPlace
<1>3. Service!Meets(todo'[d], todo'[e]) \subseteq Service!Meets(todo[d], todo[e])
    BY <1>2 DEF Service!Meets, Service!Opposed, Phases
<1>. QED
    BY <1>1, <1>3 DEF MetInv

LEMMA MetKept ==
    ASSUME TodoTyped, MetInv, Service!Next
    PROVE  MetInv'
<1>1. CASE FrameStep
  <2>1. UNCHANGED <<todo, met>>
    BY <1>1, FrameStays
  <2>. QED
    BY <2>1 DEF MetInv
<1>2. CASE Service!Crash
    BY <1>2 DEF Service!Crash, MetInv, Service!Meets, Service!Opposed, Service!In
<1>3. ASSUME NEW c \in Clients, Service!Receive(c)
      PROVE  MetInv'
    BY <1>3, Received
<1>4. ASSUME NEW c \in Clients, NeutralStep(c)
      PROVE  MetInv'
    BY <1>4, NeutralGoes, NeutralNarrows, MetStays
<1>5. ASSUME NEW c \in Clients, InstallingStep(c)
      PROVE  MetInv'
  <2>1. OthersStay(c) /\ met' = met
    BY <1>5, StartGoes, ActivateGoes, InstallGoes, ObserveGoes, DeactivateGoes,
       ForgetGoes, UninstallGoes, UnobserveGoes DEF InstallingStep
  <2>2. \/ Place(c) = "start" /\ Place(c)' \in {"away", "activate"}
        \/ Place(c) = "activate" /\ Place(c)' = "install"
        \/ Place(c) = "install" /\ Place(c)' = "observe"
        \/ Place(c) = "observe" /\ Place(c)' = "away"
        \/ Place(c) = "deactivate" /\ Place(c)' \in {"away", "uninstall"}
        \/ Place(c) = "uninstall" /\ Place(c)' \in {"away", "unobserve"}
        \/ Place(c) = "unobserve" /\ Place(c)' \in {"forget", "read goal"}
        \/ Place(c) = "forget" /\ Place(c)' = "read goal"
    BY <1>5, StartGoes, ActivateGoes, InstallGoes, ObserveGoes, DeactivateGoes,
       ForgetGoes, UninstallGoes, UnobserveGoes DEF InstallingStep
  <2>3. NarrowsTo(Place(c), Place(c)')
    BY <2>2 DEF NarrowsTo, Phases, Service!Starting, Service!Stopping, Service!Saving
  <2>. QED
    BY <2>1, <2>3, MetStays
<1>. QED
    BY <1>1, <1>2, <1>3, <1>4, <1>5 DEF Service!Next, FrameStep, NeutralStep, InstallingStep

\* What two calls know of one another.
LEMMA Meeting ==
    ASSUME MetInv, NEW c \in Clients, NEW d \in Clients, c # d
    PROVE  /\ Place(c) \in Service!Starting /\ Place(d) \in Service!Stopping => "opposite" \in met[c] /\ "opposite" \in met[d]
           /\ Place(c) \in Service!Stopping /\ Place(d) \in Service!Saving => "save" \in met[c]
<1>1. Service!Meets(todo[c], todo[d]) \subseteq met[c] /\ Service!Meets(todo[d], todo[c]) \subseteq met[d]
    BY DEF MetInv
<1>2. \A f \in Clients, phase \in Phases : Service!In(todo[f], phase) <=> Place(f) \in phase
    BY InPlace
<1>3. ASSUME Place(c) \in Service!Starting, Place(d) \in Service!Stopping
      PROVE  "opposite" \in met[c] /\ "opposite" \in met[d]
  <2>1. Service!Opposed(todo[c], todo[d]) /\ Service!Opposed(todo[d], todo[c])
    BY <1>2, <1>3 DEF Service!Opposed, Phases
  <2>. QED
    BY <1>1, <2>1 DEF Service!Meets
<1>4. ASSUME Place(c) \in Service!Stopping, Place(d) \in Service!Saving
      PROVE  "save" \in met[c]
  <2>1. Service!In(todo[c], Service!Stopping) /\ Service!In(todo[d], Service!Saving)
    BY <1>2, <1>4 DEF Phases
  <2>. QED
    BY <1>1, <2>1 DEF Service!Meets
<1>. QED
    BY <1>3, <1>4

-----------------------------------------------------------------------------
\* The types, and the decisions that come late.

LEMMA NoneQueued == 0 \in 0..KQueued
    BY Limits

LEMMA RuntimeKept ==
    ASSUME RuntimeTyped, Service!Next
    PROVE  RuntimeTyped'
<1>. USE DEF Service!service, Service!memory, Service!runtime
<1>1. CASE UNCHANGED <<active, provider, observer, recorded, worker, executing, queued>>
    BY <1>1 DEF RuntimeTyped
<1>2. ASSUME NEW c \in Clients, Service!Receive(c) \/ NeutralStep(c)
      PROVE  RuntimeTyped'
  <2>1. UNCHANGED <<active, provider, observer, recorded, worker, executing, queued>>
    BY <1>2 DEF NeutralStep, Service!Receive, Service!RequestHalt, Service!Halt, Service!SetGoal,
       Service!ReadGoal, Service!ReadExperience, Service!TruncateGoal, Service!WriteGoal,
       Service!TruncateExperience, Service!WriteExperience
  <2>. QED
    BY <1>1, <2>1
<1>3. ASSUME NEW c \in Clients, InstallingStep(c)
      PROVE  RuntimeTyped'
  <2>1. active' \in BOOLEAN /\ provider' \in BOOLEAN /\ observer' \in BOOLEAN
    BY <1>3 DEF InstallingStep, RuntimeTyped, Service!StartRuntime, Service!Activate, Service!Install,
       Service!Observe, Service!Deactivate, Service!Forget, Service!Uninstall, Service!Unobserve
  <2>2. UNCHANGED <<recorded, worker, executing>> /\ queued' \in {0, queued}
    BY <1>3 DEF InstallingStep, Service!StartRuntime, Service!Activate, Service!Install, Service!Observe,
       Service!Deactivate, Service!Forget, Service!Uninstall, Service!Unobserve
  <2>. QED
    BY <2>1, <2>2, NoneQueued DEF RuntimeTyped
<1>4. CASE Service!CallProvider \/ Service!TakeSnapshot \/ Service!RuntimeEnds
    BY <1>4 DEF Service!CallProvider, Service!TakeSnapshot, Service!RuntimeEnds, RuntimeTyped
<1>5. CASE Service!Enqueue
  <2>1. queued' \in 0..KQueued
    BY <1>5, Limits DEF Service!Enqueue, RuntimeTyped
  <2>. QED
    BY <1>5, <2>1 DEF Service!Enqueue, RuntimeTyped
<1>6. CASE Service!Execute
  <2>1. queued' \in 0..KQueued
    BY <1>6, Limits DEF Service!Execute, RuntimeTyped
  <2>. QED
    BY <1>6, <2>1 DEF Service!Execute, RuntimeTyped
<1>7. CASE Service!Report
  <2>1. recorded' \in 0..KReports
    BY <1>7, Limits DEF Service!Report, RuntimeTyped
  <2>. QED
    BY <1>7, <2>1 DEF Service!Report, RuntimeTyped
<1>8. CASE Service!Crash
    BY <1>8, NoneQueued DEF Service!Crash, RuntimeTyped
<1>. QED
    BY <1>2, <1>3, <1>4, <1>5, <1>6, <1>7, <1>8 DEF Service!Next, NeutralStep, InstallingStep

LEMMA LateKept ==
    ASSUME active \in BOOLEAN, LateOnce, Service!Next
    PROVE  LateOnce'
<1>. USE DEF Service!service, Service!threads, Service!runtime
<1>1. CASE UNCHANGED <<active, worker, late>>
    BY <1>1 DEF LateOnce
<1>2. ASSUME NEW c \in Clients, Service!Activate(c)
      PROVE  LateOnce'
    BY <1>2 DEF Service!Activate, LateOnce
<1>3. ASSUME NEW c \in Clients, Service!Deactivate(c) \/ Service!Forget(c)
      PROVE  LateOnce'
    BY <1>3 DEF Service!Deactivate, Service!Forget, LateOnce
<1>4. CASE Service!CallProvider
    BY <1>4 DEF Service!CallProvider, LateOnce
<1>5. CASE Service!TakeSnapshot
    BY <1>5 DEF Service!TakeSnapshot, LateOnce
<1>6. CASE Service!Enqueue
  <2>1. late # 1 /\ worker' = "idle" /\ UNCHANGED active
    BY <1>6 DEF Service!Enqueue, LateOnce
  <2>2. late' = late \/ (~active /\ late' = late + 1)
    BY <1>6 DEF Service!Enqueue
  <2>3. late = 0 /\ late + 1 = 1
    BY <2>1 DEF LateOnce
  <2>. QED
    BY <2>1, <2>2, <2>3 DEF LateOnce
<1>7. CASE Service!Crash
    BY <1>7 DEF Service!Crash, LateOnce
<1>8. ASSUME NEW c \in Clients,
             \/ Service!Receive(c) \/ Service!StartRuntime(c) \/ Service!Install(c) \/ Service!Observe(c)
             \/ Service!Uninstall(c) \/ Service!Unobserve(c) \/ NeutralStep(c)
      PROVE  UNCHANGED <<active, worker, late>>
    BY <1>8 DEF NeutralStep, Service!Receive, Service!StartRuntime, Service!Install, Service!Observe,
       Service!Uninstall, Service!Unobserve, Service!RequestHalt, Service!Halt, Service!SetGoal,
       Service!ReadGoal, Service!ReadExperience, Service!TruncateGoal, Service!WriteGoal,
       Service!TruncateExperience, Service!WriteExperience
<1>9. CASE Service!Execute \/ Service!Report \/ Service!RuntimeEnds
    BY <1>1, <1>9 DEF Service!Execute, Service!Report, Service!RuntimeEnds
<1>. QED
    BY <1>1, <1>2, <1>3, <1>4, <1>5, <1>6, <1>7, <1>8, <1>9 DEF Service!Next, NeutralStep

-----------------------------------------------------------------------------
\* What is installed, and what a call that has met no opposite has done.

\* Steps that install nothing, of calls that have begun, go on or end, and of the runtime.
Passive ==
    /\ UNCHANGED <<active, provider, observer, settled>> /\ (control' = "none" => control = "none")
    /\ \A d \in Clients :
          /\ met[d] \subseteq met'[d] \/ Place(d)' \in {"start", "deactivate", "goal"}
                \/ (Place(d)' = "uninstall" /\ StepsLeft(d)' # 8)
          /\ \/ Place(d)' = Place(d) /\ StepsLeft(d)' = StepsLeft(d)
             \/ /\ Place(d) \in Neutral
                /\ Place(d)' \in Neutral \cup {"start", "deactivate", "uninstall"} /\ StepsLeft(d)' # 8
             \/ Place(d) \in Neutral /\ Place(d)' \in Neutral

LEMMA PassiveSteps ==
    ASSUME TodoTyped, NEW c \in Clients, Service!Receive(c) \/ NeutralStep(c)
    PROVE  Passive
<1>1. CASE Service!Receive(c)
  <2>1. Begun(c) /\ \A d \in Clients : d # c => met[d] \subseteq met'[d]
    BY <1>1, Received
  <2>2. UNCHANGED <<active, provider, observer, settled, control>>
    BY <1>1 DEF Service!Receive, Service!service
  <2>. QED
    BY <2>1, <2>2 DEF Begun, OthersStay, Passive, Neutral, NeutralSteps
<1>2. CASE NeutralStep(c)
    BY <1>2, NeutralGoes DEF OthersStay, Passive
<1>. QED
    BY <1>1, <1>2

LEMMA PassiveFrame ==
    ASSUME FrameStep
    PROVE  Passive
    BY FrameStays DEF Passive, Place, StepsLeft

Partly == {"activate", "install", "observe", "unobserve", "forget"}

\* A passive step begins or ends nothing that is partly done.
LEMMA PassiveStays ==
    ASSUME Passive, NEW d \in Clients
    PROVE  /\ Place(d)' \in Partly \/ Place(d) \in Partly => Place(d)' = Place(d) /\ StepsLeft(d)' = StepsLeft(d)
           /\ StoppedFirst(d)' => StoppedFirst(d)
           /\ StoppedFirst(d) => StoppedFirst(d)'
           /\ BeingStarted(d)' <=> BeingStarted(d)
           /\ BeingStopped(d)' <=> BeingStopped(d)
           /\ Place(d)' = "forget" <=> Place(d) = "forget"
           /\ Place(d)' = "activate" <=> Place(d) = "activate"
<1>1. \/ Place(d)' = Place(d) /\ StepsLeft(d)' = StepsLeft(d)
      \/ /\ Place(d) \in Neutral
         /\ Place(d)' \in Neutral \cup {"start", "deactivate", "uninstall"} /\ StepsLeft(d)' # 8
      \/ Place(d) \in Neutral /\ Place(d)' \in Neutral
    BY DEF Passive
<1>2. CASE Place(d)' = Place(d) /\ StepsLeft(d)' = StepsLeft(d)
    BY <1>2 DEF StoppedFirst, BeingStarted, BeingStopped
<1>3. CASE ~(Place(d)' = Place(d) /\ StepsLeft(d)' = StepsLeft(d))
    BY <1>1, <1>3 DEF StoppedFirst, BeingStarted, BeingStopped, Partly, Neutral, NeutralSteps
<1>. QED
    BY <1>2, <1>3

LEMMA ControlPassive ==
    ASSUME ControlInv, Passive
    PROVE  ControlInv'
    BY PassiveStays DEF ControlInv, Passive

LEMMA ProgressPassive ==
    ASSUME ProgressInv, Passive
    PROVE  ProgressInv'
<1>1. ASSUME NEW d \in Clients
      PROVE  ("opposite" \in met[d] \/ Undisturbed(d))'
  <2>1. CASE met[d] \subseteq met'[d]
    <3>1. CASE "opposite" \in met[d]
        BY <2>1, <3>1
    <3>2. CASE Undisturbed(d)
        BY <3>2, PassiveStays DEF Undisturbed, Passive, Partly
    <3>. QED
        BY <3>1, <3>2 DEF ProgressInv
  <2>2. CASE \/ Place(d)' \in {"start", "deactivate", "goal"}
             \/ (Place(d)' = "uninstall" /\ StepsLeft(d)' # 8)
    BY <2>2 DEF Undisturbed, StoppedFirst
  <2>. QED
    BY <2>1, <2>2 DEF Passive
<1>. QED
    BY <1>1 DEF ProgressInv

LEMMA SettledPassive ==
    ASSUME SettledInv, Passive
    PROVE  SettledInv'
<1>1. UNCHANGED <<active, provider, observer, settled>>
    BY DEF Passive
<1>2. \A d \in Clients : /\ BeingStarted(d)' <=> BeingStarted(d)
                         /\ BeingStopped(d)' <=> BeingStopped(d)
                         /\ Place(d)' = "forget" <=> Place(d) = "forget"
    BY PassiveStays
<1>. QED
    BY <1>1, <1>2 DEF SettledInv

\* The other calls of a step that installs or uninstalls.
LEMMA OthersAct ==
    ASSUME NEW c \in Clients, OthersStay(c), met' = met, NEW d \in Clients \ {c}
    PROVE  /\ Place(d)' = Place(d) /\ StepsLeft(d)' = StepsLeft(d) /\ met'[d] = met[d]
           /\ StoppedFirst(d)' <=> StoppedFirst(d)
           /\ BeingStarted(d)' <=> BeingStarted(d)
           /\ BeingStopped(d)' <=> BeingStopped(d)
    BY DEF OthersStay, StoppedFirst, BeingStarted, BeingStopped

LEMMA ControlActs ==
    ASSUME TodoTyped, ControlInv, active \in BOOLEAN, NEW c \in Clients, InstallingStep(c)
    PROVE  ControlInv'
<1>1. OthersStay(c) /\ met' = met
    BY StartGoes, ActivateGoes, InstallGoes, ObserveGoes, DeactivateGoes,
       ForgetGoes, UninstallGoes, UnobserveGoes DEF InstallingStep
<1>2. control' = "none" => control = "none"
    BY StartGoes, ActivateGoes, InstallGoes, ObserveGoes, DeactivateGoes,
       ForgetGoes, UninstallGoes, UnobserveGoes DEF InstallingStep
<1>3. \A d \in Clients \ {c} :
          Place(d)' = "activate" \/ BeingStarted(d)' \/ StoppedFirst(d)' => control # "none"
    BY <1>1, OthersAct DEF ControlInv
<1>4. Place(c)' = "activate" \/ BeingStarted(c)' \/ StoppedFirst(c)' => control' # "none"
  <2>1. CASE Service!StartRuntime(c)
    BY <2>1, StartGoes DEF BeingStarted, StoppedFirst
  <2>2. CASE Service!Activate(c)
    BY <2>2, ActivateGoes DEF ControlInv
  <2>3. CASE Service!Install(c)
    BY <2>3, InstallGoes DEF ControlInv, BeingStarted
  <2>4. CASE Service!Deactivate(c)
    <3>1. active \/ Place(c)' = "away"
        BY <2>4, DeactivateGoes
    <3>2. active => control' # "none"
        BY <2>4, DeactivateGoes DEF ControlInv
    <3>. QED
        BY <3>1, <3>2 DEF BeingStarted, StoppedFirst
  <2>5. CASE Service!Observe(c) \/ Service!Forget(c) \/ Service!Uninstall(c) \/ Service!Unobserve(c)
    <3>1. Place(c)' \in {"away", "read goal", "unobserve", "forget"}
        BY <2>5, ObserveGoes, ForgetGoes, UninstallGoes, UnobserveGoes
    <3>. QED
        BY <3>1 DEF BeingStarted, StoppedFirst
  <2>. QED
    BY <2>1, <2>2, <2>3, <2>4, <2>5 DEF InstallingStep
<1>5. control' = "none" => ~active' /\ ~provider' /\ ~observer'
  <2>1. CASE Service!Activate(c) \/ Service!Install(c) \/ Service!Observe(c)
    <3>1. control' = control /\ control # "none"
        BY <2>1, ActivateGoes, InstallGoes, ObserveGoes DEF ControlInv, BeingStarted
    <3>. QED
        BY <3>1
  <2>2. CASE ~(Service!Activate(c) \/ Service!Install(c) \/ Service!Observe(c))
    <3>1. (active' => active) /\ (provider' => provider) /\ (observer' => observer)
        BY <2>2, StartGoes, DeactivateGoes, ForgetGoes, UninstallGoes, UnobserveGoes DEF InstallingStep
    <3>. QED
        BY <1>2, <3>1 DEF ControlInv
  <2>. QED
    BY <2>1, <2>2
<1>. QED
    BY <1>2, <1>3, <1>4, <1>5 DEF ControlInv

\* A step that uninstalls something disturbs no other call but a start, one that installs something
\* no other but a stop, and these have met.
LEMMA ProgressActs ==
    ASSUME TodoTyped, MetInv, ProgressInv, NEW c \in Clients, InstallingStep(c)
    PROVE  ProgressInv'
<1>1. OthersStay(c) /\ met' = met
    BY StartGoes, ActivateGoes, InstallGoes, ObserveGoes, DeactivateGoes,
       ForgetGoes, UninstallGoes, UnobserveGoes DEF InstallingStep
<1>2. ASSUME NEW d \in Clients, d # c
      PROVE  "opposite" \in met[d] \/ Undisturbed(d)'
  <2>1. SUFFICES ASSUME "opposite" \notin met[d], Undisturbed(d)
                 PROVE  Undisturbed(d)'
    BY DEF ProgressInv
  <2>2. Place(d)' = Place(d) /\ StepsLeft(d)' = StepsLeft(d) /\ (StoppedFirst(d)' <=> StoppedFirst(d))
    BY <1>1, <1>2, OthersAct
  <2>3. CASE Service!Activate(c) \/ Service!Install(c)
    <3>1. Place(c) \in Service!Starting
        BY <2>3, ActivateGoes, InstallGoes DEF Service!Starting
    <3>2. Place(d) \notin Service!Stopping
        BY <1>2, <2>1, <3>1, Meeting
    <3>3. (active => active') /\ (provider => provider')
        BY <2>3, ActivateGoes, InstallGoes
    <3>. QED
        BY <2>1, <2>2, <3>2, <3>3 DEF Undisturbed, StoppedFirst, Service!Stopping
  <2>4. CASE Service!Deactivate(c) \/ Service!Forget(c) \/ Service!Uninstall(c)
    <3>1. Place(c) \in Service!Stopping
        BY <2>4, DeactivateGoes, ForgetGoes, UninstallGoes DEF Service!Stopping
    <3>2. Place(d) \notin Service!Starting
        BY <1>2, <2>1, <3>1, Meeting
    <3>3. (active' => active) /\ (provider' => provider)
        BY <2>4, DeactivateGoes, ForgetGoes, UninstallGoes
    <3>. QED
        BY <2>1, <2>2, <3>2, <3>3 DEF Undisturbed, Service!Starting
  <2>5. CASE Service!StartRuntime(c) \/ Service!Observe(c) \/ Service!Unobserve(c)
    <3>1. UNCHANGED <<active, provider>>
        BY <2>5, StartGoes, ObserveGoes, UnobserveGoes
    <3>. QED
        BY <2>1, <2>2, <3>1 DEF Undisturbed
  <2>. QED
    BY <2>3, <2>4, <2>5 DEF InstallingStep
<1>3. "opposite" \in met[c] \/ Undisturbed(c)'
  <2>1. SUFFICES ASSUME "opposite" \notin met[c], Undisturbed(c)
                 PROVE  Undisturbed(c)'
    BY DEF ProgressInv
  <2>2. CASE Service!Activate(c)
    BY <2>2, ActivateGoes DEF Undisturbed, StoppedFirst
  <2>3. CASE Service!Install(c)
    BY <2>1, <2>3, InstallGoes DEF Undisturbed, StoppedFirst
  <2>4. CASE Service!Deactivate(c)
    <3>1. ~active' /\ Place(c)' \in {"away", "uninstall"}
        BY <2>4, DeactivateGoes
    <3>. QED
        BY <3>1 DEF Undisturbed, StoppedFirst
  <2>5. CASE Service!Uninstall(c)
    <3>1. /\ ~provider' /\ active' = active /\ Place(c) = "uninstall" /\ Place(c)' \in {"away", "unobserve"}
          /\ Place(c)' = "unobserve" /\ StepsLeft(c)' = 7 => StepsLeft(c) = 8
        BY <2>5, UninstallGoes
    <3>2. Place(c)' = "unobserve" /\ StepsLeft(c)' = 7 => ~active'
        BY <2>1, <3>1 DEF Undisturbed, StoppedFirst
    <3>. QED
        BY <3>1, <3>2 DEF Undisturbed, StoppedFirst
  <2>6. CASE Service!StartRuntime(c) \/ Service!Observe(c) \/ Service!Forget(c) \/ Service!Unobserve(c)
    <3>1. Place(c)' \in {"away", "activate", "read goal", "forget"}
        BY <2>6, StartGoes, ObserveGoes, ForgetGoes, UnobserveGoes
    <3>. QED
        BY <3>1 DEF Undisturbed, StoppedFirst
  <2>. QED
    BY <2>2, <2>3, <2>4, <2>5, <2>6 DEF InstallingStep
<1>. QED
    BY <1>1, <1>2, <1>3 DEF ProgressInv

\* What was carried through is not undone, unless somebody has begun to.
Started ==
    /\ settled.call = "start" /\ \A c \in Clients : Place(c) # "forget"
    /\ (\E c \in Clients : BeingStopped(c)) \/ (active /\ provider /\ observer)

Stopped ==
    /\ settled.call # "start"
    /\ (\E c \in Clients : BeingStarted(c)) \/ (~provider /\ ~observer)
    /\ (\E c \in Clients : BeingStarted(c) \/ Place(c) = "forget") \/ ~active

LEMMA StartedActs ==
    ASSUME TodoTyped, ControlInv, Started, settled' = settled, NEW c \in Clients, InstallingStep(c),
           ~Service!Unobserve(c)
    PROVE  Started'
<1>1. OthersStay(c) /\ met' = met
    BY StartGoes, ActivateGoes, InstallGoes, ObserveGoes, DeactivateGoes,
       ForgetGoes, UninstallGoes, UnobserveGoes DEF InstallingStep
<1>2. Place(c)' # "forget" /\ ~Service!Forget(c)
    BY StartGoes, ActivateGoes, InstallGoes, ObserveGoes, DeactivateGoes,
       ForgetGoes, UninstallGoes DEF InstallingStep, Started
<1>3. \A d \in Clients : Place(d)' # "forget"
    BY <1>1, <1>2, OthersAct DEF Started
<1>4. ASSUME NEW d \in Clients, d # c, BeingStopped(d)
      PROVE  BeingStopped(d)'
    BY <1>1, <1>4, OthersAct
<1>5. CASE Service!StartRuntime(c) \/ Service!Activate(c) \/ Service!Install(c) \/ Service!Observe(c)
  <2>1. Place(c) \in {"start", "activate", "install", "observe"}
    BY <1>5, StartGoes, ActivateGoes, InstallGoes, ObserveGoes
  <2>2. ~BeingStopped(c)
    BY <2>1 DEF BeingStopped, StoppedFirst
  <2>3. (active => active') /\ (provider => provider') /\ (observer => observer')
    BY <1>5, StartGoes, ActivateGoes, InstallGoes, ObserveGoes
  <2>. QED
    BY <1>3, <1>4, <2>2, <2>3 DEF Started
<1>6. CASE Service!Deactivate(c)
  <2>1. CASE active
    BY <1>3, <1>6, <2>1, DeactivateGoes DEF Started, BeingStopped, StoppedFirst
  <2>2. CASE ~active
    <3>1. ~BeingStopped(c)
        BY <1>6, DeactivateGoes DEF BeingStopped, StoppedFirst
    <3>. QED
        BY <1>3, <1>4, <2>2, <3>1 DEF Started
  <2>. QED
    BY <2>1, <2>2
<1>7. CASE Service!Uninstall(c)
  <2>1. CASE control = "none"
    <3>1. ~active /\ ~BeingStopped(c)
        BY <1>7, <2>1, UninstallGoes DEF ControlInv, BeingStopped
    <3>. QED
        BY <1>3, <1>4, <3>1 DEF Started
  <2>2. CASE control # "none"
    BY <1>3, <1>7, <2>2, UninstallGoes DEF Started, BeingStopped
  <2>. QED
    BY <2>1, <2>2
<1>. QED
    BY <1>2, <1>5, <1>6, <1>7 DEF InstallingStep

LEMMA StoppedActs ==
    ASSUME TodoTyped, Stopped, settled' = settled, NEW c \in Clients, InstallingStep(c),
           ~Service!Observe(c), ~Service!Unobserve(c)
    PROVE  Stopped'
<1>1. OthersStay(c) /\ met' = met
    BY StartGoes, ActivateGoes, InstallGoes, DeactivateGoes, ForgetGoes, UninstallGoes DEF InstallingStep
<1>2. ASSUME NEW d \in Clients, d # c
      PROVE  (BeingStarted(d) => BeingStarted(d)') /\ (Place(d) = "forget" => Place(d)' = "forget")
    BY <1>1, <1>2, OthersAct
<1>3. CASE Service!Activate(c) \/ Service!Install(c)
  <2>1. BeingStarted(c)'
    BY <1>3, ActivateGoes, InstallGoes DEF BeingStarted
  <2>. QED
    BY <2>1 DEF Stopped
<1>4. CASE Service!StartRuntime(c) \/ Service!Deactivate(c) \/ Service!Uninstall(c)
  <2>1. Place(c) \in {"start", "deactivate", "uninstall"}
    BY <1>4, StartGoes, DeactivateGoes, UninstallGoes
  <2>2. ~BeingStarted(c) /\ Place(c) # "forget"
    BY <2>1 DEF BeingStarted
  <2>3. (active' => active) /\ (provider' => provider) /\ observer' = observer
    BY <1>4, StartGoes, DeactivateGoes, UninstallGoes
  <2>. QED
    BY <1>2, <2>2, <2>3 DEF Stopped
<1>5. CASE Service!Forget(c)
  <2>1. ~active' /\ UNCHANGED <<provider, observer>> /\ ~BeingStarted(c)
    BY <1>5, ForgetGoes DEF BeingStarted
  <2>. QED
    BY <1>2, <2>1 DEF Stopped
<1>. QED
    BY <1>3, <1>4, <1>5 DEF InstallingStep

LEMMA SettledActs ==
    ASSUME TodoTyped, MetInv, ControlInv, ProgressInv, SettledInv, NEW c \in Clients, InstallingStep(c)
    PROVE  SettledInv'
<1>1. CASE Service!Observe(c)
  <2>1. /\ settled' = [call |-> "start", met |-> met[c]] /\ Place(c) = "observe" /\ Place(c)' = "away"
        /\ observer' /\ UNCHANGED <<active, provider, met>> /\ OthersStay(c)
    BY <1>1, ObserveGoes
  <2>2. CASE "opposite" \in met[c]
    BY <2>1, <2>2 DEF SettledInv
  <2>3. CASE "opposite" \notin met[c]
    <3>1. active /\ provider
        BY <2>1, <2>3 DEF ProgressInv, Undisturbed
    <3>2. ASSUME NEW d \in Clients
          PROVE  Place(d)' # "forget"
      <4>1. CASE d = c
        BY <2>1, <4>1
      <4>2. CASE d # c
        <5>1. Place(d) \notin Service!Stopping
            BY <2>1, <2>3, <4>2, Meeting DEF Service!Starting
        <5>. QED
            BY <2>1, <4>2, <5>1, OthersAct DEF Service!Stopping
      <4>. QED
        BY <4>1, <4>2
    <3>. QED
        BY <2>1, <3>1, <3>2 DEF SettledInv
  <2>. QED
    BY <2>2, <2>3
<1>2. CASE Service!Unobserve(c)
  <2>1. /\ settled' = [call |-> "stop", met |-> met[c]] /\ Place(c) = "unobserve"
        /\ Place(c)' = "forget" \/ StepsLeft(c) = 7
        /\ ~observer' /\ UNCHANGED <<active, provider>>
    BY <1>2, UnobserveGoes
  <2>2. CASE "opposite" \in met[c]
    BY <2>1, <2>2 DEF SettledInv
  <2>3. CASE "opposite" \notin met[c]
    <3>1. ~provider /\ (StepsLeft(c) = 7 => ~active)
        BY <2>1, <2>3 DEF ProgressInv, Undisturbed
    <3>. QED
        BY <2>1, <3>1 DEF SettledInv
  <2>. QED
    BY <2>2, <2>3
<1>3. CASE ~Service!Observe(c) /\ ~Service!Unobserve(c)
  <2>1. settled' = settled
    BY <1>3, StartGoes, ActivateGoes, InstallGoes, DeactivateGoes, ForgetGoes, UninstallGoes DEF InstallingStep
  <2>2. "opposite" \in settled.met \/ Started \/ Stopped
    BY DEF SettledInv, Started, Stopped
  <2>3. "opposite" \in settled'.met \/ Started' \/ Stopped'
    BY <1>3, <2>1, <2>2, StartedActs, StoppedActs
  <2>. QED
    BY <2>3 DEF SettledInv, Started, Stopped
<1>. QED
    BY <1>1, <1>2, <1>3

LEMMA InstalledKept ==
    ASSUME TodoTyped, RuntimeTyped, MetInv, ControlInv, ProgressInv, SettledInv, Service!Next
    PROVE  ControlInv' /\ ProgressInv' /\ SettledInv'
<1>1. CASE Passive
    BY <1>1, ControlPassive, ProgressPassive, SettledPassive
<1>2. ASSUME NEW c \in Clients, InstallingStep(c)
      PROVE  ControlInv' /\ ProgressInv' /\ SettledInv'
    BY <1>2, ControlActs, ProgressActs, SettledActs DEF RuntimeTyped
<1>3. CASE Service!Crash
  <2>1. /\ \A c \in Clients : Place(c)' = "away"
        /\ ~active' /\ ~provider' /\ ~observer' /\ settled' = [call |-> "none", met |-> {}]
    BY <1>3, NoOneThere DEF Service!Crash
  <2>2. \A c \in Clients : ~BeingStarted(c)' /\ ~StoppedFirst(c)' /\ Undisturbed(c)'
    BY <2>1 DEF BeingStarted, StoppedFirst, Undisturbed
  <2>. QED
    BY <2>1, <2>2 DEF ControlInv, ProgressInv, SettledInv
<1>. QED
    BY <1>1, <1>2, <1>3, PassiveSteps, PassiveFrame DEF Service!Next, FrameStep, NeutralStep, InstallingStep

-----------------------------------------------------------------------------
\* What a stop saves.

LEMMA WrittenOver ==
    ASSUME NEW f \in Seq(Nat), NEW s \in Seq(Nat), Len(f) <= Len(s)
    PROVE  Service!Overwrite(f, s) = s
<1>1. DOMAIN f \cup DOMAIN s = 1..Len(s) /\ DOMAIN s = 1..Len(s)
    OBVIOUS
<1>2. Service!Overwrite(f, s) = [i \in 1..Len(s) |-> s[i]]
    BY <1>1 DEF Service!Overwrite
<1>. QED
    BY <1>2

LEMMA Entries ==
    ASSUME NEW s \in Seq(Nat)
    PROVE  s = [i \in 1..Len(s) |-> s[i]] /\ DOMAIN s = 1..Len(s)
    OBVIOUS

LEMMA AppendedStays ==
    ASSUME NEW s \in Seq(Nat), NEW n \in Nat
    PROVE  Service!Overwrite(Append(s, n), s) = Append(s, n)
<1>. DEFINE a == Append(s, n)
<1>1. /\ a \in Seq(Nat) /\ DOMAIN a = 1..Len(s) + 1 /\ DOMAIN s = 1..Len(s) /\ Len(s) \in Nat
      /\ \A i \in 1..Len(s) : a[i] = s[i]
    OBVIOUS
<1>2. DOMAIN a \cup DOMAIN s = DOMAIN a
    BY <1>1
<1>3. a = [i \in DOMAIN a |-> a[i]]
  <2>1. a \in Seq(Nat)
    BY <1>1
  <2>. HIDE DEF a
  <2>. QED
    BY <2>1, Entries
<1>. HIDE DEF a
<1>4. Service!Overwrite(a, s) = [i \in DOMAIN a |-> a[i]]
    BY <1>1, <1>2 DEF Service!Overwrite
<1>. QED
    BY <1>3, <1>4 DEF a

\* Of a memory and the next one, one written over the other is one of them.
LEMMA OneOfTwo ==
    ASSUME NEW old \in Memories, NEW r, r = old \/ \E n \in Nat : r = Service!Latest(Append(old, n)),
           NEW f \in {<<>>, old, r}, NEW s \in {old, r}
    PROVE  Service!Overwrite(f, s) \in {old, r}
<1>1. old \in Seq(Nat) /\ Len(old) \in Nat /\ Len(old) <= KEntries /\ KEntries \in Nat \ {0}
    BY Limits DEF Memories
<1>4. <<>> \in Seq(Nat) /\ Len(<<>>) = 0
    OBVIOUS
<1>5. ASSUME r \in Seq(Nat), Len(old) <= Len(r), s = r \/ f # r \/ Len(r) = Len(old)
      PROVE  Service!Overwrite(f, s) = s
  <2>1. Len(r) \in Nat /\ s \in Seq(Nat) /\ f \in Seq(Nat)
    <3>1. Len(r) \in Nat
        BY <1>5
    <3>2. s \in Seq(Nat)
        BY <1>1, <1>5, Zenon
    <3>3. f \in Seq(Nat)
        BY <1>1, <1>4, <1>5, Zenon
    <3>. QED
        BY <3>1, <3>2, <3>3
  <2>2. CASE f = <<>>
    <3>1. Len(f) <= Len(s)
        BY <1>1, <1>4, <2>1, <2>2
    <3>. QED
        BY <2>1, <3>1, WrittenOver
  <2>3. CASE f = old
    <3>1. Len(f) <= Len(s)
        BY <1>1, <1>5, <2>3
    <3>. QED
        BY <2>1, <3>1, WrittenOver
  <2>4. CASE f = r
    <3>1. Len(f) <= Len(s)
        BY <1>1, <1>5, <2>1, <2>4
    <3>. QED
        BY <2>1, <3>1, WrittenOver
  <2>. QED
    BY <2>2, <2>3, <2>4
<1>2. CASE r = old
    BY <1>1, <1>2, <1>5
<1>3. ASSUME NEW n \in Nat, r = Service!Latest(Append(old, n))
      PROVE  Service!Overwrite(f, s) \in {old, r}
  <2>1. Append(old, n) \in Seq(Nat) /\ Len(Append(old, n)) = Len(old) + 1
    BY <1>1
  <2>2. CASE Len(old) + 1 > KEntries
    <3>1. r = Tail(Append(old, n)) /\ Append(old, n) # <<>>
        BY <1>1, <1>3, <2>1, <2>2 DEF Service!Latest
    <3>2. r \in Seq(Nat) /\ Len(r) = Len(old)
        BY <1>1, <2>1, <3>1, HeadTailProperties
    <3>. QED
        BY <1>1, <1>5, <3>2
  <2>3. CASE ~(Len(old) + 1 > KEntries)
    <3>1. r = Append(old, n)
        BY <1>3, <2>1, <2>3 DEF Service!Latest
    <3>2. CASE f = r /\ s = old
        BY <1>1, <3>1, <3>2, AppendedStays
    <3>3. CASE ~(f = r /\ s = old)
      <4>1. r \in Seq(Nat) /\ Len(old) <= Len(r) /\ (s = r \/ f # r)
        BY <1>1, <2>1, <3>1, <3>3
      <4>. QED
        BY <1>5, <4>1
    <3>. QED
        BY <3>2, <3>3
  <2>. QED
    BY <2>2, <2>3
<1>. QED
    BY <1>2, <1>3

\* Steps between which neither memory nor its copies and its file change.
Persisting == Unsaved \cup Writing

PlacesStay(before, after) ==
    /\ after \in Writing => before \in Writing
    /\ before \in Persisting => after \in Persisting
    /\ after = "write experience" => before = "write experience"

LEMMA KeptStays ==
    ASSUME NEW old, Kept(old), UNCHANGED <<remembered, recorded, executing, experienceFile>>,
           \A d \in Clients : Copy(d)' = Copy(d) /\ PlacesStay(Place(d), Place(d)')
    PROVE  Kept(old)'
<1>1. Reported(old)'
    BY DEF Kept, Reported
<1>2. \A d \in Clients : Place(d)' \in Writing => Copy(d)' \in {old, remembered'}
    BY DEF Kept, PlacesStay
<1>3. (\E d \in Clients : Place(d)' \in Unsaved \cup Writing) \/ experienceFile' \in {old, remembered'}
    BY DEF Kept, PlacesStay, Persisting
<1>4. \A d \in Clients : Place(d)' = "write experience" => experienceFile' \in {<<>>, old, remembered'}
    BY DEF Kept, PlacesStay
<1>. QED
    BY <1>1, <1>2, <1>3, <1>4 DEF Kept

\* Such steps of one client.
LEMMA KeptByCall ==
    ASSUME TodoTyped, NEW c \in Clients, NEW old, Kept(old),
           \/ Service!Receive(c) \/ InstallingStep(c) \/ Service!RequestHalt(c) \/ Service!Halt(c)
           \/ Service!SetGoal(c) \/ Service!TruncateGoal(c) \/ Service!WriteGoal(c)
    PROVE  Kept(old)'
<1>. USE DEF Service!service, Service!memory, Service!runtime, Service!files
<1>1. UNCHANGED <<remembered, recorded, executing, experienceFile, copied>>
    BY DEF InstallingStep, Service!Receive, Service!RequestHalt, Service!Halt, Service!SetGoal,
       Service!TruncateGoal, Service!WriteGoal, Service!StartRuntime, Service!Activate, Service!Install,
       Service!Observe, Service!Deactivate, Service!Forget, Service!Uninstall, Service!Unobserve
<1>2. OthersStay(c)
  <2>1. CASE Service!Receive(c)
    BY <2>1, Received DEF Begun
  <2>2. CASE InstallingStep(c)
    BY <2>2, StartGoes, ActivateGoes, InstallGoes, ObserveGoes, DeactivateGoes,
       ForgetGoes, UninstallGoes, UnobserveGoes DEF InstallingStep
  <2>3. CASE NeutralStep(c)
    BY <2>3, NeutralGoes
  <2>. QED
    BY <2>1, <2>2, <2>3 DEF NeutralStep
<1>3. PlacesStay(Place(c), Place(c)')
  <2>1. CASE Service!Receive(c)
    <3>1. Place(c) = "away" /\ Place(c)' \in {"start", "deactivate", "uninstall", "goal"}
        BY <2>1, Received DEF Begun
    <3>. QED
        BY <3>1 DEF PlacesStay, Persisting, Unsaved, Writing
  <2>2. CASE InstallingStep(c)
    <3>1. /\ Place(c)' \in {"away", "activate", "install", "observe", "uninstall", "unobserve", "forget", "read goal"}
          /\ \/ Place(c) \in {"start", "activate", "install", "observe", "deactivate", "uninstall", "unobserve"}
             \/ Place(c) = "forget" /\ Place(c)' = "read goal"
        BY <2>2, StartGoes, ActivateGoes, InstallGoes, ObserveGoes, DeactivateGoes,
           ForgetGoes, UninstallGoes, UnobserveGoes DEF InstallingStep
    <3>. QED
        BY <3>1 DEF PlacesStay, Persisting, Unsaved, Writing
  <2>3. CASE Service!RequestHalt(c)
    <3>1. Going(c, "request halt")
        BY <2>3, Goes DEF Service!RequestHalt
    <3>. QED
        BY <3>1 DEF Going, Follows, PlacesStay, Persisting, Unsaved, Writing
  <2>4. CASE Service!Halt(c)
    <3>1. Going(c, "halt")
        BY <2>4, Goes DEF Service!Halt
    <3>. QED
        BY <3>1 DEF Going, Follows, PlacesStay, Persisting, Unsaved, Writing
  <2>5. CASE Service!SetGoal(c)
    <3>1. Going(c, "goal")
        BY <2>5, Goes DEF Service!SetGoal
    <3>. QED
        BY <3>1 DEF Going, Follows, PlacesStay, Persisting, Unsaved, Writing
  <2>6. CASE Service!TruncateGoal(c)
    <3>1. Going(c, "truncate goal")
        BY <2>6, Goes DEF Service!TruncateGoal
    <3>. QED
        BY <3>1 DEF Going, Follows, PlacesStay, Persisting, Unsaved, Writing
  <2>7. CASE Service!WriteGoal(c)
    <3>1. Going(c, "write goal")
        BY <2>7, Goes DEF Service!WriteGoal
    <3>. QED
        BY <3>1 DEF Going, Follows, PlacesStay, Persisting, Unsaved, Writing
  <2>. QED
    BY <2>1, <2>2, <2>3, <2>4, <2>5, <2>6, <2>7
<1>4. ASSUME NEW d \in Clients
      PROVE  Copy(d)' = Copy(d) /\ PlacesStay(Place(d), Place(d)')
  <2>1. CASE d = c
    BY <1>1, <1>3, <2>1 DEF Copy
  <2>2. CASE d # c
    BY <1>1, <1>2, <2>2 DEF Copy, OthersStay, PlacesStay
  <2>. QED
    BY <2>1, <2>2
<1>. QED
    BY <1>1, <1>4, KeptStays

\* The steps that copy memory and write it.
LEMMA KeptByCopy ==
    ASSUME TodoTyped, ServiceTypes, NEW c \in Clients, NEW old, Kept(old),
           Service!ReadGoal(c) \/ Service!ReadExperience(c)
    PROVE  Kept(old)'
<1>. USE DEF Service!service, Service!memory, Service!runtime, Service!files
<1>1. UNCHANGED <<remembered, recorded, executing, experienceFile>>
    BY DEF Service!ReadGoal, Service!ReadExperience
<1>2. CASE Service!ReadGoal(c)
  <2>1. Going(c, "read goal")
    BY <1>2, Goes DEF Service!ReadGoal
  <2>2. Place(c) = "read goal" /\ Place(c)' = "read experience" /\ OthersStay(c)
    BY <2>1 DEF Going, Follows
  <2>3. \A d \in Clients : Copy(d)' = Copy(d)
    BY <1>2 DEF Service!ReadGoal, Copy, ServiceTypes
  <2>4. PlacesStay("read goal", "read experience")
    BY DEF PlacesStay, Persisting, Unsaved, Writing
  <2>5. \A d \in Clients : PlacesStay(Place(d), Place(d)')
    BY <2>2, <2>4 DEF OthersStay, PlacesStay
  <2>. QED
    BY <1>1, <2>3, <2>5, KeptStays
<1>3. CASE Service!ReadExperience(c)
  <2>1. Going(c, "read experience")
    BY <1>3, Goes DEF Service!ReadExperience
  <2>2. Place(c) = "read experience" /\ Place(c)' = "truncate goal" /\ OthersStay(c)
    BY <2>1 DEF Going, Follows
  <2>3. \A d \in Clients : Copy(d)' = IF d = c THEN remembered ELSE Copy(d)
    BY <1>3 DEF Service!ReadExperience, Copy, ServiceTypes
  <2>4. Reported(old)'
    BY <1>1 DEF Kept, Reported
  <2>5. \A d \in Clients : Place(d)' \in Writing => Copy(d)' \in {old, remembered'}
    BY <1>1, <2>2, <2>3 DEF Kept, OthersStay
  <2>6. \E d \in Clients : Place(d)' \in Unsaved \cup Writing
    BY <2>2 DEF Writing
  <2>7. \A d \in Clients : Place(d)' = "write experience" => experienceFile' \in {<<>>, old, remembered'}
    BY <1>1, <2>2 DEF Kept, OthersStay
  <2>. QED
    BY <2>4, <2>5, <2>6, <2>7 DEF Kept
<1>. QED
    BY <1>2, <1>3

LEMMA KeptByFile ==
    ASSUME TodoTyped, RuntimeTyped, NEW c \in Clients, NEW old \in Memories, Kept(old),
           Service!TruncateExperience(c) \/ Service!WriteExperience(c)
    PROVE  Kept(old)'
<1>. USE DEF Service!service, Service!memory, Service!runtime, Service!files
<1>1. UNCHANGED <<remembered, recorded, executing, copied>>
    BY DEF Service!TruncateExperience, Service!WriteExperience
<1>2. Reported(old)' /\ \A d \in Clients : Copy(d)' = Copy(d)
    BY <1>1 DEF Kept, Reported, Copy
<1>3. CASE Service!TruncateExperience(c)
  <2>1. Going(c, "truncate experience")
    BY <1>3, Goes DEF Service!TruncateExperience
  <2>2. Place(c) = "truncate experience" /\ Place(c)' = "write experience" /\ OthersStay(c)
    BY <2>1 DEF Going, Follows
  <2>3. experienceFile' = <<>>
    BY <1>3 DEF Service!TruncateExperience
  <2>4. \A d \in Clients : Place(d)' \in Writing => Place(d) \in Writing
    BY <2>2 DEF OthersStay, Writing
  <2>5. \E d \in Clients : Place(d)' \in Unsaved \cup Writing
    BY <2>2 DEF Writing
  <2>. QED
    BY <1>1, <1>2, <2>3, <2>4, <2>5 DEF Kept
<1>4. CASE Service!WriteExperience(c)
  <2>1. Going(c, "write experience")
    BY <1>4, Goes DEF Service!WriteExperience
  <2>2. Place(c) = "write experience" /\ Place(c)' \in {"away", "request halt"} /\ OthersStay(c)
    BY <2>1 DEF Going, Follows
  <2>3. experienceFile \in {<<>>, old, remembered} /\ Copy(c) \in {old, remembered}
    BY <2>2 DEF Kept, Writing
  <2>4. remembered = old \/ \E n \in Nat : remembered = Service!Latest(Append(old, n))
    <3>1. ASSUME NEW n \in 1..recorded
          PROVE  n \in Nat
        OBVIOUS
    <3>. QED
        BY <3>1 DEF Kept, Reported
  <2>5. experienceFile' \in {old, remembered}
    BY <1>4, <2>3, <2>4, OneOfTwo DEF Service!WriteExperience, Copy
  <2>6. \A d \in Clients : Place(d)' \in Writing => Place(d) \in Writing
    BY <2>2 DEF OthersStay, Writing
  <2>. QED
    BY <1>1, <1>2, <2>5, <2>6 DEF Kept
<1>. QED
    BY <1>3, <1>4

\* The runtime executes and reports when no observer is installed.
LEMMA KeptByFrame ==
    ASSUME RuntimeTyped, NEW old, Kept(old), ~observer, FrameStep
    PROVE  Kept(old)'
<1>1. UNCHANGED <<todo, copied, experienceFile>>
    BY FrameStays
<1>2. \A d \in Clients : Copy(d)' = Copy(d) /\ Place(d)' = Place(d)
    BY <1>1 DEF Copy, Place
<1>3. CASE UNCHANGED <<remembered, recorded>> /\ (executing = "observed" \/ executing' # "observed")
  <2>1. Reported(old)'
    BY <1>3 DEF Kept, Reported
  <2>. QED
    BY <1>1, <1>2, <1>3, <2>1 DEF Kept
<1>4. CASE /\ executing = "observed" /\ executing' = "idle" /\ recorded' = recorded + 1
           /\ remembered' = Service!Latest(Append(remembered, recorded'))
  <2>1. remembered = old
    BY <1>4 DEF Kept, Reported
  <2>2. recorded' \in 1..recorded'
    BY <1>4, Limits DEF RuntimeTyped
  <2>3. Reported(old)'
    BY <1>4, <2>1, <2>2 DEF Reported
  <2>. QED
    BY <1>1, <1>2, <2>1, <2>3 DEF Kept
<1>. USE DEF Service!memory, Service!threads, Service!service
<1>5. CASE Service!Report
    BY <1>3, <1>4, <1>5 DEF Service!Report
<1>6. CASE Service!Execute
    BY <1>3, <1>6 DEF Service!Execute
<1>7. CASE Service!CallProvider \/ Service!TakeSnapshot \/ Service!Enqueue \/ Service!RuntimeEnds
  <2>1. UNCHANGED <<remembered, recorded, executing>>
    BY <1>7 DEF Service!CallProvider, Service!TakeSnapshot, Service!Enqueue, Service!RuntimeEnds, Service!runtime
  <2>. QED
    BY <1>3, <2>1
<1>. QED
    BY <1>5, <1>6, <1>7 DEF FrameStep

\* A stop that met nobody has just uninstalled the observer: nobody else is about to write.
LEMMA KeptFirst ==
    ASSUME TodoTyped, ServiceOrder, MetInv, NEW c \in Clients, Service!Unobserve(c), met[c] = {}
    PROVE  \E old \in Memories : Kept(old)'
<1>1. /\ Place(c) = "unobserve" /\ Place(c)' \in {"forget", "read goal"} /\ OthersStay(c)
    BY UnobserveGoes
<1>2. UNCHANGED <<remembered, recorded, executing, experienceFile, copied>>
    BY DEF Service!Unobserve, Service!memory, Service!runtime, Service!files
<1>3. remembered \in Memories
    BY DEF ServiceOrder, InOrder, Memories
<1>4. \A d \in Clients : Place(d)' \notin Writing
  <2>1. ASSUME NEW d \in Clients, d # c
        PROVE  Place(d) \notin Service!Saving
    <3>1. Place(c) \in Service!Stopping
        BY <1>1 DEF Service!Stopping
    <3>. QED
        BY <2>1, <3>1, Meeting
  <2>2. \A d \in Clients \ {c} : Place(d)' \notin Writing
    BY <1>1, <2>1 DEF OthersStay, Service!Saving, Writing
  <2>3. Place(c)' \notin Writing
    BY <1>1 DEF Writing
  <2>. QED
    BY <2>2, <2>3
<1>5. \E d \in Clients : Place(d)' \in Unsaved \cup Writing
    BY <1>1 DEF Unsaved
<1>6. "write experience" \in Writing
    BY DEF Writing
<1>7. Kept(remembered)'
    BY <1>2, <1>4, <1>5, <1>6 DEF Kept, Reported
<1>. QED
    BY <1>2, <1>3, <1>7

LEMMA SavedKept ==
    ASSUME TodoTyped, RuntimeTyped, ServiceInv, MetInv, SavedInv, Service!Next
    PROVE  SavedInv'
<1>. USE DEF ServiceInv
<1>1. ASSUME NEW c \in Clients, Service!Observe(c)
      PROVE  SavedInv'
  <2>1. settled'.call = "start"
    BY <1>1, ObserveGoes
  <2>. QED
    BY <2>1 DEF SavedInv, AlonePersisted
<1>2. ASSUME NEW c \in Clients, Service!Unobserve(c)
      PROVE  SavedInv'
  <2>1. ~observer' /\ settled' = [call |-> "stop", met |-> met[c]]
    BY <1>2, UnobserveGoes
  <2>2. CASE met[c] = {}
    BY <1>2, <2>1, <2>2, KeptFirst DEF SavedInv
  <2>3. CASE met[c] # {}
    BY <2>1, <2>3 DEF SavedInv, AlonePersisted
  <2>. QED
    BY <2>2, <2>3
<1>3. CASE Service!Crash
  <2>1. settled'.call = "none"
    BY <1>3 DEF Service!Crash
  <2>. QED
    BY <2>1 DEF SavedInv, AlonePersisted
<1>4. ASSUME NEW c \in Clients, Service!Receive(c) \/ NeutralStep(c) \/ InstallingStep(c),
             ~Service!Observe(c), ~Service!Unobserve(c)
      PROVE  SavedInv'
  <2>1. UNCHANGED <<settled, observer>>
    <3>1. CASE Service!Receive(c) \/ NeutralStep(c)
        BY <3>1, PassiveSteps DEF Passive
    <3>2. CASE InstallingStep(c)
        BY <1>4, <3>2, StartGoes, ActivateGoes, InstallGoes, DeactivateGoes, ForgetGoes, UninstallGoes DEF InstallingStep
    <3>. QED
        BY <1>4, <3>1, <3>2
  <2>2. \A old \in Memories : Kept(old) => Kept(old)'
    BY <1>4, KeptByCall, KeptByCopy, KeptByFile DEF NeutralStep
  <2>. QED
    BY <2>1, <2>2 DEF SavedInv, AlonePersisted
<1>5. CASE FrameStep
  <2>1. UNCHANGED <<settled, observer>>
    BY <1>5, FrameStays
  <2>2. CASE observer
    BY <2>1, <2>2 DEF SavedInv, AlonePersisted
  <2>3. CASE ~observer
    <3>1. \A old \in Memories : Kept(old) => Kept(old)'
        BY <1>5, <2>3, KeptByFrame
    <3>. QED
        BY <2>1, <3>1 DEF SavedInv, AlonePersisted
  <2>. QED
    BY <2>2, <2>3
<1>. QED
    BY <1>1, <1>2, <1>3, <1>4, <1>5 DEF Service!Next, FrameStep, NeutralStep, InstallingStep

-----------------------------------------------------------------------------
LEMMA StoppingBegins ==
    ASSUME Service!Init
    PROVE  StoppingInv
<1>1. TodoTyped
    BY NothingLeft DEF Service!Init, TodoTyped
<1>2. RuntimeTyped
  <2>1. 0 \in 0..KReports
    BY Limits
  <2>. QED
    BY <2>1, NoneQueued DEF Service!Init, RuntimeTyped
<1>3. /\ \A c \in Clients : todo[c] = <<>>
      /\ ~active /\ ~provider /\ ~observer /\ late = 0 /\ settled = [call |-> "none", met |-> {}]
    BY DEF Service!Init
<1>4. \A c \in Clients : Place(c) = "away"
    BY <1>3 DEF Place, PlaceOf
<1>5. \A c \in Clients : ~BeingStarted(c) /\ ~StoppedFirst(c) /\ Undisturbed(c)
    BY <1>4 DEF BeingStarted, StoppedFirst, Undisturbed
<1>6. LateOnce /\ MetInv
    BY <1>3 DEF LateOnce, MetInv, Service!Meets, Service!Opposed, Service!In
<1>7. ControlInv /\ ProgressInv /\ SettledInv /\ SavedInv
    BY <1>3, <1>4, <1>5 DEF ControlInv, ProgressInv, SettledInv, SavedInv, AlonePersisted
<1>. QED
    BY <1>1, <1>2, <1>6, <1>7 DEF StoppingInv

LEMMA StoppingKept ==
    ASSUME ServiceInv, StoppingInv, [Service!Next]_(Service!vars)
    PROVE  StoppingInv'
<1>1. CASE Service!Next
    BY <1>1, TodoKept, RuntimeKept, LateKept, MetKept, InstalledKept, SavedKept DEF StoppingInv, RuntimeTyped
<1>2. CASE UNCHANGED Service!vars
  <2>1. /\ UNCHANGED <<todo, copied, control, active, provider, observer, remembered, recorded>>
        /\ UNCHANGED <<worker, executing, queued, late, experienceFile, met, settled>>
    BY <1>2 DEF Service!vars, Service!threads, Service!service, Service!memory, Service!runtime, Service!files,
       Service!meetings
  <2>2. \A d \in Clients : /\ Place(d)' = Place(d) /\ Copy(d)' = Copy(d) /\ (Undisturbed(d)' <=> Undisturbed(d))
                           /\ (BeingStarted(d)' <=> BeingStarted(d)) /\ (BeingStopped(d)' <=> BeingStopped(d))
                           /\ (StoppedFirst(d)' <=> StoppedFirst(d))
    BY <2>1 DEF Place, Copy, Undisturbed, BeingStarted, BeingStopped, StoppedFirst, StepsLeft
  <2>3. TodoTyped' /\ RuntimeTyped' /\ LateOnce' /\ MetInv'
    BY <2>1 DEF StoppingInv, TodoTyped, RuntimeTyped, LateOnce, MetInv
  <2>4. ControlInv' /\ ProgressInv' /\ SettledInv'
    BY <2>1, <2>2 DEF StoppingInv, ControlInv, ProgressInv, SettledInv
  <2>5. \A old : Kept(old) => Kept(old)'
    BY <2>1, <2>2, KeptStays DEF PlacesStay
  <2>6. SavedInv'
    BY <2>1, <2>5 DEF StoppingInv, SavedInv, AlonePersisted
  <2>. QED
    BY <2>3, <2>4, <2>6 DEF StoppingInv
<1>. QED
    BY <1>1, <1>2

LEMMA NoLonger ==
    ASSUME NEW n \in 0..11, NEW m \in Nat, m = 11
    PROVE  n <= m
    OBVIOUS

LEMMA ServiceSafe ==
    ASSUME ServiceInv, StoppingInv
    PROVE  /\ Service!TypeOK /\ Service!ExperienceInOrder /\ Service!ActiveMeansInstalled
           /\ Service!AtMostOneLateDecision /\ Service!StopSaves
<1>1. \A c \in Clients : Len(todo[c]) <= Len(Service!ControlStopSteps)
  <2>1. \A c \in Clients : Len(todo[c]) \in 0..11
    BY PlanFollows DEF StoppingInv, TodoTyped, FollowsIn
  <2>2. Len(Service!ControlStopSteps) = 11
    BY ControlStopPlan DEF Call
  <2>. QED
    BY <2>1, <2>2, NoLonger
<1>2. InOrder(experienceFile, recorded) /\ InOrder(remembered, recorded)
    BY DEF ServiceInv, ServiceOrder, Earlier
<1>3. Service!TypeOK
    BY <1>1, <1>2 DEF Service!TypeOK, ServiceInv, ServiceTypes, StoppingInv, RuntimeTyped, InOrder
<1>4. Service!ExperienceInOrder
    BY <1>2 DEF InOrder, Service!ExperienceInOrder
<1>5. Service!Quiet => \A c \in Clients : Place(c) = "away"
    BY DEF Service!Quiet, Place, PlaceOf
<1>6. Service!ActiveMeansInstalled
  <2>1. SUFFICES ASSUME Service!Quiet, "opposite" \notin settled.met
                 PROVE  IF settled.call = "start" THEN active /\ provider /\ observer
                        ELSE ~active /\ ~provider /\ ~observer
    BY DEF Service!ActiveMeansInstalled
  <2>2. \A c \in Clients : ~BeingStarted(c) /\ ~BeingStopped(c) /\ Place(c) # "forget"
    BY <1>5, <2>1 DEF BeingStarted, BeingStopped, StoppedFirst
  <2>. QED
    BY <2>1, <2>2 DEF StoppingInv, SettledInv
<1>7. Service!AtMostOneLateDecision
    BY DEF Service!AtMostOneLateDecision, StoppingInv, LateOnce
<1>8. Service!StopSaves
  <2>1. SUFFICES ASSUME Service!Quiet, AlonePersisted
                 PROVE  \/ experienceFile = remembered
                        \/ \E n \in 1..recorded : remembered = Service!Latest(Append(experienceFile, n))
    BY DEF Service!StopSaves, AlonePersisted
  <2>2. PICK old \in Memories : Kept(old)
    BY <2>1 DEF StoppingInv, SavedInv
  <2>3. experienceFile \in {old, remembered}
    BY <1>5, <2>1, <2>2 DEF Kept, Unsaved, Writing
  <2>. QED
    BY <2>2, <2>3 DEF Kept, Reported
<1>. QED
    BY <1>3, <1>4, <1>6, <1>7, <1>8

-----------------------------------------------------------------------------
\* The skills. A line of the file may lack its complexity and end within its sequence or its frames;
\* a skill has the complexity of its sequence, and frames, at most those of its sequence.

Lines ==
    [attempts : Nat, successes : Nat, sequence : Seq({activate, set, cut}), frames : Nat, complexity : 0..2]

LineOf(line) ==
    /\ line \in Lines /\ line.frames <= Skills!FramesFor(line.sequence)
    /\ line.complexity \in {0, Skills!Complexity(line.sequence)}

SkillOf(skill) ==
    /\ skill \in Lines /\ skill.frames \in 1..Skills!FramesFor(skill.sequence)
    /\ skill.complexity = Skills!Complexity(skill.sequence)

\* Nothing of it is what a cut line left.
Intact(skill) ==
    /\ skill.frames = Skills!FramesFor(skill.sequence)
    /\ cut \notin {skill.sequence[i] : i \in DOMAIN skill.sequence}

CountTypes ==
    /\ counted \in [Skills!Names -> Nat] /\ reported \in [Skills!Names -> Nat] /\ won \in [Skills!Names -> Nat]
    /\ restarts \in Nat /\ KSkills \in Nat

\* No more was counted of a skill than was recorded under its name.
Within(line, n) == line.attempts <= counted[n] + reported[n] /\ line.successes <= won[n]

FileInv == DOMAIN file \subseteq Skills!Names /\ \A n \in DOMAIN file : LineOf(file[n]) /\ Within(file[n], n)

KnownInv == DOMAIN skills \subseteq Skills!Names /\ \A n \in DOMAIN skills : SkillOf(skills[n]) /\ Within(skills[n], n)

\* A process that lost nothing counts all of it, and knows nothing of other names.
Exact(n) ==
    IF n \in DOMAIN skills THEN skills[n].attempts = counted[n] + reported[n] /\ skills[n].successes = won[n]
    ELSE counted[n] = 0 /\ reported[n] = 0 /\ won[n] = 0

RepairInv == \A n \in touched \cap DOMAIN skills : Intact(skills[n])

SkillInv ==
    CountTypes /\ FileInv /\ KnownInv /\ RepairInv /\ (restarts = 0 => \A n \in Skills!Names : Exact(n))

LEMMA FramesCounted ==
    ASSUME NEW s \in Seq({activate, set, cut})
    PROVE  Skills!FramesFor(s) \in Nat \ {0} /\ Skills!Complexity(s) \in 0..2
<1>1. Len(s) \in Nat /\ (s # <<>> => Len(s) # 0)
    OBVIOUS
<1>2. Skills!FramesFor(s) \in Nat \ {0}
    BY <1>1 DEF Skills!FramesFor
<1>3. Skills!Complexity(s) \in 0..2
    BY <1>1 DEF Skills!Complexity
<1>. QED
    BY <1>2, <1>3

\* What Load makes of a line is a skill with its counts.
LEMMA LineParsed ==
    ASSUME NEW line, LineOf(line)
    PROVE  /\ SkillOf(Skills!Parsed(line))
           /\ Skills!Parsed(line).attempts = line.attempts /\ Skills!Parsed(line).successes = line.successes
<1>. DEFINE c == IF line.complexity = 0 THEN Skills!Complexity(line.sequence) ELSE line.complexity
            f == IF line.frames = 0 THEN 1 ELSE line.frames
<1>1. line \in Lines
    BY DEF LineOf
<1>2. Skills!FramesFor(line.sequence) \in Nat \ {0} /\ Skills!Complexity(line.sequence) \in 0..2
    BY <1>1, FramesCounted DEF Lines
<1>3. f \in 1..Skills!FramesFor(line.sequence) /\ c = Skills!Complexity(line.sequence)
    BY <1>1, <1>2 DEF LineOf, Lines
<1>4. Skills!Parsed(line) = [line EXCEPT !.complexity = c, !.frames = f]
    BY DEF Skills!Parsed
<1>. HIDE DEF c, f
<1>5. Skills!Parsed(line) = [attempts |-> line.attempts, successes |-> line.successes, sequence |-> line.sequence,
                             frames |-> f, complexity |-> c]
    BY <1>1, <1>4 DEF Lines
<1>6. Skills!Parsed(line) \in Lines
    BY <1>1, <1>2, <1>3, <1>5 DEF Lines
<1>. QED
    BY <1>3, <1>5, <1>6 DEF SkillOf

LEMMA FileLoaded ==
    ASSUME NEW lines, DOMAIN lines \subseteq Skills!Names, \A n \in DOMAIN lines : LineOf(lines[n])
    PROVE  /\ DOMAIN Skills!Load(lines) = DOMAIN lines
           /\ \A n \in DOMAIN lines :
                 /\ SkillOf(Skills!Load(lines)[n]) /\ Skills!Load(lines)[n].attempts = lines[n].attempts
                 /\ Skills!Load(lines)[n].successes = lines[n].successes
    BY LineParsed DEF Skills!Load

\* Actions that were recorded are none of them cut.
LEMMA SequenceWhole ==
    ASSUME NEW s \in Seq({activate, set})
    PROVE  s \in Seq({activate, set, cut}) /\ cut \notin {s[i] : i \in DOMAIN s}
<1>1. cut \notin {activate, set}
    BY PersistenceAssumption DEF Skills!LimitAssumption
<1>2. \A i \in DOMAIN s : s[i] \in {activate, set}
    OBVIOUS
<1>3. s \in Seq({activate, set, cut})
    OBVIOUS
<1>. QED
    BY <1>1, <1>2, <1>3

\* What is recorded under a name is one more attempt, and whole.
LEMMA SkillUpdated ==
    ASSUME NEW old \in Lines, NEW s \in Seq({activate, set}), NEW success \in BOOLEAN
    PROVE  /\ SkillOf(Skills!Updated(old, s, success)) /\ Intact(Skills!Updated(old, s, success))
           /\ Skills!Updated(old, s, success).attempts = old.attempts + 1
           /\ Skills!Updated(old, s, success).successes = old.successes + (IF success THEN 1 ELSE 0)
<1>. DEFINE won1 == IF success THEN 1 ELSE 0
            new == Skills!Updated(old, s, success)
<1>1. new = [attempts |-> old.attempts + 1, successes |-> old.successes + won1, sequence |-> s,
             frames |-> Skills!FramesFor(s), complexity |-> Skills!Complexity(s)]
    BY DEF Skills!Updated
<1>2. won1 \in Nat
    OBVIOUS
<1>. HIDE DEF won1, new
<1>3. old.attempts + 1 \in Nat /\ old.successes + won1 \in Nat
    BY <1>2 DEF Lines
<1>4. /\ s \in Seq({activate, set, cut}) /\ cut \notin {s[i] : i \in DOMAIN s}
      /\ Skills!FramesFor(s) \in Nat \ {0} /\ Skills!Complexity(s) \in 0..2
    BY FramesCounted, SequenceWhole
<1>5. new \in Lines
    BY <1>1, <1>3, <1>4 DEF Lines
<1>6. /\ SkillOf(new) /\ Intact(new)
      /\ new.attempts = old.attempts + 1 /\ new.successes = old.successes + won1
    BY <1>1, <1>4, <1>5 DEF SkillOf, Intact
<1>. QED
    BY <1>6 DEF new, won1

LEMMA UnknownIsALine == Skills!Unknown \in Lines
    BY DEF Skills!Unknown, Lines

\* One more frame or outcome under a name.
OneMore(name, gain) ==
    /\ CountTypes'
    /\ \A n \in Skills!Names :
          /\ counted'[n] + reported'[n] = (IF n = name THEN counted[n] + reported[n] + 1 ELSE counted[n] + reported[n])
          /\ won'[n] = (IF n = name THEN won[n] + gain ELSE won[n])

LEMMA Recorded ==
    ASSUME SkillInv, NEW name \in Skills!Names, NEW s \in Seq({activate, set}), NEW success \in BOOLEAN,
           Skills!Record(name, s, success), OneMore(name, IF success THEN 1 ELSE 0), UNCHANGED <<file, restarts>>
    PROVE  SkillInv'
<1>. DEFINE old == IF name \in DOMAIN skills THEN skills[name] ELSE Skills!Unknown
            new == Skills!Updated(old, s, success)
            gain == IF success THEN 1 ELSE 0
<1>1. CountTypes /\ CountTypes' /\ gain \in Nat
    BY DEF SkillInv, OneMore
<1>2. /\ skills' = [n \in DOMAIN skills \cup {name} |-> IF n = name THEN new ELSE skills[n]]
      /\ DOMAIN skills' = DOMAIN skills \cup {name} /\ DOMAIN skills' \subseteq Skills!Names
      /\ touched' = touched \cup {name}
    BY DEF Skills!Record, SkillInv, KnownInv
<1>3. old \in Lines
    BY UnknownIsALine DEF SkillInv, KnownInv, SkillOf
<1>4. SkillOf(new) /\ Intact(new) /\ new.attempts = old.attempts + 1 /\ new.successes = old.successes + gain
    BY <1>3, SkillUpdated
<1>5. old.attempts <= counted[name] + reported[name] /\ old.successes <= won[name]
  <2>1. CASE name \in DOMAIN skills
    BY <2>1 DEF SkillInv, KnownInv, Within
  <2>2. CASE name \notin DOMAIN skills
    BY <1>1, <2>2 DEF Skills!Unknown, CountTypes
  <2>. QED
    BY <2>1, <2>2
<1>6. \A n \in Skills!Names : n # name =>
          counted'[n] + reported'[n] = counted[n] + reported[n] /\ won'[n] = won[n]
    BY DEF OneMore
<1>7. counted'[name] + reported'[name] = counted[name] + reported[name] + 1 /\ won'[name] = won[name] + gain
    BY DEF OneMore
<1>8. /\ counted[name] \in Nat /\ reported[name] \in Nat /\ won[name] \in Nat
      /\ old.attempts \in Nat /\ old.successes \in Nat
    BY <1>1, <1>3 DEF CountTypes, Lines
<1>. HIDE DEF old, new, gain
<1>9. new.attempts <= counted'[name] + reported'[name] /\ new.successes <= won'[name]
    BY <1>1, <1>4, <1>5, <1>7, <1>8, SMTT(30)
<1>10. KnownInv'
  <2>1. ASSUME NEW n \in DOMAIN skills'
        PROVE  SkillOf(skills'[n]) /\ skills'[n].attempts <= counted'[n] + reported'[n] /\ skills'[n].successes <= won'[n]
    <3>1. CASE n = name
        BY <1>2, <1>4, <1>9, <3>1
    <3>2. CASE n # name
      <4>1. n \in DOMAIN skills /\ n \in Skills!Names /\ skills'[n] = skills[n]
        BY <1>2, <3>2
      <4>. QED
        BY <1>6, <3>2, <4>1 DEF SkillInv, KnownInv, Within
    <3>. QED
        BY <3>1, <3>2
  <2>. QED
    BY <1>2, <2>1 DEF KnownInv, Within
<1>11. FileInv'
  <2>1. ASSUME NEW n \in DOMAIN file
        PROVE  file[n].attempts <= counted'[n] + reported'[n] /\ file[n].successes <= won'[n]
    <3>1. /\ n \in Skills!Names /\ file[n].attempts <= counted[n] + reported[n] /\ file[n].successes <= won[n]
          /\ file[n].attempts \in Nat /\ file[n].successes \in Nat
        BY DEF SkillInv, FileInv, Within, LineOf, Lines
    <3>2. CASE n = name
        BY <1>1, <1>7, <1>8, <3>1, <3>2, SMTT(30)
    <3>3. CASE n # name
        BY <1>6, <3>1, <3>3
    <3>. QED
        BY <3>2, <3>3
  <2>. QED
    BY <2>1 DEF SkillInv, FileInv, Within
<1>12. ASSUME restarts' = 0, NEW n \in Skills!Names
       PROVE  Exact(n)'
  <2>1. restarts = 0 /\ Exact(n)
    BY <1>12 DEF SkillInv
  <2>2. CASE n = name
    <3>1. old.attempts = counted[name] + reported[name] /\ old.successes = won[name]
      <4>1. CASE name \in DOMAIN skills
        BY <2>1, <2>2, <4>1 DEF Exact, old
      <4>2. CASE name \notin DOMAIN skills
        <5>1. counted[name] = 0 /\ reported[name] = 0 /\ won[name] = 0
            BY <2>1, <2>2, <4>2 DEF Exact
        <5>2. old.attempts = 0 /\ old.successes = 0
            BY <4>2 DEF old, Skills!Unknown
        <5>. QED
            BY <5>1, <5>2
      <4>. QED
        BY <4>1, <4>2
    <3>2. skills'[n] = new /\ n \in DOMAIN skills'
        BY <1>2, <2>2
    <3>3. new.attempts = counted'[name] + reported'[name] /\ new.successes = won'[name]
        BY <1>4, <1>7, <1>8, <3>1
    <3>. QED
        BY <2>2, <3>2, <3>3 DEF Exact
  <2>3. CASE n # name
    <3>1. (n \in DOMAIN skills' <=> n \in DOMAIN skills) /\ (n \in DOMAIN skills => skills'[n] = skills[n])
        BY <1>2, <2>3
    <3>2. CASE n \in DOMAIN skills
        BY <1>6, <2>1, <2>3, <3>1, <3>2 DEF Exact
    <3>3. CASE n \notin DOMAIN skills
      <4>1. /\ counted[n] = 0 /\ reported[n] = 0 /\ won[n] = 0 /\ won'[n] = won[n]
            /\ counted'[n] + reported'[n] = counted[n] + reported[n]
        BY <1>6, <2>1, <2>3, <3>3 DEF Exact
      <4>2. counted'[n] \in Nat /\ reported'[n] \in Nat
        BY <1>1 DEF CountTypes
      <4>3. counted'[n] = 0 /\ reported'[n] = 0
        BY <4>1, <4>2
      <4>. QED
        BY <3>1, <3>3, <4>1, <4>3 DEF Exact
    <3>. QED
        BY <3>2, <3>3
  <2>. QED
    BY <2>2, <2>3
<1>13. RepairInv'
    BY <1>2, <1>4 DEF SkillInv, RepairInv
<1>. QED
    BY <1>1, <1>10, <1>11, <1>12, <1>13 DEF SkillInv

\* A skill is written to a line.
LEMMA LinesOfSkills ==
    ASSUME SkillInv
    PROVE  \A n \in DOMAIN skills : LineOf(skills[n])
    BY DEF SkillInv, KnownInv, SkillOf, LineOf

LEMMA FileSaved ==
    ASSUME SkillInv, UNCHANGED <<skills, counted, reported, won, touched, restarts>>, file' = <<>> \/ file' = skills
    PROVE  SkillInv'
<1>1. \A n \in DOMAIN skills : LineOf(skills[n])
    BY LinesOfSkills
<1>2. FileInv'
  <2>1. CASE file' = <<>>
    BY <2>1 DEF FileInv
  <2>2. CASE file' = skills
    BY <1>1, <2>2 DEF SkillInv, KnownInv, FileInv, Within
  <2>. QED
    BY <2>1, <2>2
<1>3. CountTypes' /\ KnownInv' /\ RepairInv' /\ (restarts' = 0 => \A n \in Skills!Names : Exact(n)')
    BY DEF SkillInv, CountTypes, KnownInv, Within, RepairInv, Exact
<1>. QED
    BY <1>2, <1>3 DEF SkillInv

\* What is left of a line has its counts.
LEMMA LineTorn ==
    ASSUME NEW skill, LineOf(skill), NEW line \in Skills!Torn(skill)
    PROVE  LineOf(line) /\ line.attempts = skill.attempts /\ line.successes = skill.successes
<1>1. skill \in Lines /\ skill.frames <= Skills!FramesFor(skill.sequence)
      /\ skill.complexity \in {0, Skills!Complexity(skill.sequence)}
    BY DEF LineOf
<1>. DEFINE starts == {SubSeq(skill.sequence, 1, k) : k \in 0..Len(skill.sequence)}
            beginnings == starts \cup {Append(start, cut) : start \in starts}
<1>2. CASE \E left \in beginnings : line = [skill EXCEPT !.sequence = left, !.frames = 0, !.complexity = 0]
  <2>1. PICK left \in beginnings : line = [skill EXCEPT !.sequence = left, !.frames = 0, !.complexity = 0]
    BY <1>2
  <2>2. \A start \in starts : start \in Seq({activate, set, cut})
    BY <1>1 DEF Lines
  <2>. HIDE DEF starts
  <2>3. left \in Seq({activate, set, cut})
    BY <2>2
  <2>4. line = [attempts |-> skill.attempts, successes |-> skill.successes, sequence |-> left,
                frames |-> 0, complexity |-> 0]
    BY <1>1, <2>1 DEF Lines
  <2>5. line \in Lines
    BY <1>1, <2>3, <2>4 DEF Lines
  <2>6. Skills!FramesFor(left) \in Nat
    BY <2>3, FramesCounted
  <2>. QED
    BY <2>4, <2>5, <2>6 DEF LineOf
<1>3. CASE \E digits \in {0, skill.frames \div 10} : line = [skill EXCEPT !.frames = digits]
  <2>1. PICK digits \in {0, skill.frames \div 10} : line = [skill EXCEPT !.frames = digits]
    BY <1>3
  <2>2. skill.frames \in Nat /\ Skills!FramesFor(skill.sequence) \in Nat
    BY <1>1, FramesCounted DEF Lines
  <2>3. digits \in Nat /\ digits <= skill.frames
    BY <2>2
  <2>4. line = [attempts |-> skill.attempts, successes |-> skill.successes, sequence |-> skill.sequence,
                frames |-> digits, complexity |-> skill.complexity]
    BY <1>1, <2>1 DEF Lines
  <2>5. line \in Lines
    BY <1>1, <2>3, <2>4 DEF Lines
  <2>6. digits <= Skills!FramesFor(skill.sequence)
    BY <1>1, <2>2, <2>3
  <2>. QED
    BY <1>1, <2>4, <2>5, <2>6 DEF LineOf
<1>. QED
    BY <1>2, <1>3 DEF Skills!Torn, Skills!Beginnings

\* What a process leaves is what it had saved, or a part of what it was saving.
LEMMA LinesLost ==
    ASSUME SkillInv, NEW lines \in Skills!Lost
    PROVE  DOMAIN lines \subseteq Skills!Names /\ \A n \in DOMAIN lines : LineOf(lines[n]) /\ Within(lines[n], n)
<1>1. \A n \in DOMAIN skills : LineOf(skills[n]) /\ Within(skills[n], n) /\ n \in Skills!Names
    BY LinesOfSkills DEF SkillInv, KnownInv
<1>2. CASE lines = file
    BY <1>2 DEF SkillInv, FileInv
<1>3. ASSUME NEW k \in 0..KSkills, lines = Skills!Upto(skills, k)
      PROVE  DOMAIN lines \subseteq Skills!Names /\ \A n \in DOMAIN lines : LineOf(lines[n]) /\ Within(lines[n], n)
    BY <1>1, <1>3 DEF Skills!Upto
<1>4. ASSUME NEW m \in DOMAIN skills, NEW line \in Skills!Torn(skills[m]),
             lines = [Skills!Upto(skills, m) EXCEPT ![m] = line]
      PROVE  DOMAIN lines \subseteq Skills!Names /\ \A n \in DOMAIN lines : LineOf(lines[n]) /\ Within(lines[n], n)
  <2>1. LineOf(line) /\ Within(line, m)
    BY <1>1, LineTorn DEF Within
  <2>2. /\ DOMAIN lines = DOMAIN skills \cap 1..m /\ m \in DOMAIN lines
        /\ \A n \in DOMAIN lines : lines[n] = IF n = m THEN line ELSE skills[n]
    <3>1. m \in 1..m
        BY <1>1 DEF Skills!Names
    <3>2. m \in DOMAIN Skills!Upto(skills, m) /\ Skills!Upto(skills, m)[m] = skills[m]
        BY <3>1 DEF Skills!Upto
    <3>. QED
        BY <1>4, <3>1, <3>2 DEF Skills!Upto
  <2>. QED
    BY <1>1, <2>1, <2>2
<1>. QED
    BY <1>2, <1>3, <1>4 DEF Skills!Lost

LEMMA SkillsKept ==
    ASSUME SkillInv, [Skills!Next]_(Skills!vars)
    PROVE  SkillInv'
<1>1. ASSUME NEW name \in Skills!Names, NEW s \in FrameSequences, NEW aim \in {{}, {set, 3}},
             Skills!Coordinate(name, s, aim)
      PROVE  SkillInv'
  <2>1. s \in Seq({activate, set})
    BY PersistenceAssumption DEF Skills!LimitAssumption
  <2>2. OneMore(name, 0)
    <3>1. counted' = [counted EXCEPT ![name] = @ + 1] /\ UNCHANGED <<reported, won, restarts>>
        BY <1>1 DEF Skills!Coordinate
    <3>. QED
        BY <3>1 DEF OneMore, SkillInv, CountTypes
  <2>3. Skills!Record(name, s, FALSE) /\ UNCHANGED <<file, restarts>>
    BY <1>1 DEF Skills!Coordinate
  <2>. QED
    BY <2>1, <2>2, <2>3, Recorded
<1>2. ASSUME NEW name \in Skills!Names, NEW action \in {activate, set}, NEW success \in BOOLEAN,
             Skills!ObserveOutcome(name, action, success)
      PROVE  SkillInv'
  <2>1. <<action>> \in Seq({activate, set})
    OBVIOUS
  <2>2. OneMore(name, IF success THEN 1 ELSE 0)
    <3>. DEFINE gain == IF success THEN 1 ELSE 0
    <3>1. /\ reported' = [reported EXCEPT ![name] = @ + 1] /\ won' = [won EXCEPT ![name] = @ + gain]
          /\ UNCHANGED <<counted, restarts>> /\ gain \in Nat
        BY <1>2 DEF Skills!ObserveOutcome
    <3>. HIDE DEF gain
    <3>2. OneMore(name, gain)
        BY <3>1 DEF OneMore, SkillInv, CountTypes
    <3>. QED
        BY <3>2 DEF gain
  <2>3. Skills!Record(name, <<action>>, success) /\ UNCHANGED <<file, restarts>>
    BY <1>2 DEF Skills!ObserveOutcome
  <2>. QED
    BY <2>1, <2>2, <2>3, Recorded
<1>3. CASE Skills!TruncateFile \/ Skills!WriteFile
    BY <1>3, FileSaved DEF Skills!TruncateFile, Skills!WriteFile
<1>4. CASE Skills!Crash
  <2>1. PICK lines \in Skills!Lost : file' = lines /\ skills' = Skills!Load(lines)
    BY <1>4 DEF Skills!Crash
  <2>2. restarts' = restarts + 1 /\ touched' = {} /\ UNCHANGED <<counted, reported, won>>
    BY <1>4 DEF Skills!Crash
  <2>3. DOMAIN lines \subseteq Skills!Names /\ \A n \in DOMAIN lines : LineOf(lines[n]) /\ Within(lines[n], n)
    BY LinesLost
  <2>4. /\ DOMAIN skills' = DOMAIN lines
        /\ \A n \in DOMAIN lines : /\ SkillOf(skills'[n]) /\ skills'[n].attempts = lines[n].attempts
                                   /\ skills'[n].successes = lines[n].successes
    BY <2>1, <2>3, FileLoaded
  <2>5. FileInv'
    BY <2>1, <2>2, <2>3 DEF FileInv, Within
  <2>6. KnownInv'
    BY <2>2, <2>3, <2>4 DEF KnownInv, Within
  <2>7. CountTypes' /\ RepairInv' /\ restarts' # 0
    BY <2>2 DEF SkillInv, CountTypes, RepairInv
  <2>. QED
    BY <2>5, <2>6, <2>7 DEF SkillInv
<1>5. CASE UNCHANGED Skills!vars
    BY <1>5 DEF Skills!vars, SkillInv, CountTypes, FileInv, KnownInv, RepairInv, Within, Exact
<1>. QED
    BY <1>1, <1>2, <1>3, <1>4, <1>5 DEF Skills!Next

LEMMA SkillsBegin ==
    ASSUME Skills!Init
    PROVE  SkillInv
<1>1. file \in SkillFiles /\ skills = Skills!Load(file)
    BY DEF Skills!Init
<1>2. /\ DOMAIN file \subseteq Skills!Names
      /\ \A n \in DOMAIN file : LineOf(file[n]) /\ file[n].successes <= file[n].attempts
    BY <1>1, PersistenceAssumption DEF Skills!StoredAssumption, LineOf, Lines
<1>3. /\ DOMAIN skills = DOMAIN file
      /\ \A n \in DOMAIN file : /\ SkillOf(skills[n]) /\ skills[n].attempts = file[n].attempts
                                /\ skills[n].successes = file[n].successes
    BY <1>1, <1>2, FileLoaded
<1>4. /\ reported = [n \in Skills!Names |-> Skills!Stat(n, "successes")] /\ won = reported
      /\ counted = [n \in Skills!Names |-> Skills!Stat(n, "attempts") - reported[n]]
      /\ touched = {} /\ restarts = 0
    BY DEF Skills!Init
<1>5. ASSUME NEW n \in Skills!Names
      PROVE  /\ reported[n] \in Nat /\ won[n] = reported[n] /\ counted[n] \in Nat /\ Exact(n)
             /\ n \in DOMAIN file => Within(file[n], n) /\ Within(skills[n], n)
  <2>1. CASE n \in DOMAIN file
    <3>1. /\ file[n].attempts \in Nat /\ file[n].successes \in Nat /\ file[n].successes <= file[n].attempts
          /\ skills[n].attempts = file[n].attempts /\ skills[n].successes = file[n].successes
        BY <1>2, <1>3, <2>1 DEF LineOf, Lines
    <3>2. reported[n] = skills[n].successes /\ counted[n] = skills[n].attempts - reported[n] /\ won[n] = reported[n]
        BY <1>3, <1>4, <2>1 DEF Skills!Stat
    <3>3. reported[n] \in Nat /\ counted[n] \in Nat /\ counted[n] + reported[n] = file[n].attempts
        BY <3>1, <3>2
    <3>. QED
        BY <1>3, <2>1, <3>1, <3>2, <3>3 DEF Exact, Within
  <2>2. CASE n \notin DOMAIN file
    BY <1>3, <1>4, <2>2 DEF Skills!Stat, Exact
  <2>. QED
    BY <2>1, <2>2
<1>6. CountTypes
    BY <1>4, <1>5, PersistenceAssumption DEF CountTypes, Skills!LimitAssumption
<1>7. FileInv /\ KnownInv /\ RepairInv
    BY <1>2, <1>3, <1>4, <1>5 DEF FileInv, KnownInv, RepairInv
<1>. QED
    BY <1>5, <1>6, <1>7 DEF SkillInv

LEMMA SkillsSafe ==
    ASSUME SkillInv
    PROVE  Skills!TypeOK /\ Skills!CountsAddUp /\ Skills!RecordsRepair
<1>1. Skills!TypeOK
    BY DEF SkillInv, FileInv, KnownInv, SkillOf, Skills!TypeOK
<1>2. Skills!CountsAddUp
    BY DEF SkillInv, KnownInv, Within, Exact, Skills!CountsAddUp
<1>3. Skills!RecordsRepair
    BY DEF SkillInv, RepairInv, Intact, Skills!RecordsRepair, Skills!ToSet
<1>. QED
    BY <1>1, <1>2, <1>3

\* A skill counts no more than was recorded of it, and all of it in a process that lost nothing; its
\* complexity is that of its sequence. A file that was cut within a line may leave a skill fewer
\* frames and an action of another name, until it is recorded again (SkillMemoryStore::Record, Save
\* and Load).
THEOREM SkillsCounted == Skills!Spec => [](Skills!TypeOK /\ Skills!CountsAddUp /\ Skills!RecordsRepair)
<1>. QED
    BY SkillsBegin, SkillsKept, SkillsSafe, PTL DEF Skills!Spec
-----------------------------------------------------------------------------
\* The agent: tables of biases and adjustments, and what is decided.

AllGoals == {NoWish} \cup DecidedGoals \cup PlannedGoals
ScreenIds == UNION {DOMAIN screen : screen \in AllScreens}
Meanings == {"activate", "select"}                          \* actions of the engine
Decisions ==
    [object : ScreenIds, type : Agent!Types, action : Meanings \cup {""}, label : Nat, priority : 0..100,
     exploratory : BOOLEAN, goalConditioned : BOOLEAN, executable : BOOLEAN]

Outcomes == [object : ScreenIds, type : Agent!Types, action : Meanings, success : BOOLEAN]
ChoiceKeys == [action : Meanings, object : ScreenIds]
Kinds == [type : Agent!Types, action : Meanings]

Biases == UNION {[keys -> 0..90] : keys \in SUBSET ChoiceKeys}
Adjustments == UNION {[kinds -> -30..30] : kinds \in SUBSET Kinds}

\* What is in a table is between the limits.
Between(table, low, high) == \A key \in DOMAIN table : table[key] \in low..high

ChoiceOf(entry) == [action |-> entry.action, object |-> entry.object]

\* No outcome from i + 1 to n is of the same choice.
LastOf(entries, i, n) ==
    \A j \in i + 1..n : entries[j].action # entries[i].action \/ entries[j].object # entries[i].object

\* The last of the first n outcomes of every choice counts in the table.
Counts(table, entries, n) ==
    \A i \in 1..n : LastOf(entries, i, n) =>
        IF entries[i].success THEN Agent!Valued(table, ChoiceOf(entries[i])) <= 82
                              ELSE Agent!Valued(table, ChoiceOf(entries[i])) >= 16

\* An object as the world model describes it.
Described(object) ==
    /\ object.type \in Agent!Types /\ object.salience \in Int
    /\ object.box \in Agent!Boxes /\ object.label \in Nat

WorldOf(objects) ==
    /\ DOMAIN objects \subseteq ScreenIds /\ DOMAIN objects \subseteq Nat \ {0} /\ IsFiniteSet(DOMAIN objects)
    /\ Agent!CursorId \in DOMAIN objects
    /\ objects[Agent!CursorId].type \in {"dynamic_object", "navigation_element"}
    /\ \A id \in DOMAIN objects : Described(objects[id])

Affords(type, action) ==
    \E i \in DOMAIN Agent!AffordancesForType(type) :
        Agent!BestEffortIntentAction(Agent!AffordancesForType(type)[i]) = action

\* A decision that may be executed is permitted and can be done.
Sound(decided, allowed) ==
    /\ decided \in Decisions
    /\ decided.executable =>
          /\ allowed.execute /\ decided.action # "" /\ decided.type # "obstacle"
          /\ Affords(decided.type, decided.action)

\* What contains another object is wider.
Nested(model) ==
    \A r \in model.relationships : r.type = "hierarchy" =>
        /\ r.from \in DOMAIN model.objects /\ r.to \in DOMAIN model.objects
        /\ Agent!Width(model.objects[r.to].box) < Agent!Width(model.objects[r.from].box)

AgentInv ==
    /\ previousCursor \in Agent!Boxes \cup {<<>>}
    /\ IsFiniteSet(DOMAIN world.objects)
    /\ \A id \in DOMAIN world.objects : world.objects[id].box \in Agent!Boxes
    /\ Nested(world)
    /\ failureBias \in Biases /\ adjustments \in Adjustments
    /\ experience \in Seq(Outcomes) /\ Len(experience) <= KRemembered
    /\ Counts(failureBias, experience, Len(experience))
    /\ awaited \subseteq {d \in Decisions : d.executable /\ d.action # ""}
    /\ decision.object # 0 => Sound(decision, safety)

-----------------------------------------------------------------------------
\* Numbers.

\* The constants are as the code could have them.
LEMMA AgentFacts ==
    /\ KRemembered \in Nat \ {0}
    /\ \A screen \in AllScreens :
          /\ IsFiniteSet(DOMAIN screen) /\ DOMAIN screen \subseteq Nat \ {0}
          /\ \A id \in DOMAIN screen : screen[id] \in Agent!Items
          /\ 1 \in DOMAIN screen /\ screen[1].source = "cursor"
    /\ \A wish \in AllGoals : wish.preferred \in Seq(STRING)
    BY BoundsAssumption DEF Agent!AgentAssumption, Agent!CursorId, AllGoals, Agent!IsFiniteSet, IsFiniteSet

\* What is limited is between the limits.
LEMMA LimitedBetween ==
    ASSUME NEW low \in Int, NEW high \in Int, low <= high, NEW value \in Int
    PROVE  Agent!Limited(low, value, high) \in low..high
    BY DEF Agent!Limited

\* There is a least number in every set of them.
LEMMA LeastOf ==
    ASSUME NEW S \in SUBSET Nat, S # {}
    PROVE  Agent!Least(S) \in S /\ \A x \in S : Agent!Least(S) <= x
<1>1. PICK x \in S : \A y \in S : ~ (<<y, x>> \in Below)
    BY BelowFounded, WFMin
<1>2. ASSUME NEW y \in S PROVE x <= y
  <2>1. x \in Nat /\ y \in Nat /\ ~ (<<y, x>> \in Below)
      BY <1>1
  <2>2. ~ (y < x)
      BY <2>1 DEF Below
  <2>. QED
      BY <2>1, <2>2
<1>. QED
    BY <1>2 DEF Agent!Least

\* Of values that are limited, one is the highest.
LEMMA HighestOf ==
    ASSUME NEW D, D # {}, NEW f \in [D -> 0..100]
    PROVE  \E i \in D : \A j \in D : f[j] <= f[i]
<1>. DEFINE s == {f[i] + 1 : i \in D}
<1>1. s \in SUBSET (1..101) /\ s # {}
  <2>1. \A i \in D : f[i] \in 0..100
      OBVIOUS
  <2>. QED
      BY <2>1
<1>2. Max(s) \in s /\ \A x \in s : Max(s) >= x
    BY <1>1, LargestNumber
<1>3. PICK i \in D : Max(s) = f[i] + 1
    BY <1>2
<1>4. ASSUME NEW j \in D PROVE f[j] <= f[i]
  <2>1. f[j] + 1 \in s /\ f[j] \in 0..100 /\ f[i] \in 0..100
      OBVIOUS
  <2>. QED
      BY <1>2, <1>3, <2>1
<1>. QED
    BY <1>4

\* Of finitely many values, one is the highest.
LEMMA WidestOf ==
    ASSUME NEW D, IsFiniteSet(D), NEW f \in [D -> Int], NEW S \in SUBSET D, S # {}
    PROVE  \E i \in S : \A j \in S : f[j] <= f[i]
<1>. DEFINE c == [s \in SUBSET D |-> CHOOSE x \in s : TRUE]
            P == {s \in SUBSET D : s # {} => \E i \in s : \A j \in s : f[j] <= f[i]}
<1>1. \A s \in SUBSET D : s # {} => c[s] \in s
    OBVIOUS
<1>2. {} \in P
    OBVIOUS
<1>3. ASSUME NEW s \in SUBSET D, s # {}, s \ {c[s]} \in P PROVE s \in P
  <2>. DEFINE x == c[s]
  <2>1. x \in s /\ s = (s \ {x}) \cup {x}
      BY <1>1, <1>3
  <2>. HIDE DEF x
  <2>2. CASE s \ {x} = {}
    <3>1. \A j \in s : j = x /\ f[j] \in Int
        BY <2>1, <2>2
    <3>. QED
        BY <2>1, <3>1
  <2>3. CASE s \ {x} # {}
    <3>1. PICK i \in s \ {x} : \A j \in s \ {x} : f[j] <= f[i]
        BY <1>3, <2>3 DEF x
    <3>2. f[i] \in Int /\ f[x] \in Int /\ \A j \in s : f[j] \in Int
        BY <2>1
    <3>3. CASE f[x] <= f[i]
        BY <3>1, <3>3
    <3>4. CASE f[i] <= f[x]
        BY <2>1, <3>1, <3>2, <3>4
    <3>. QED
        BY <3>2, <3>3, <3>4
  <2>. QED
      BY <2>2, <2>3
<1>4. SUBSET D \subseteq P
  <2>. HIDE DEF P, c
  <2>. QED
      BY <1>1, <1>2, <1>3, SubsetInduction
<1>. QED
    BY <1>4
-----------------------------------------------------------------------------
\* Tables.

\* What is read in a table of biases or of adjustments is in its range.
LEMMA ValuedBetween ==
    ASSUME NEW low \in Int, NEW high \in Int, low <= 0, 0 <= high, NEW table, Between(table, low, high), NEW key
    PROVE  Agent!Valued(table, key) \in low..high
    BY DEF Agent!Valued, Between

\* The tables of the agent are between their limits.
LEMMA TableBetween ==
    /\ \A table \in Biases : Between(table, 0, 90)
    /\ \A table \in Adjustments : Between(table, -30, 30)
    BY DEF Biases, Adjustments, Between

\* A table with a new or another value.
LEMMA WithTyped ==
    ASSUME NEW K, NEW V, NEW table \in UNION {[keys -> V] : keys \in SUBSET K}, NEW key \in K, NEW value \in V
    PROVE  Agent!With(table, key, value) \in UNION {[keys -> V] : keys \in SUBSET K}
<1>1. PICK keys \in SUBSET K : table \in [keys -> V]
    OBVIOUS
<1>2. Agent!With(table, key, value) \in [keys \cup {key} -> V]
    BY <1>1 DEF Agent!With
<1>3. keys \cup {key} \in SUBSET K
    BY <1>1
<1>. QED
    BY <1>2, <1>3

\* It is read for its key, and for the others nothing changes.
LEMMA WithRead ==
    ASSUME NEW table, NEW key, NEW value
    PROVE  /\ Agent!Valued(Agent!With(table, key, value), key) = value
           /\ \A other : other # key =>
                  Agent!Valued(Agent!With(table, key, value), other) = Agent!Valued(table, other)
    BY DEF Agent!Valued, Agent!With

\* No bias is recorded in the empty table.
LEMMA NoBias == <<>> \in Biases /\ <<>> \in Adjustments
<1>1. <<>> \in [{} -> 0..90] /\ <<>> \in [{} -> -30..30]
    OBVIOUS
<1>2. {} \in SUBSET ChoiceKeys /\ {} \in SUBSET Kinds
    OBVIOUS
<1>. QED
    BY <1>1, <1>2 DEF Biases, Adjustments

\* After a success a bias is not at its limit, and after a failure it is one.
LEMMA BiasCounts ==
    ASSUME NEW bias \in 0..90, NEW success \in BOOLEAN, NEW up \in 16..90, NEW down \in 8..90
    PROVE  /\ Agent!BiasAfter(bias, success, up, down) \in 0..90
           /\ IF success THEN Agent!BiasAfter(bias, success, up, down) <= 82
                         ELSE Agent!BiasAfter(bias, success, up, down) >= 16
    BY DEF Agent!BiasAfter, Agent!Limited

\* An outcome leaves an adjustment between its limits.
LEMMA AdjustmentLimited ==
    ASSUME NEW a \in -30..30, NEW success \in BOOLEAN, NEW up \in 0..30, NEW down \in 0..30
    PROVE  Agent!AdjustmentAfter(a, success, up, down) \in -30..30
    BY DEF Agent!AdjustmentAfter, Agent!Limited

\* The keys of an outcome.
LEMMA OutcomeKeys ==
    ASSUME NEW entry \in Outcomes
    PROVE  /\ ChoiceOf(entry) \in ChoiceKeys /\ entry.success \in BOOLEAN
           /\ [type |-> entry.type, action |-> entry.action] \in Kinds
    BY DEF Outcomes, ChoiceOf, ChoiceKeys, Kinds

\* A bias that is recorded keeps the table one of biases.
LEMMA BiasWritten ==
    ASSUME NEW table \in Biases, NEW key \in ChoiceKeys, NEW success \in BOOLEAN, NEW up \in 16..90, NEW down \in 8..90
    PROVE  /\ Agent!Valued(table, key) \in 0..90
           /\ Agent!With(table, key, Agent!BiasAfter(Agent!Valued(table, key), success, up, down)) \in Biases
<1>. DEFINE V == 0..90
            value == Agent!BiasAfter(Agent!Valued(table, key), success, up, down)
<1>1. table \in UNION {[keys -> V] : keys \in SUBSET ChoiceKeys} /\ 0 \in Int /\ 90 \in Int /\ 0 <= 0 /\ 0 <= 90
    BY DEF Biases
<1>2. Agent!Valued(table, key) \in 0..90
    BY <1>1, TableBetween, ValuedBetween, SMTT(30)
<1>3. value \in V
    BY <1>2, BiasCounts, Zenon
<1>. HIDE DEF V, value
<1>4. Agent!With(table, key, value) \in UNION {[keys -> V] : keys \in SUBSET ChoiceKeys}
    BY <1>1, <1>3, WithTyped, Zenon
<1>. QED
    BY <1>2, <1>4 DEF Biases, V, value

\* Recording the outcome after n others keeps the table and what counts in it.
LEMMA BiasRecorded ==
    ASSUME NEW table \in Biases, NEW entries \in Seq(Outcomes), NEW n \in Nat, n + 1 <= Len(entries),
           Counts(table, entries, n), NEW up \in 16..90, NEW down \in 8..90
    PROVE  LET entry == entries[n + 1]
               after == Agent!With(table, ChoiceOf(entry),
                                   Agent!BiasAfter(Agent!Valued(table, ChoiceOf(entry)), entry.success, up, down))
           IN  after \in Biases /\ Counts(after, entries, n + 1)
<1>. DEFINE entry == entries[n + 1]
            key == ChoiceOf(entry)
            value == Agent!BiasAfter(Agent!Valued(table, key), entry.success, up, down)
            after == Agent!With(table, key, value)
<1>1. Len(entries) \in Nat /\ entry \in Outcomes
    OBVIOUS
<1>2. key \in ChoiceKeys /\ entry.success \in BOOLEAN
    BY <1>1, OutcomeKeys, Zenon
<1>3. Agent!Valued(table, key) \in 0..90 /\ after \in Biases
  <2>. HIDE DEF key, entry
  <2>. QED
      BY <1>2, BiasWritten, ZenonT(30)
<1>4. IF entry.success THEN value <= 82 ELSE value >= 16
  <2>. HIDE DEF key, entry
  <2>. QED
      BY <1>2, <1>3, BiasCounts, Zenon
<1>5. /\ Agent!Valued(after, key) = value
      /\ \A other : other # key => Agent!Valued(after, other) = Agent!Valued(table, other)
    BY WithRead
<1>. HIDE DEF after, value
<1>6. ASSUME NEW i \in 1..n + 1, LastOf(entries, i, n + 1)
      PROVE  IF entries[i].success THEN Agent!Valued(after, ChoiceOf(entries[i])) <= 82
                                   ELSE Agent!Valued(after, ChoiceOf(entries[i])) >= 16
  <2>1. CASE i = n + 1
      BY <1>4, <1>5, <2>1
  <2>2. CASE i # n + 1
    <3>1. i \in 1..n /\ n + 1 \in i + 1..n + 1 /\ \A j \in i + 1..n : j \in i + 1..n + 1
        BY <2>2
    <3>2. LastOf(entries, i, n)
        BY <1>6, <3>1 DEF LastOf
    <3>3. entry.action # entries[i].action \/ entry.object # entries[i].object
        BY <1>6, <3>1 DEF LastOf
    <3>4. ChoiceOf(entries[i]) # key
        BY <3>3 DEF ChoiceOf
    <3>5. Agent!Valued(after, ChoiceOf(entries[i])) = Agent!Valued(table, ChoiceOf(entries[i]))
        BY <1>5, <3>4
    <3>. QED
        BY <3>1, <3>2, <3>5 DEF Counts
  <2>. QED
      BY <2>1, <2>2
<1>7. Counts(after, entries, n + 1)
    BY <1>6 DEF Counts
<1>. QED
    BY <1>3, <1>7 DEF after, value
-----------------------------------------------------------------------------
\* Replaying: what is folded over the outcomes, on each beginning of them.

\* The replayed biases are a table in which the last outcomes count.
LEMMA BiasReplayed ==
    ASSUME NEW entries \in Seq(Outcomes)
    PROVE  /\ Agent!RestoredBias(entries) \in Biases
           /\ Counts(Agent!RestoredBias(entries), entries, Len(entries))
<1>. DEFINE D == DOMAIN entries
            c == [s \in SUBSET D |-> Max(s)]
            h == [i \in D |-> [v \in Biases |-> Agent!ReplayBias(v, entries[i])]]
            Folded(g) == g = [s \in SUBSET D |->
                                IF s = {} THEN <<>> ELSE Agent!ReplayBias(g[s \ {Max(s)}], entries[Max(s)])]
            iter == CHOOSE g : Folded(g)
            b == <<>>
<1>1. Len(entries) \in Nat /\ D = 1..Len(entries) /\ \A i \in D : entries[i] \in Outcomes
    OBVIOUS
<1>2. IsFiniteSet(D)
    BY <1>1, FS_Interval
<1>3. \A s \in SUBSET D : c[s] = Max(s) /\ (s # {} => c[s] \in s)
    BY <1>1, LargestNumber
<1>4. ASSUME NEW table \in Biases, NEW n \in Nat, n + 1 <= Len(entries)
      PROVE  /\ Agent!ReplayBias(table, entries[n + 1]) \in Biases
             /\ Counts(table, entries, n) => Counts(Agent!ReplayBias(table, entries[n + 1]), entries, n + 1)
  <2>. DEFINE entry == entries[n + 1]
              key == ChoiceOf(entry)
              value == Agent!BiasAfter(Agent!Valued(table, key), entry.success, 16, 8)
  <2>1. Agent!ReplayBias(table, entry) = Agent!With(table, key, value)
      BY DEF Agent!ReplayBias, ChoiceOf
  <2>2. 16 \in 16..90 /\ 8 \in 8..90 /\ n + 1 \in D
      BY <1>1, <1>4, SMTT(30)
  <2>3. Agent!With(table, key, value) \in Biases
    <3>1. entry \in Outcomes
        BY <1>1, <2>2
    <3>2. key \in ChoiceKeys /\ entry.success \in BOOLEAN
        BY <3>1, OutcomeKeys, Zenon
    <3>. HIDE DEF key, entry
    <3>. QED
        BY <2>2, <3>2, BiasWritten, Zenon
  <2>4. Counts(table, entries, n) => Counts(Agent!With(table, key, value), entries, n + 1)
      BY <1>4, <2>2, BiasRecorded, Zenon
  <2>. QED
      BY <2>1, <2>3, <2>4
<1>5. h \in [D -> [Biases -> Biases]]
  <2>1. ASSUME NEW i \in D, NEW v \in Biases PROVE Agent!ReplayBias(v, entries[i]) \in Biases
    <3>1. i - 1 \in Nat /\ (i - 1) + 1 = i /\ (i - 1) + 1 <= Len(entries)
        BY <1>1
    <3>. QED
        BY <1>4, <3>1
  <2>. QED
      BY <2>1
<1>6. Agent!RestoredBias(entries) = iter[D]
    BY DEF Agent!RestoredBias, Agent!FoldLeft, Agent!MapThenFoldSet, Agent!Max, Max
<1>. HIDE DEF D, c, h, b
<1>7. PICK f : Unfolds(f, D, Biases, b, h, c)
  <2>1. b \in Biases
      BY NoBias DEF b
  <2>. QED
      BY <1>2, <1>3, <1>5, <2>1, SubsetRecursion, Zenon
<1>8. Folded(f)
  <2>1. ASSUME NEW s \in SUBSET D, s # {} PROVE f[s] = Agent!ReplayBias(f[s \ {Max(s)}], entries[Max(s)])
    <3>1. Max(s) \in D /\ f[s \ {Max(s)}] \in Biases /\ f[s] = h[Max(s)][f[s \ {Max(s)}]]
        BY <1>3, <1>7, <2>1 DEF Unfolds
    <3>. QED
        BY <3>1 DEF h
  <2>2. f = [s \in SUBSET D |-> f[s]] /\ f[{}] = <<>>
      BY <1>7 DEF Unfolds, b
  <2>. QED
      BY <2>1, <2>2
<1>9. Folded(iter)
  <2>. HIDE DEF Folded
  <2>. QED
      BY <1>8
<1>. DEFINE S == {n \in Nat : n <= Len(entries) => iter[1..n] \in Biases /\ Counts(iter[1..n], entries, n)}
<1>10. 0 \in S
  <2>1. 1..0 = {} /\ {} \in SUBSET D
      OBVIOUS
  <2>2. iter[1..0] = <<>>
      BY <1>9, <2>1
  <2>3. Counts(<<>>, entries, 0)
      BY DEF Counts
  <2>. QED
      BY <2>2, <2>3, NoBias
<1>11. ASSUME NEW n \in Nat, n \in S PROVE n + 1 \in S
  <2>. SUFFICES ASSUME n + 1 <= Len(entries)
                PROVE  iter[1..n + 1] \in Biases /\ Counts(iter[1..n + 1], entries, n + 1)
      OBVIOUS
  <2>1. 1..n + 1 \in SUBSET D /\ 1..n + 1 # {} /\ n <= Len(entries)
    <3>1. \A x \in 1..n + 1 : x \in 1..Len(entries)
        BY <1>1
    <3>2. n + 1 \in 1..n + 1 /\ n <= Len(entries)
        BY <1>1
    <3>. QED
        BY <1>1, <3>1, <3>2
  <2>2. Max(1..n + 1) = n + 1
      BY LargestOfFirst
  <2>3. (1..n + 1) \ {n + 1} = 1..n
      OBVIOUS
  <2>4. iter[1..n + 1] = Agent!ReplayBias(iter[1..n], entries[n + 1])
    <3>1. iter[1..n + 1] = Agent!ReplayBias(iter[(1..n + 1) \ {Max(1..n + 1)}], entries[Max(1..n + 1)])
      <4>. DEFINE s == 1..n + 1
      <4>1. s \in SUBSET D /\ s # {}
          BY <2>1
      <4>. HIDE DEF s
      <4>2. iter[s] = Agent!ReplayBias(iter[s \ {Max(s)}], entries[Max(s)])
          BY <1>9, <4>1
      <4>. QED
          BY <4>2 DEF s
    <3>. QED
        BY <2>2, <2>3, <3>1
  <2>5. iter[1..n] \in Biases /\ Counts(iter[1..n], entries, n)
      BY <1>11, <2>1
  <2>. HIDE DEF iter
  <2>. QED
      BY <1>4, <2>4, <2>5
<1>12. Len(entries) \in S
  <2>. HIDE DEF S
  <2>. QED
      BY <1>1, <1>10, <1>11, SetInduction
<1>. QED
    BY <1>1, <1>6, <1>12
\* The replayed adjustments are a table of them.
LEMMA AdjustmentWritten ==
    ASSUME NEW table \in Adjustments, NEW kind \in Kinds, NEW success \in BOOLEAN, NEW up \in 0..30, NEW down \in 0..30
    PROVE  Agent!With(table, kind, Agent!AdjustmentAfter(Agent!Valued(table, kind), success, up, down)) \in Adjustments
<1>. DEFINE V == -30..30
            value == Agent!AdjustmentAfter(Agent!Valued(table, kind), success, up, down)
<1>1. /\ table \in UNION {[kinds -> -30..30] : kinds \in SUBSET Kinds}
      /\ -30 \in Int /\ 30 \in Int /\ -30 <= 0 /\ 0 <= 30
    BY DEF Adjustments
<1>2. Agent!Valued(table, kind) \in -30..30
    BY <1>1, TableBetween, ValuedBetween, SMTT(30)
<1>3. value \in V
    BY <1>2, AdjustmentLimited, Zenon
<1>4. table \in UNION {[kinds -> V] : kinds \in SUBSET Kinds}
    BY <1>1
<1>. HIDE DEF V, value
<1>5. Agent!With(table, kind, value) \in UNION {[kinds -> V] : kinds \in SUBSET Kinds}
    BY <1>3, <1>4, WithTyped, Zenon
<1>. QED
    BY <1>5 DEF Adjustments, V, value

\* However many outcomes are replayed, the adjustments are between their limits.
LEMMA AdjustmentsReplayed ==
    ASSUME NEW entries \in Seq(Outcomes)
    PROVE  Agent!RestoredAdjustments(entries) \in Adjustments
<1>. DEFINE D == DOMAIN entries
            c == [s \in SUBSET D |-> Max(s)]
            h == [i \in D |-> [v \in Adjustments |-> Agent!ReplayAdjustment(v, entries[i])]]
            Folded(g) == g = [s \in SUBSET D |->
                                IF s = {} THEN <<>> ELSE Agent!ReplayAdjustment(g[s \ {Max(s)}], entries[Max(s)])]
            iter == CHOOSE g : Folded(g)
            b == <<>>
<1>1. Len(entries) \in Nat /\ D = 1..Len(entries) /\ \A i \in D : entries[i] \in Outcomes
    OBVIOUS
<1>2. IsFiniteSet(D)
    BY <1>1, FS_Interval
<1>3. \A s \in SUBSET D : c[s] = Max(s) /\ (s # {} => c[s] \in s)
    BY <1>1, LargestNumber
<1>4. ASSUME NEW i \in D, NEW table \in Adjustments
      PROVE  Agent!ReplayAdjustment(table, entries[i]) \in Adjustments
  <2>. DEFINE entry == entries[i]
              kind == [type |-> entry.type, action |-> entry.action]
  <2>1. Agent!ReplayAdjustment(table, entry)
            = Agent!With(table, kind, Agent!AdjustmentAfter(Agent!Valued(table, kind), entry.success, 1, 2))
      BY DEF Agent!ReplayAdjustment
  <2>2. kind \in Kinds /\ entry.success \in BOOLEAN /\ 1 \in 0..30 /\ 2 \in 0..30
      BY <1>1, OutcomeKeys
  <2>. HIDE DEF entry, kind
  <2>3. Agent!ReplayAdjustment(table, entry) \in Adjustments
      BY <2>1, <2>2, AdjustmentWritten
  <2>. QED
      BY <2>3 DEF entry
<1>5. h \in [D -> [Adjustments -> Adjustments]]
    BY <1>4
<1>6. Agent!RestoredAdjustments(entries) = iter[D]
    BY DEF Agent!RestoredAdjustments, Agent!FoldLeft, Agent!MapThenFoldSet, Agent!Max, Max
<1>. HIDE DEF D, c, h, b
<1>7. PICK f : Unfolds(f, D, Adjustments, b, h, c)
  <2>1. b \in Adjustments
      BY NoBias DEF b
  <2>. QED
      BY <1>2, <1>3, <1>5, <2>1, SubsetRecursion, Zenon
<1>8. Folded(f)
  <2>1. ASSUME NEW s \in SUBSET D, s # {} PROVE f[s] = Agent!ReplayAdjustment(f[s \ {Max(s)}], entries[Max(s)])
    <3>1. Max(s) \in D /\ f[s \ {Max(s)}] \in Adjustments /\ f[s] = h[Max(s)][f[s \ {Max(s)}]]
        BY <1>3, <1>7, <2>1 DEF Unfolds
    <3>. QED
        BY <3>1 DEF h
  <2>2. f = [s \in SUBSET D |-> f[s]] /\ f[{}] = <<>>
      BY <1>7 DEF Unfolds, b
  <2>. QED
      BY <2>1, <2>2
<1>9. Folded(iter)
  <2>. HIDE DEF Folded
  <2>. QED
      BY <1>8
<1>. DEFINE P == {s \in SUBSET D : iter[s] \in Adjustments}
<1>10. {} \in P
    BY <1>9, NoBias
<1>11. ASSUME NEW s \in SUBSET D, s # {}, s \ {c[s]} \in P PROVE s \in P
  <2>1. iter[s \ {Max(s)}] \in Adjustments /\ Max(s) \in D
      BY <1>3, <1>11
  <2>2. iter[s] = Agent!ReplayAdjustment(iter[s \ {Max(s)}], entries[Max(s)])
      BY <1>9, <1>11
  <2>. QED
      BY <1>4, <2>1, <2>2
<1>12. SUBSET D \subseteq P
  <2>. HIDE DEF P
  <2>. QED
      BY <1>2, <1>3, <1>10, <1>11, SubsetInduction
<1>. QED
    BY <1>6, <1>12

-----------------------------------------------------------------------------
\* What an object affords.

\* One or two actions, of which an obstacle affords none of the engine's.
LEMMA AffordanceFacts ==
    ASSUME NEW type \in Agent!Types
    PROVE  /\ DOMAIN Agent!AffordancesForType(type) \in {{1}, {1, 2}}
           /\ \A i \in DOMAIN Agent!AffordancesForType(type) :
                 /\ Agent!BestEffortIntentAction(Agent!AffordancesForType(type)[i]) \in Meanings \cup {""}
                 /\ type = "obstacle" => Agent!BestEffortIntentAction(Agent!AffordancesForType(type)[i]) = ""
           /\ type \in {"dynamic_object", "navigation_element"} => Affords(type, "activate")
<1>1. CASE type = "interactive_object"
    BY <1>1 DEF Agent!AffordancesForType, Agent!BestEffortIntentAction, Meanings
<1>2. CASE type = "control_surface"
    BY <1>2 DEF Agent!AffordancesForType, Agent!BestEffortIntentAction, Meanings
<1>3. CASE type = "dynamic_object"
    BY <1>3 DEF Agent!AffordancesForType, Agent!BestEffortIntentAction, Meanings, Affords
<1>4. CASE type = "text_region"
    BY <1>4 DEF Agent!AffordancesForType, Agent!BestEffortIntentAction, Meanings
<1>5. CASE type = "target"
    BY <1>5 DEF Agent!AffordancesForType, Agent!BestEffortIntentAction, Meanings
<1>6. CASE type = "navigation_element"
    BY <1>6 DEF Agent!AffordancesForType, Agent!BestEffortIntentAction, Meanings, Affords
<1>7. CASE type = "resource"
    BY <1>7 DEF Agent!AffordancesForType, Agent!BestEffortIntentAction, Meanings
<1>8. CASE type = "obstacle"
    BY <1>8 DEF Agent!AffordancesForType, Agent!BestEffortIntentAction, Meanings
<1>. QED
    BY <1>1, <1>2, <1>3, <1>4, <1>5, <1>6, <1>7, <1>8 DEF Agent!Types

\* The confidence in an object is a percentage, however it was adjusted.
LEMMA ConfidenceLimited ==
    ASSUME NEW object, Described(object), Between(adjustments, -30, 30)
    PROVE  Agent!Confidence(object) \in 0..100
<1>. DEFINE actions == Agent!AffordancesForType(object.type)
            Adjusted(v, action) ==
                Agent!Limited(0, v + Agent!Valued(adjustments, [type |-> object.type, action |-> action]), 100)
            b == Agent!Limited(0, (object.salience * 8) \div 10 + 20, 100)
            D == DOMAIN actions
            V == 0..100
            c == [s \in SUBSET D |-> Max(s)]
            h == [i \in D |-> [v \in V |-> Adjusted(v, actions[i])]]
            Folded(g) == g = [s \in SUBSET D |-> IF s = {} THEN b ELSE Adjusted(g[s \ {Max(s)}], actions[Max(s)])]
            iter == CHOOSE g : Folded(g)
<1>1. D \in SUBSET (1..2)
  <2>1. object.type \in Agent!Types
      BY DEF Described
  <2>2. D \in {{1}, {1, 2}}
      BY <2>1, AffordanceFacts
  <2>. HIDE DEF D
  <2>. QED
      BY <2>2
<1>2. IsFiniteSet(D)
  <2>1. IsFiniteSet(1..2)
    <3>1. 1 \in Int /\ 2 \in Int
        OBVIOUS
    <3>. QED
        BY <3>1, FS_Interval, Zenon
  <2>. HIDE DEF D
  <2>. QED
      BY <1>1, <2>1, FS_Subset
<1>3. \A s \in SUBSET D : c[s] = Max(s) /\ (s # {} => c[s] \in s)
  <2>1. 2 \in Nat
      OBVIOUS
  <2>. HIDE DEF D
  <2>. QED
      BY <1>1, <2>1, LargestNumber
<1>4. b \in V
  <2>. DEFINE x == (object.salience * 8) \div 10 + 20
  <2>1. x \in Int /\ 0 \in Int /\ 100 \in Int /\ 0 <= 100
      BY DEF Described
  <2>. HIDE DEF x
  <2>2. Agent!Limited(0, x, 100) \in 0..100
      BY <2>1, LimitedBetween
  <2>. QED
      BY <2>2 DEF x
<1>5. ASSUME NEW v \in V, NEW action PROVE Adjusted(v, action) \in V
  <2>1. Agent!Valued(adjustments, [type |-> object.type, action |-> action]) \in -30..30
    <3>1. -30 \in Int /\ 30 \in Int /\ -30 <= 0 /\ 0 <= 30
        OBVIOUS
    <3>. QED
        BY <3>1, ValuedBetween
  <2>. DEFINE x == v + Agent!Valued(adjustments, [type |-> object.type, action |-> action])
  <2>2. x \in Int /\ 0 \in Int /\ 100 \in Int /\ 0 <= 100
      BY <2>1
  <2>. HIDE DEF x
  <2>3. Agent!Limited(0, x, 100) \in 0..100
      BY <2>2, LimitedBetween, Zenon
  <2>. QED
      BY <2>3 DEF x
<1>6. h \in [D -> [V -> V]]
    BY <1>5, Zenon
<1>7. Agent!Confidence(object) = iter[D]
    BY DEF Agent!Confidence, Agent!FoldLeft, Agent!MapThenFoldSet, Agent!Max, Max
<1>. HIDE DEF actions, Adjusted, b, D, V, c, h
<1>8. PICK f : Unfolds(f, D, V, b, h, c)
    BY <1>2, <1>3, <1>4, <1>6, SubsetRecursion, Zenon
<1>9. Folded(f)
  <2>1. ASSUME NEW s \in SUBSET D, s # {} PROVE f[s] = Adjusted(f[s \ {Max(s)}], actions[Max(s)])
    <3>1. Max(s) \in D /\ f[s \ {Max(s)}] \in V /\ f[s] = h[Max(s)][f[s \ {Max(s)}]]
        BY <1>3, <1>8, <2>1 DEF Unfolds
    <3>. QED
        BY <3>1 DEF h
  <2>2. f = [s \in SUBSET D |-> f[s]] /\ f[{}] = b
      BY <1>8 DEF Unfolds
  <2>. QED
      BY <2>1, <2>2
<1>10. Folded(iter)
  <2>. HIDE DEF Folded
  <2>. QED
      BY <1>9
<1>. DEFINE P == {s \in SUBSET D : iter[s] \in V}
<1>11. {} \in P
    BY <1>4, <1>10
<1>12. ASSUME NEW s \in SUBSET D, s # {}, s \ {c[s]} \in P PROVE s \in P
  <2>1. iter[s \ {Max(s)}] \in V
      BY <1>3, <1>12
  <2>2. iter[s] = Adjusted(iter[s \ {Max(s)}], actions[Max(s)])
      BY <1>10, <1>12
  <2>. QED
      BY <1>5, <2>1, <2>2
<1>13. SUBSET D \subseteq P
  <2>. HIDE DEF P
  <2>. QED
      BY <1>2, <1>3, <1>11, <1>12, SubsetInduction
<1>. QED
    BY <1>7, <1>13 DEF V
-----------------------------------------------------------------------------
\* What is selected, decided and explored.

\* A selected action is one of the affordances, or it is to avoid.
LEMMA SelectedOf ==
    ASSUME NEW wish \in AllGoals, NEW object, object.type \in Agent!Types
    PROVE  LET selected == Agent!SelectedAction(object, wish)
           IN  \/ selected = "avoid"
               \/ \E i \in DOMAIN Agent!AffordancesForType(object.type) :
                      selected = Agent!AffordancesForType(object.type)[i]
<1>. DEFINE actions == Agent!AffordancesForType(object.type)
            FitsTo(p) == {i \in DOMAIN actions :
                            Agent!NormalizeActionToken(actions[i]) = Agent!NormalizeActionToken(wish.preferred[p])}
            possible == {p \in DOMAIN wish.preferred : FitsTo(p) # {}}
            preferred == Agent!SelectGoalPreferredAction(wish, actions)
<1>1. DOMAIN actions \in {{1}, {1, 2}}
    BY AffordanceFacts
<1>2. DOMAIN wish.preferred \in SUBSET Nat
  <2>. DEFINE T == STRING
  <2>1. wish.preferred \in Seq(T)
      BY AgentFacts
  <2>. HIDE DEF T
  <2>. QED
      BY <2>1
<1>3. preferred = "" \/ \E i \in DOMAIN actions : preferred = actions[i]
  <2>1. CASE possible = {}
      BY <2>1 DEF Agent!SelectGoalPreferredAction
  <2>2. CASE possible # {}
    <3>. DEFINE p == CHOOSE q \in possible : \A r \in possible : q <= r
                i == CHOOSE k \in FitsTo(p) : \A j \in FitsTo(p) : k <= j
    <3>1. p \in possible
      <4>1. possible \in SUBSET Nat
          BY <1>2
      <4>2. p = Agent!Least(possible)
          BY DEF Agent!Least
      <4>. HIDE DEF p, possible
      <4>. QED
          BY <2>2, <4>1, <4>2, LeastOf
    <3>2. FitsTo(p) # {} /\ FitsTo(p) \in SUBSET DOMAIN actions
        BY <3>1
    <3>3. i \in FitsTo(p)
      <4>1. FitsTo(p) \in SUBSET Nat
          BY <1>1, <3>2
      <4>2. i = Agent!Least(FitsTo(p))
          BY DEF Agent!Least
      <4>. HIDE DEF i, FitsTo, p
      <4>. QED
          BY <3>2, <4>1, <4>2, LeastOf
    <3>4. preferred = actions[i]
        BY <2>2 DEF Agent!SelectGoalPreferredAction
    <3>. HIDE DEF i, p, FitsTo, preferred
    <3>. QED
        BY <3>2, <3>3, <3>4
  <2>. QED
      BY <2>1, <2>2
<1>4. 1 \in DOMAIN actions
    BY <1>1
<1>. HIDE DEF preferred
<1>5. \/ Agent!SelectedAction(object, wish) = preferred /\ preferred # ""
      \/ Agent!SelectedAction(object, wish) = "avoid"
      \/ Agent!SelectedAction(object, wish) = actions[1]
    BY DEF Agent!SelectedAction, preferred
<1>. HIDE DEF actions
<1>6. \/ Agent!SelectedAction(object, wish) = "avoid"
      \/ \E i \in DOMAIN actions : Agent!SelectedAction(object, wish) = actions[i]
    BY <1>3, <1>4, <1>5
<1>. QED
    BY <1>6 DEF actions

\* Its priority is a percentage.
LEMMA PriorityLimited ==
    ASSUME NEW wish, NEW object, NEW id, Between(failureBias, 0, 90)
    PROVE  Agent!Priority(id, object, wish) \in 0..100
<1>. DEFINE raised == Agent!BasePriority(object) + (IF Agent!GoalMatchesObject(wish, object) THEN 18 ELSE 0)
            base == Agent!Limited(0, raised, 100)
            key == [action |-> Agent!SelectedAction(object, wish), object |-> id]
            bias == Agent!Valued(failureBias, key)
<1>1. raised \in Int
    BY DEF Agent!BasePriority
<1>2. base \in 0..100
  <2>. HIDE DEF raised
  <2>. QED
      BY <1>1 DEF Agent!Limited
<1>3. bias \in 0..90
  <2>1. 0 \in Int /\ 90 \in Int /\ 0 <= 0 /\ 0 <= 90
      OBVIOUS
  <2>. HIDE DEF key
  <2>. QED
      BY <2>1, ValuedBetween
<1>4. Agent!Priority(id, object, wish) = Agent!Limited(0, base - bias, 100)
    BY DEF Agent!Priority
<1>. HIDE DEF base, bias
<1>. QED
    BY <1>2, <1>3, <1>4 DEF Agent!Limited

\* What an outcome is recorded for has a label.
LEMMA LabelOf ==
    ASSUME NEW id \in Nat, NEW object, object.label \in Nat
    PROVE  Agent!TargetLabel(id, object) \in Nat
    BY DEF Agent!TargetLabel

\* What Decide returns is sound.
LEMMA DecideSound ==
    ASSUME NEW objects, WorldOf(objects), NEW wish \in AllGoals, Between(failureBias, 0, 90),
           NEW allowed, allowed.execute \in BOOLEAN
    PROVE  Sound(Agent!Decide(objects, allowed, wish), allowed)
<1>. DEFINE decided == Agent!Decide(objects, allowed, wish)
            PriorityOf(id) == Agent!Priority(id, objects[id], wish)
            highest == {i \in DOMAIN objects : \A j \in DOMAIN objects : PriorityOf(j) <= PriorityOf(i)}
            best == Agent!Least(highest)
            selected == Agent!SelectedAction(objects[best], wish)
            fallback == Agent!Least(DOMAIN objects)
<1>1. /\ DOMAIN objects \in SUBSET Nat /\ DOMAIN objects \subseteq ScreenIds /\ DOMAIN objects # {}
      /\ \A id \in DOMAIN objects : objects[id].type \in Agent!Types /\ objects[id].label \in Nat
    BY DEF WorldOf, Described
<1>2. \A id \in DOMAIN objects : PriorityOf(id) \in 0..100
    BY PriorityLimited
<1>3. best \in DOMAIN objects
  <2>. DEFINE f == [id \in DOMAIN objects |-> PriorityOf(id)]
              D == DOMAIN objects
  <2>1. f \in [D -> 0..100] /\ D # {}
      BY <1>1, <1>2
  <2>2. \A id \in D : f[id] = PriorityOf(id)
      OBVIOUS
  <2>. HIDE DEF f, D, PriorityOf
  <2>3. PICK i \in D : \A j \in D : f[j] <= f[i]
      BY <2>1, HighestOf
  <2>4. i \in highest
      BY <2>2, <2>3 DEF D
  <2>5. highest \in SUBSET Nat /\ highest # {}
      BY <1>1, <2>4
  <2>6. best \in highest
    <3>. HIDE DEF highest
    <3>. QED
        BY <2>5, LeastOf
  <2>. QED
      BY <2>6
<1>4. fallback \in DOMAIN objects /\ fallback = 1
  <2>1. 1 \in DOMAIN objects /\ DOMAIN objects \subseteq Nat \ {0}
      BY DEF WorldOf, Agent!CursorId
  <2>2. fallback \in DOMAIN objects /\ fallback <= 1
      BY <1>1, <2>1, LeastOf
  <2>. HIDE DEF fallback
  <2>. QED
      BY <2>1, <2>2
<1>5. CASE PriorityOf(best) > 0
  <2>. DEFINE type == objects[best].type
              action == Agent!BestEffortIntentAction(selected)
              label == Agent!TargetLabel(best, objects[best])
              matches == Agent!GoalMatchesObject(wish, objects[best])
              executable == /\ allowed.execute /\ action # "" /\ type # "obstacle"
  <2>1. decided = [object |-> best, type |-> type, action |-> action, label |-> label,
                   priority |-> PriorityOf(best), exploratory |-> FALSE, goalConditioned |-> matches,
                   executable |-> executable]
      BY <1>5 DEF Agent!Decide
  <2>2. best \in ScreenIds /\ type \in Agent!Types /\ label \in Nat /\ PriorityOf(best) \in 0..100
    <3>1. best \in Nat /\ objects[best].label \in Nat
        BY <1>1, <1>3
    <3>2. label \in Nat
      <4>. HIDE DEF best
      <4>. QED
          BY <3>1, LabelOf
    <3>. QED
        BY <1>1, <1>2, <1>3, <3>2
  <2>3. action \in Meanings \cup {""} /\ (action # "" => Affords(type, action))
    <3>1. \/ selected = "avoid"
          \/ \E i \in DOMAIN Agent!AffordancesForType(type) : selected = Agent!AffordancesForType(type)[i]
      <4>. HIDE DEF best
      <4>. QED
          BY <2>2, SelectedOf
    <3>2. CASE selected = "avoid"
        BY <3>2, SMTT(20) DEF Agent!BestEffortIntentAction
    <3>3. CASE \E i \in DOMAIN Agent!AffordancesForType(type) : selected = Agent!AffordancesForType(type)[i]
      <4>. HIDE DEF selected, type
      <4>. QED
          BY <2>2, <3>3, AffordanceFacts DEF Affords
    <3>. QED
        BY <3>1, <3>2, <3>3
  <2>4. matches \in BOOLEAN /\ executable \in BOOLEAN
      BY DEF Agent!GoalMatchesObject
  <2>. DEFINE priority == PriorityOf(best)
  <2>. HIDE DEF best, type, action, label, matches, PriorityOf, priority, decided
  <2>5. decided \in Decisions
      BY <2>1, <2>2, <2>3, <2>4 DEF Decisions, priority
  <2>6. decided.executable = executable /\ decided.action = action /\ decided.type = type
      BY <2>1
  <2>7. Sound(decided, allowed)
      BY <2>3, <2>5, <2>6 DEF Sound
  <2>. QED
      BY <2>7 DEF decided
<1>6. CASE ~ (PriorityOf(best) > 0)
  <2>. DEFINE type == objects[fallback].type
              action == IF allowed.execute THEN "activate" ELSE ""
              label == Agent!TargetLabel(fallback, objects[fallback])
              priority == 50
  <2>1. decided = [object |-> fallback, type |-> type, action |-> action, label |-> label,
                   priority |-> priority, exploratory |-> TRUE, goalConditioned |-> FALSE,
                   executable |-> allowed.execute]
      BY <1>6 DEF Agent!Decide
  <2>2. fallback \in ScreenIds /\ type \in Agent!Types /\ label \in Nat
    <3>1. fallback \in Nat /\ objects[fallback].label \in Nat
        BY <1>1, <1>4
    <3>2. label \in Nat
      <4>. HIDE DEF fallback
      <4>. QED
          BY <3>1, LabelOf
    <3>. QED
        BY <1>1, <1>4, <3>2
  <2>3. type \in {"dynamic_object", "navigation_element"}
      BY <1>4 DEF WorldOf, Agent!CursorId
  <2>4. Affords(type, "activate") /\ type # "obstacle"
    <3>. HIDE DEF type
    <3>. QED
        BY <2>2, <2>3, AffordanceFacts
  <2>5. /\ action \in Meanings \cup {""} /\ (allowed.execute => action = "activate")
        /\ priority \in 0..100 /\ allowed.execute \in BOOLEAN
      BY DEF Meanings
  <2>. HIDE DEF fallback, type, action, label, priority, decided
  <2>6. decided \in Decisions
      BY <2>1, <2>2, <2>5 DEF Decisions
  <2>7. decided.executable = allowed.execute /\ decided.action = action /\ decided.type = type
      BY <2>1
  <2>8. Sound(decided, allowed)
      BY <2>4, <2>5, <2>6, <2>7 DEF Sound
  <2>. QED
      BY <2>8 DEF decided
<1>. QED
    BY <1>5, <1>6
\* What is found by exploring is sound as well.
LEMMA ExploredSound ==
    ASSUME NEW objects, WorldOf(objects), Between(adjustments, -30, 30), NEW decided,
           NEW allowed, allowed.execute \in BOOLEAN, Sound(decided, allowed)
    PROVE  Sound(Agent!Explored(objects, decided, allowed), allowed)
<1>. DEFINE candidates == {id \in DOMAIN objects : Agent!Explorable(objects[id])}
            highest == {i \in candidates : \A j \in candidates : Agent!Confidence(objects[j]) <= Agent!Confidence(objects[i])}
            found == Agent!Least(highest)
            explored == Agent!Explored(objects, decided, allowed)
<1>1. /\ DOMAIN objects \in SUBSET Nat /\ DOMAIN objects \subseteq ScreenIds
      /\ \A id \in DOMAIN objects : objects[id].type \in Agent!Types /\ objects[id].label \in Nat
      /\ \A id \in DOMAIN objects : Described(objects[id])
    BY DEF WorldOf, Described
<1>2. CASE ~allowed.exploration \/ candidates = {}
    BY <1>2 DEF Agent!Explored
<1>3. CASE ~(~allowed.exploration \/ candidates = {})
  <2>1. found \in candidates
    <3>. DEFINE f == [id \in candidates |-> Agent!Confidence(objects[id])]
    <3>1. \A id \in candidates : Agent!Confidence(objects[id]) \in 0..100
        BY <1>1, ConfidenceLimited
    <3>2. f \in [candidates -> 0..100] /\ \A id \in candidates : f[id] = Agent!Confidence(objects[id])
        BY <3>1
    <3>3. candidates # {} /\ candidates \in SUBSET Nat
        BY <1>1, <1>3
    <3>. HIDE DEF f, candidates
    <3>4. PICK i \in candidates : \A j \in candidates : f[j] <= f[i]
        BY <3>2, <3>3, HighestOf
    <3>5. i \in highest
        BY <3>2, <3>4
    <3>6. highest \in SUBSET Nat /\ highest # {}
        BY <3>3, <3>5
    <3>7. found \in highest
      <4>. HIDE DEF highest
      <4>. QED
          BY <3>6, LeastOf
    <3>. QED
        BY <3>7
  <2>. DEFINE type == objects[found].type
              actions == Agent!AffordancesForType(type)
              can == {i \in DOMAIN actions : Agent!BestEffortIntentAction(actions[i]) # ""}
              first == Agent!Least(can)
              action == Agent!BestEffortIntentAction(actions[first])
              label == Agent!TargetLabel(found, objects[found])
              priority == IF decided.priority < 45 THEN 45 ELSE decided.priority
  <2>2. explored = [object |-> found, type |-> type, action |-> action, label |-> label,
                    exploratory |-> TRUE, priority |-> priority, goalConditioned |-> FALSE,
                    executable |-> allowed.execute]
      BY <1>3 DEF Agent!Explored, Agent!ExplorationAction
  <2>3. found \in ScreenIds /\ type \in Agent!Types /\ label \in Nat
    <3>1. found \in Nat /\ objects[found].label \in Nat
        BY <1>1, <2>1
    <3>2. label \in Nat
      <4>. HIDE DEF found
      <4>. QED
          BY <3>1, LabelOf
    <3>. QED
        BY <1>1, <2>1, <3>2
  <2>4. can # {}
    <3>1. Agent!Explorable(objects[found])
        BY <2>1
    <3>. HIDE DEF found
    <3>. QED
        BY <3>1 DEF Agent!Explorable
  <2>5. first \in can
    <3>1. can \in SUBSET Nat
      <4>1. DOMAIN actions \in {{1}, {1, 2}}
        <5>. HIDE DEF type
        <5>. QED
            BY <2>3, AffordanceFacts
      <4>2. can \in SUBSET DOMAIN actions
          OBVIOUS
      <4>. HIDE DEF actions, can
      <4>3. DOMAIN actions \in SUBSET Nat
          BY <4>1
      <4>. QED
          BY <4>2, <4>3
    <3>. HIDE DEF can
    <3>. QED
        BY <2>4, <3>1, LeastOf
  <2>6. /\ action \in Meanings \cup {""} /\ action # "" /\ type # "obstacle" /\ Affords(type, action)
    <3>1. first \in DOMAIN actions /\ action # ""
        BY <2>5
    <3>. HIDE DEF first, type
    <3>. QED
        BY <2>3, <3>1, AffordanceFacts, ZenonT(30) DEF Affords
  <2>7. priority \in 0..100 /\ allowed.execute \in BOOLEAN
    <3>1. decided.priority \in 0..100
        BY DEF Sound, Decisions
    <3>. QED
        BY <3>1
  <2>. HIDE DEF found, type, action, label, priority, explored
  <2>8. explored \in Decisions
      BY <2>2, <2>3, <2>6, <2>7 DEF Decisions
  <2>9. explored.executable = allowed.execute /\ explored.action = action /\ explored.type = type
      BY <2>2
  <2>10. Sound(explored, allowed)
      BY <2>6, <2>8, <2>9 DEF Sound
  <2>. QED
      BY <2>10 DEF explored
<1>. QED
    BY <1>2, <1>3

\* So is what a step decides.
LEMMA DecidedSound ==
    ASSUME NEW objects, WorldOf(objects), NEW wish \in AllGoals, Between(failureBias, 0, 90),
           Between(adjustments, -30, 30), NEW allowed, allowed.execute \in BOOLEAN
    PROVE  Sound(Agent!Decided(objects, allowed, wish), allowed)
<1>1. Sound(Agent!Decide(objects, allowed, wish), allowed)
    BY DecideSound
<1>2. Sound(Agent!Explored(objects, Agent!Decide(objects, allowed, wish), allowed), allowed)
    BY <1>1, ExploredSound
<1>. QED
    BY <1>1, <1>2 DEF Agent!Decided

-----------------------------------------------------------------------------
\* What is on a screen.

\* What an item has, wherever it comes from.
LEMMA ItemOf ==
    ASSUME NEW item \in Agent!Items
    PROVE  /\ item.source \in {"uig", "visual", "screen", "cursor"}
           /\ item.box \in Agent!Boxes /\ item.label \in Nat
           /\ item.source # "cursor" => item.confidence \in 0..100
           /\ item.source = "visual" => item.edge \in 0..100
<1>. DEFINE P == 0..100
            Nodes == [source : {"uig"}, shown : BOOLEAN, class : STRING, executable : BOOLEAN, confidence : P,
                       box : Agent!Boxes, label : Nat, words : SUBSET STRING]
            Visuals == [source : {"visual"}, textLike : BOOLEAN, edge : P, large : BOOLEAN, confidence : P,
                         box : Agent!Boxes, label : Nat, words : SUBSET STRING]
            Elements == [source : {"screen"}, textLike : BOOLEAN, focused : BOOLEAN, confidence : P,
                          box : Agent!Boxes, label : Nat, words : SUBSET STRING]
            Cursors == [source : {"cursor"}, box : Agent!Boxes, label : Nat, words : SUBSET STRING]
<1>1. item \in Nodes \/ item \in Visuals \/ item \in Elements \/ item \in Cursors
    BY DEF Agent!Items
<1>. HIDE DEF P
<1>2. item \in Nodes => /\ item.source = "uig" /\ item.box \in Agent!Boxes /\ item.label \in Nat
                         /\ item.confidence \in P
    OBVIOUS
<1>3. item \in Visuals => /\ item.source = "visual" /\ item.box \in Agent!Boxes /\ item.label \in Nat
                           /\ item.confidence \in P /\ item.edge \in P
    OBVIOUS
<1>4. item \in Elements => /\ item.source = "screen" /\ item.box \in Agent!Boxes /\ item.label \in Nat
                            /\ item.confidence \in P
    OBVIOUS
<1>5. item \in Cursors => item.source = "cursor" /\ item.box \in Agent!Boxes /\ item.label \in Nat
    OBVIOUS
<1>. HIDE DEF Nodes, Visuals, Elements, Cursors
<1>6. /\ item.source \in {"uig", "visual", "screen", "cursor"}
      /\ item.box \in Agent!Boxes /\ item.label \in Nat
      /\ item.source # "cursor" => item.confidence \in P
      /\ item.source = "visual" => item.edge \in P
    BY <1>1, <1>2, <1>3, <1>4, <1>5
<1>. QED
    BY <1>6 DEF P

\* The feature of an item has one of the types; that of the cursor is one that can be activated.
LEMMA FeatureOf ==
    ASSUME NEW item \in Agent!Items, previousCursor \in Agent!Boxes \cup {<<>>}
    PROVE  /\ Agent!Feature(item).type \in Agent!Types /\ Agent!Feature(item).salience \in Int
           /\ item.source = "cursor" => Agent!Feature(item).type \in {"dynamic_object", "navigation_element"}
           /\ item.box \in Agent!Boxes /\ item.label \in Nat
<1>. DEFINE P == 0..100
<1>0. /\ item.source \in {"uig", "visual", "screen", "cursor"}
      /\ item.box \in Agent!Boxes /\ item.label \in Nat
      /\ item.source # "cursor" => item.confidence \in P
      /\ item.source = "visual" => item.edge \in P
    BY ItemOf
<1>6. \A x \in P : x \in Int
    OBVIOUS
<1>. HIDE DEF P
<1>1. CASE item.source = "uig"
  <2>1. item.confidence \in Int /\ item.box \in Agent!Boxes /\ item.label \in Nat
      BY <1>0, <1>1, <1>6
  <2>2. Agent!Feature(item).type = Agent!ClassifyNodeType(item)
        /\ Agent!Feature(item).salience
            = Agent!Limited(0, (item.confidence * 8) \div 10 + (IF item.executable THEN 20 ELSE 0), 100)
      BY <1>1 DEF Agent!Feature
  <2>3. Agent!ClassifyNodeType(item) \in Agent!Types
      BY DEF Agent!ClassifyNodeType, Agent!Types
  <2>4. Agent!Feature(item).salience \in Int
      BY <2>1, <2>2 DEF Agent!Limited
  <2>. QED
      BY <1>1, <2>1, <2>2, <2>3, <2>4
<1>2. CASE item.source = "visual"
  <2>1. item.confidence \in Int /\ item.edge \in Int /\ item.box \in Agent!Boxes /\ item.label \in Nat
      BY <1>0, <1>2, <1>6
  <2>2. Agent!Feature(item).type = Agent!ClassifyVisualType(item)
        /\ Agent!Feature(item).salience = (item.confidence * 6 + item.edge * 4) \div 10
      BY <1>2 DEF Agent!Feature
  <2>3. item.edge >= 45 \/ item.edge < 45
      BY <2>1
  <2>4. Agent!ClassifyVisualType(item) \in Agent!Types
      BY <2>3 DEF Agent!ClassifyVisualType, Agent!Types
  <2>5. Agent!Feature(item).salience \in Int
      BY <2>1, <2>2
  <2>. QED
      BY <1>2, <2>1, <2>2, <2>4, <2>5
<1>3. CASE item.source = "screen"
  <2>1. item.confidence \in Int /\ item.box \in Agent!Boxes /\ item.label \in Nat
      BY <1>0, <1>3, <1>6
  <2>2. Agent!Feature(item).type = (IF item.textLike THEN "text_region" ELSE "interactive_object")
        /\ Agent!Feature(item).salience = (item.confidence * 3) \div 4 + (IF item.focused THEN 25 ELSE 0)
      BY <1>3 DEF Agent!Feature
  <2>3. Agent!Feature(item).type \in Agent!Types
      BY <2>2 DEF Agent!Types
  <2>4. Agent!Feature(item).salience \in Int
      BY <2>1, <2>2
  <2>. QED
      BY <1>3, <2>1, <2>3, <2>4
<1>4. CASE item.source = "cursor"
  <2>. DEFINE moved == IF previousCursor = <<>> THEN 0 ELSE Agent!Apart(previousCursor, item.box)
  <2>1. item.box \in Agent!Boxes /\ item.label \in Nat
      BY <1>0
  <2>2. Agent!Feature(item) = Agent!CursorFeature(item)
      BY <1>4 DEF Agent!Feature
  <2>3. moved \in Int
    <3>1. CASE previousCursor = <<>>
        BY <3>1
    <3>2. CASE previousCursor # <<>>
      <4>1. previousCursor \in Int \X Int /\ item.box \in Int \X Int
          BY <2>1, <3>2 DEF Agent!Boxes
      <4>2. previousCursor[1] \in Int /\ previousCursor[2] \in Int /\ item.box[1] \in Int /\ item.box[2] \in Int
          BY <4>1
      <4>. QED
          BY <3>2, <4>2 DEF Agent!Apart
    <3>. QED
        BY <3>1, <3>2
  <2>. DEFINE salience == Agent!Limited(0, 25 + (100 * moved) \div 64, 100)
  <2>4. salience \in Int
    <3>. HIDE DEF moved
    <3>. QED
        BY <2>3 DEF Agent!Limited
  <2>5. \/ Agent!CursorFeature(item) = [type |-> "dynamic_object", salience |-> salience, dynamic |-> TRUE]
        \/ Agent!CursorFeature(item) = [type |-> "navigation_element", salience |-> 25, dynamic |-> FALSE]
      BY DEF Agent!CursorFeature
  <2>. HIDE DEF salience
  <2>6. Agent!Feature(item).type \in {"dynamic_object", "navigation_element"} /\ Agent!Feature(item).salience \in Int
      BY <2>2, <2>4, <2>5
  <2>7. Agent!Feature(item).type \in Agent!Types
      BY <2>6 DEF Agent!Types
  <2>. QED
      BY <2>1, <2>6, <2>7
<1>. QED
    BY <1>0, <1>1, <1>2, <1>3, <1>4

\* The world model of a screen describes its items.
LEMMA ScreenDescribed ==
    ASSUME NEW screen \in AllScreens, previousCursor \in Agent!Boxes \cup {<<>>}
    PROVE  WorldOf(Agent!WorldObjects(screen))
<1>. DEFINE objects == Agent!WorldObjects(screen)
<1>1. /\ DOMAIN objects = DOMAIN screen
      /\ \A id \in DOMAIN screen : /\ objects[id].type = Agent!Feature(screen[id]).type
                                   /\ objects[id].salience = Agent!Feature(screen[id]).salience
                                   /\ objects[id].box = screen[id].box /\ objects[id].label = screen[id].label
    BY DEF Agent!WorldObjects
<1>2. /\ IsFiniteSet(DOMAIN screen) /\ DOMAIN screen \subseteq Nat \ {0} /\ DOMAIN screen \subseteq ScreenIds
      /\ \A id \in DOMAIN screen : screen[id] \in Agent!Items
      /\ 1 \in DOMAIN screen /\ screen[1].source = "cursor"
    BY AgentFacts DEF ScreenIds
<1>. HIDE DEF objects
<1>3. ASSUME NEW id \in DOMAIN objects PROVE Described(objects[id])
    BY <1>1, <1>2, FeatureOf DEF Described
<1>4. objects[1].type \in {"dynamic_object", "navigation_element"}
    BY <1>1, <1>2, FeatureOf
<1>5. WorldOf(objects)
    BY <1>1, <1>2, <1>3, <1>4 DEF WorldOf, Agent!CursorId
<1>. QED
    BY <1>5 DEF objects
\* What contains is wider than what it contains.
LEMMA RelationshipsNest ==
    ASSUME NEW objects, \A id \in DOMAIN objects : objects[id].box \in Agent!Boxes,
           NEW r \in Agent!Relationships(objects), r.type = "hierarchy"
    PROVE  /\ r.from \in DOMAIN objects /\ r.to \in DOMAIN objects
           /\ Agent!Width(objects[r.to].box) < Agent!Width(objects[r.from].box)
<1>. DEFINE D == DOMAIN objects
            Pairs == {p \in D \X D : p[1] < p[2]}
            Inner(a, b) == Agent!Encloses(objects[a].box, objects[b].box)
            Down == {p \in Pairs : Inner(p[1], p[2])}
            Up == {<<p[2], p[1]>> : p \in {q \in Pairs : ~Inner(q[1], q[2]) /\ Inner(q[2], q[1])}}
<1>1. \/ r \in {[from |-> p[1], to |-> p[2], type |-> "hierarchy"] : p \in Down}
      \/ r \in {[from |-> p[1], to |-> p[2], type |-> "hierarchy"] : p \in Up}
    BY DEF Agent!Relationships
<1>2. PICK p \in Down \cup Up : r.from = p[1] /\ r.to = p[2]
    BY <1>1
<1>3. p[1] \in D /\ p[2] \in D /\ Inner(p[1], p[2])
  <2>1. CASE p \in Down
      BY <2>1
  <2>2. CASE p \in Up
    <3>1. PICK q \in D \X D : p = <<q[2], q[1]>> /\ Inner(q[2], q[1])
        BY <2>2
    <3>2. p[1] = q[2] /\ p[2] = q[1] /\ q[1] \in D /\ q[2] \in D
        BY <3>1
    <3>. HIDE DEF Inner, D
    <3>. QED
        BY <3>1, <3>2
  <2>. QED
      BY <1>2, <2>1, <2>2
<1>4. objects[p[1]].box \in Int \X Int /\ objects[p[2]].box \in Int \X Int
    BY <1>3 DEF Agent!Boxes
<1>5. Agent!Width(objects[p[1]].box) > Agent!Width(objects[p[2]].box)
    BY <1>3 DEF Agent!Encloses
<1>6. Agent!Width(objects[p[1]].box) \in Int /\ Agent!Width(objects[p[2]].box) \in Int
    BY <1>4 DEF Agent!Width
<1>7. Agent!Width(objects[p[2]].box) < Agent!Width(objects[p[1]].box)
    BY <1>5, <1>6
<1>. QED
    BY <1>2, <1>3, <1>7

-----------------------------------------------------------------------------
\* The steps of the agent.

\* A new agent knows nothing.
LEMMA AgentBegins == Agent!Init => AgentInv
<1>. SUFFICES ASSUME Agent!Init PROVE AgentInv
    OBVIOUS
<1>1. /\ world = [objects |-> <<>>, relationships |-> {}]
      /\ previousCursor = <<>> /\ failureBias = <<>> /\ adjustments = <<>> /\ experience = <<>>
      /\ decision = [object |-> 0] /\ awaited = {}
    BY DEF Agent!Init
<1>2. IsFiniteSet(DOMAIN world.objects) /\ DOMAIN world.objects = {} /\ Nested(world)
    BY <1>1, FS_EmptySet DEF Nested
<1>3. experience \in Seq(Outcomes) /\ Len(experience) = 0 /\ Len(experience) <= KRemembered
    BY <1>1, AgentFacts
<1>4. Counts(failureBias, experience, Len(experience))
    BY <1>3 DEF Counts
<1>5. decision.object = 0
    BY <1>1
<1>. QED
    BY <1>1, <1>2, <1>3, <1>4, <1>5, NoBias DEF AgentInv

\* A step remembers a world in which containment is by width, and decides soundly.
LEMMA StepKept ==
    ASSUME AgentInv, NEW screen \in AllScreens, NEW wish \in AllGoals, Agent!Step(screen, wish)
    PROVE  AgentInv'
<1>. DEFINE objects == Agent!WorldObjects(screen)
<1>1. PICK execute \in BOOLEAN :
          /\ safety' = [execute |-> execute, exploration |-> execute]
          /\ decision' = Agent!Decided(objects, safety', wish)
          /\ Agent!Remember(screen)
          /\ \/ UNCHANGED awaited
             \/ decision'.executable /\ awaited' = awaited \cup {decision'}
          /\ UNCHANGED <<failureBias, adjustments, experience>>
    BY DEF Agent!Step
<1>2. previousCursor \in Agent!Boxes \cup {<<>>} /\ Between(failureBias, 0, 90) /\ Between(adjustments, -30, 30)
    BY TableBetween DEF AgentInv
<1>3. WorldOf(objects)
    BY <1>2, ScreenDescribed
<1>4. world' = [objects |-> objects, relationships |-> Agent!Relationships(objects)]
      /\ previousCursor' = screen[1].box
    BY <1>1 DEF Agent!Remember, Agent!CursorId
<1>5. previousCursor' \in Agent!Boxes
  <2>1. screen[1] \in Agent!Items
      BY AgentFacts
  <2>. QED
      BY <1>4, <2>1, ItemOf
<1>. HIDE DEF objects
<1>6. Sound(decision', safety')
  <2>1. safety'.execute \in BOOLEAN
      BY <1>1
  <2>. QED
      BY <1>1, <1>2, <1>3, <2>1, DecidedSound
<1>7. /\ IsFiniteSet(DOMAIN world'.objects)
      /\ \A id \in DOMAIN world'.objects : world'.objects[id].box \in Agent!Boxes
    BY <1>3, <1>4 DEF WorldOf, Described
<1>8. Nested(world)'
  <2>1. ASSUME NEW r \in world'.relationships, r.type = "hierarchy"
        PROVE  /\ r.from \in DOMAIN world'.objects /\ r.to \in DOMAIN world'.objects
               /\ Agent!Width(world'.objects[r.to].box) < Agent!Width(world'.objects[r.from].box)
    <3>1. world'.objects = objects /\ r \in Agent!Relationships(objects)
        BY <1>4
    <3>2. \A id \in DOMAIN objects : objects[id].box \in Agent!Boxes
        BY <1>3 DEF WorldOf, Described
    <3>. QED
        BY <2>1, <3>1, <3>2, RelationshipsNest
  <2>. QED
      BY <2>1 DEF Nested, Agent!Width
<1>9. awaited' \subseteq {d \in Decisions : d.executable /\ d.action # ""}
  <2>1. decision' \in Decisions /\ (decision'.executable => decision'.action # "")
      BY <1>6 DEF Sound
  <2>. QED
      BY <1>1, <2>1 DEF AgentInv
<1>10. /\ failureBias' = failureBias /\ adjustments' = adjustments /\ experience' = experience
    BY <1>1
<1>. QED
    BY <1>5, <1>6, <1>7, <1>8, <1>9, <1>10 DEF AgentInv

\* An outcome counts from then on; the oldest may be forgotten.
LEMMA OutcomeRecorded ==
    ASSUME AgentInv, NEW entry \in Outcomes, Agent!RecordExecutionOutcome(entry)
    PROVE  /\ failureBias' \in Biases /\ adjustments' \in Adjustments
           /\ experience' \in Seq(Outcomes) /\ Len(experience') <= KRemembered
           /\ Counts(failureBias', experience', Len(experience'))
<1>. DEFINE all == Append(experience, entry)
            n == Len(experience)
            key == ChoiceOf(entry)
            kind == [type |-> entry.type, action |-> entry.action]
            after == Agent!With(failureBias, key,
                                Agent!BiasAfter(Agent!Valued(failureBias, key), entry.success, 25, 10))
<1>1. /\ experience' = Agent!Latest(all) /\ failureBias' = after
      /\ adjustments' = Agent!With(adjustments, kind,
                                   Agent!AdjustmentAfter(Agent!Valued(adjustments, kind), entry.success, 2, 3))
    BY DEF Agent!RecordExecutionOutcome, ChoiceOf
<1>2. /\ experience \in Seq(Outcomes) /\ n <= KRemembered /\ failureBias \in Biases /\ adjustments \in Adjustments
      /\ Counts(failureBias, experience, n)
    BY DEF AgentInv
<1>3. /\ all \in Seq(Outcomes) /\ Len(all) = n + 1 /\ n \in Nat /\ all[n + 1] = entry
      /\ \A i \in 1..n : all[i] = experience[i]
    BY <1>2
<1>4. adjustments' \in Adjustments
  <2>1. kind \in Kinds /\ entry.success \in BOOLEAN /\ 2 \in 0..30 /\ 3 \in 0..30
      BY OutcomeKeys, SMTT(30)
  <2>. HIDE DEF kind
  <2>. QED
      BY <1>1, <1>2, <2>1, AdjustmentWritten
<1>5. after \in Biases /\ Counts(after, all, n + 1)
  <2>1. Counts(failureBias, all, n)
    <3>1. ASSUME NEW i \in 1..n, LastOf(all, i, n)
          PROVE  /\ LastOf(experience, i, n) /\ all[i] = experience[i]
      <4>1. \A j \in i + 1..n : j \in 1..n
          BY <1>3
      <4>. HIDE DEF all
      <4>. QED
          BY <1>3, <3>1, <4>1 DEF LastOf
    <3>. HIDE DEF all, n
    <3>. QED
        BY <1>2, <3>1 DEF Counts
  <2>2. 25 \in 16..90 /\ 10 \in 8..90 /\ n + 1 <= Len(all)
      BY <1>3
  <2>. HIDE DEF all, n
  <2>. QED
      BY <1>2, <1>3, <2>1, <2>2, BiasRecorded, Zenon
<1>. HIDE DEF all, after, n
<1>6. CASE Len(all) > KRemembered
  <2>1. experience' = Tail(all)
      BY <1>1, <1>6 DEF Agent!Latest
  <2>2. all # <<>>
      BY <1>3
  <2>3. /\ Tail(all) \in Seq(Outcomes) /\ Len(Tail(all)) = n
        /\ \A i \in 1..n : Tail(all)[i] = all[i + 1]
      BY <1>3, <2>2
  <2>4. ASSUME NEW i \in 1..n, LastOf(Tail(all), i, n)
        PROVE  i + 1 \in 1..n + 1 /\ LastOf(all, i + 1, n + 1) /\ Tail(all)[i] = all[i + 1]
    <3>1. Tail(all)[i] = all[i + 1] /\ i + 1 \in 1..n + 1
        BY <1>3, <2>3
    <3>2. ASSUME NEW j \in (i + 1) + 1..n + 1
          PROVE  all[j].action # all[i + 1].action \/ all[j].object # all[i + 1].object
      <4>1. j - 1 \in i + 1..n /\ j - 1 \in 1..n /\ (j - 1) + 1 = j
          BY <1>3
      <4>2. Tail(all)[j - 1] = all[j]
          BY <2>3, <4>1
      <4>3. Tail(all)[j - 1].action # Tail(all)[i].action \/ Tail(all)[j - 1].object # Tail(all)[i].object
          BY <2>4, <4>1 DEF LastOf
      <4>. QED
          BY <3>1, <4>2, <4>3
    <3>. QED
        BY <3>1, <3>2 DEF LastOf
  <2>5. Counts(after, Tail(all), n)
      BY <1>5, <2>4 DEF Counts
  <2>6. Len(Tail(all)) <= KRemembered
      BY <1>2, <2>3
  <2>. QED
      BY <1>1, <1>4, <1>5, <2>1, <2>3, <2>5, <2>6
<1>7. CASE ~ (Len(all) > KRemembered)
  <2>1. experience' = all
      BY <1>1, <1>7 DEF Agent!Latest
  <2>2. Len(all) <= KRemembered
      BY <1>3, <1>7, AgentFacts
  <2>. QED
      BY <1>1, <1>3, <1>4, <1>5, <2>1, <2>2
<1>. QED
    BY <1>6, <1>7

\* The outcome of what was decided is recorded.
LEMMA OutcomeKept ==
    ASSUME AgentInv, Agent!Outcome
    PROVE  AgentInv'
<1>1. PICK executed \in awaited, success \in BOOLEAN :
          /\ Agent!RecordExecutionOutcome([object |-> executed.object, type |-> executed.type,
                                           action |-> executed.action, success |-> success])
          /\ awaited' = awaited \ {executed}
    BY DEF Agent!Outcome
<1>2. UNCHANGED <<world, previousCursor, decision, safety>>
    BY DEF Agent!Outcome
<1>. DEFINE entry == [object |-> executed.object, type |-> executed.type,
                      action |-> executed.action, success |-> success]
<1>3. entry \in Outcomes
  <2>1. executed \in Decisions /\ executed.action # ""
      BY DEF AgentInv
  <2>. QED
      BY <2>1 DEF Decisions, Outcomes
<1>. HIDE DEF entry
<1>4. /\ failureBias' \in Biases /\ adjustments' \in Adjustments
      /\ experience' \in Seq(Outcomes) /\ Len(experience') <= KRemembered
      /\ Counts(failureBias', experience', Len(experience'))
  <2>1. Agent!RecordExecutionOutcome(entry)
      BY <1>1 DEF entry
  <2>. QED
      BY <1>3, <2>1, OutcomeRecorded
<1>5. awaited' \subseteq {d \in Decisions : d.executable /\ d.action # ""}
    BY <1>1 DEF AgentInv
<1>6. /\ previousCursor' \in Agent!Boxes \cup {<<>>} /\ IsFiniteSet(DOMAIN world'.objects)
      /\ \A id \in DOMAIN world'.objects : world'.objects[id].box \in Agent!Boxes
      /\ Nested(world)' /\ (decision'.object # 0 => Sound(decision', safety'))
    BY <1>2 DEF AgentInv, Nested, Agent!Width
<1>. QED
    BY <1>4, <1>5, <1>6 DEF AgentInv

\* A restarted agent replays what it remembers, the oldest outcome first.
LEMMA RestartKept ==
    ASSUME AgentInv, Agent!Restart
    PROVE  AgentInv'
<1>1. /\ failureBias' = Agent!RestoredBias(experience)
      /\ adjustments' = Agent!RestoredAdjustments(experience)
      /\ world' = [objects |-> <<>>, relationships |-> {}]
      /\ previousCursor' = <<>> /\ awaited' = {}
      /\ experience' = experience /\ decision' = decision /\ safety' = safety
    BY DEF Agent!Restart
<1>2. experience \in Seq(Outcomes) /\ Len(experience) <= KRemembered
    BY DEF AgentInv
<1>3. /\ failureBias' \in Biases /\ adjustments' \in Adjustments
      /\ Counts(failureBias', experience', Len(experience'))
    BY <1>1, <1>2, BiasReplayed, AdjustmentsReplayed
<1>4. IsFiniteSet(DOMAIN world'.objects) /\ DOMAIN world'.objects = {} /\ Nested(world)'
    BY <1>1, FS_EmptySet DEF Nested
<1>5. decision'.object # 0 => Sound(decision', safety')
    BY <1>1 DEF AgentInv
<1>. QED
    BY <1>1, <1>2, <1>3, <1>4, <1>5 DEF AgentInv

\* Every step of the agent keeps its invariant.
LEMMA AgentKept ==
    ASSUME AgentInv, [Agent!Next]_(Agent!vars)
    PROVE  AgentInv'
<1>1. CASE \E screen \in AllScreens, wish \in AllGoals : Agent!Step(screen, wish)
    BY <1>1, StepKept
<1>2. CASE Agent!Outcome
    BY <1>2, OutcomeKept
<1>3. CASE Agent!Restart
    BY <1>3, RestartKept
<1>4. CASE UNCHANGED Agent!vars
    BY <1>4 DEF Agent!vars, AgentInv, Nested, Agent!Width
<1>. QED
    BY <1>1, <1>2, <1>3, <1>4 DEF Agent!Next, AllGoals

\* The agent's properties follow from the invariant.
LEMMA AgentSafe ==
    ASSUME AgentInv
    PROVE  Agent!TypeOK /\ Agent!LastOutcomeCounts /\ Agent!SafeToExecute /\ Agent!ContainmentIsAHierarchy
<1>1. Agent!TypeOK
  <2>1. \A key \in DOMAIN failureBias : failureBias[key] \in 0..90
      BY DEF AgentInv, Biases
  <2>2. \A kind \in DOMAIN adjustments : adjustments[kind] \in -30..30
      BY DEF AgentInv, Adjustments
  <2>3. awaited \subseteq [object : Agent!Ids, type : Agent!Types, action : {"activate", "select"}, label : Nat,
                           priority : 0..100, exploratory : BOOLEAN, goalConditioned : BOOLEAN, executable : {TRUE}]
    <3>. DEFINE P == 0..100
    <3>. SUFFICES ASSUME NEW d \in awaited
                  PROVE  d \in [object : Agent!Ids, type : Agent!Types, action : {"activate", "select"}, label : Nat,
                                priority : P, exploratory : BOOLEAN, goalConditioned : BOOLEAN, executable : {TRUE}]
        OBVIOUS
    <3>1. d \in [object : ScreenIds, type : Agent!Types, action : Meanings \cup {""}, label : Nat, priority : P,
                 exploratory : BOOLEAN, goalConditioned : BOOLEAN, executable : BOOLEAN]
          /\ d.executable /\ d.action # ""
        BY DEF AgentInv, Decisions
    <3>. HIDE DEF P
    <3>. QED
        BY <3>1 DEF Meanings, Agent!Ids, ScreenIds
  <2>4. Len(experience) <= KRemembered
      BY DEF AgentInv
  <2>. QED
      BY <2>1, <2>2, <2>3, <2>4 DEF Agent!TypeOK
<1>2. Agent!LastOutcomeCounts
  <2>1. experience \in Seq(Outcomes) /\ Counts(failureBias, experience, Len(experience))
      BY DEF AgentInv
  <2>2. DOMAIN experience = 1..Len(experience)
      BY <2>1
  <2>. QED
      BY <2>1, <2>2 DEF Agent!LastOutcomeCounts, Counts, LastOf, ChoiceOf
<1>3. Agent!SafeToExecute
    BY DEF AgentInv, Sound, Affords, Agent!SafeToExecute
<1>4. Agent!ContainmentIsAHierarchy
  <2>. SUFFICES ASSUME NEW ids \in SUBSET DOMAIN world.objects, ids # {}
                PROVE  \E top \in ids : ~ \E r \in world.relationships :
                          r.type = "hierarchy" /\ r.from \in ids /\ r.to = top
      BY DEF Agent!ContainmentIsAHierarchy
  <2>. DEFINE D == DOMAIN world.objects
              f == [id \in D |-> Agent!Width(world.objects[id].box)]
  <2>1. f \in [D -> Int]
    <3>1. ASSUME NEW id \in D PROVE Agent!Width(world.objects[id].box) \in Int
      <4>1. world.objects[id].box \in Int \X Int
          BY DEF AgentInv, Agent!Boxes
      <4>. QED
          BY <4>1 DEF Agent!Width
    <3>. QED
        BY <3>1
  <2>2. IsFiniteSet(D) /\ ids \in SUBSET D
      BY DEF AgentInv
  <2>3. \A id \in D : f[id] = Agent!Width(world.objects[id].box)
      OBVIOUS
  <2>. HIDE DEF D, f
  <2>4. PICK top \in ids : \A j \in ids : f[j] <= f[top]
      BY <2>1, <2>2, WidestOf
  <2>5. ASSUME NEW r \in world.relationships, r.type = "hierarchy", r.from \in ids, r.to = top PROVE FALSE
    <3>1. f[top] < f[r.from]
        BY <2>2, <2>3, <2>5 DEF AgentInv, Nested
    <3>2. f[r.from] <= f[top] /\ f[top] \in Int /\ f[r.from] \in Int
        BY <2>1, <2>2, <2>4, <2>5
    <3>. QED
        BY <3>1, <3>2
  <2>. QED
      BY <2>4, <2>5
<1>. QED
    BY <1>1, <1>2, <1>3, <1>4
-----------------------------------------------------------------------------
\* The bundles of a frame.

SourceNames == {"aim", "interaction", "meta_policy", "movement", "strategy"}
IntentNames == {"move", "activate", "select", "set_value"}

\* The names of the actions that a source proposes.
NamesOf == [source \in SourceNames |->
    CASE source = "aim" -> {"shoot", "aim_target"}
      [] source = "interaction" -> {"interact"}
      [] source = "meta_policy" -> {"reflex_action"}
      [] source = "movement" -> {"move_toward_target"}
      [] source = "strategy" -> {"stabilize_interaction", "explore_context"}]

ActionsOf(source) == [name : NamesOf[source], intent : IntentNames]
Proposals(source) == {<<>>} \cup {<<action>> : action \in ActionsOf(source)}
AllActions == UNION {ActionsOf(source) : source \in SourceNames}

\* A bundle proposes at most one action.
IsBundle(b) ==
    /\ b = [source |-> b.source, target |-> b.target, priority |-> b.priority,
            discrete |-> b.discrete, fire |-> b.fire, interact |-> b.interact]
    /\ b.source \in SourceNames /\ b.priority \in 0..100
    /\ b.discrete \in Proposals(b.source)

\* Bundles of which no two have the same source.
Rivals(S) ==
    /\ IsFiniteSet(S)
    /\ \A b \in S : IsBundle(b)
    /\ \A a, b \in S : a.source = b.source => a = b

\* All of S, the strongest first.
Ranked(s, S) ==
    /\ s \in Seq(S) /\ Len(s) = Cardinality(S)
    /\ \A i, j \in 1..Len(s) : i < j => Agent!Before(s[i], s[j])
    /\ \A b \in S : \E i \in 1..Len(s) : s[i] = b

-----------------------------------------------------------------------------
\* The order of bundles.

LEMMA SourceRanks ==
    /\ \A source \in SourceNames : Agent!SourceRank(source) \in 1..5
    /\ \A a, b \in SourceNames : Agent!SourceRank(a) = Agent!SourceRank(b) => a = b
<1>1. /\ Agent!SourceRank("aim") = 1 /\ Agent!SourceRank("interaction") = 2
      /\ Agent!SourceRank("meta_policy") = 3 /\ Agent!SourceRank("movement") = 4
      /\ Agent!SourceRank("strategy") = 5
    BY DEF Agent!SourceRank, Agent!Sources
<1>. QED
    BY <1>1 DEF SourceNames

\* Of two different bundles one is before the other.
LEMMA BeforeOrders ==
    ASSUME NEW S, Rivals(S)
    PROVE  /\ \A a \in S : ~Agent!Before(a, a)
           /\ \A a, b \in S : a # b => Agent!Before(a, b) \/ Agent!Before(b, a)
           /\ \A a, b, c \in S : Agent!Before(a, b) /\ Agent!Before(b, c) => Agent!Before(a, c)
<1>. DEFINE Rank(b) == Agent!SourceRank(b.source)
<1>1. \A b \in S : b.priority \in Int /\ Rank(b) \in Int
  <2>. SUFFICES ASSUME NEW b \in S PROVE b.priority \in Int /\ Rank(b) \in Int
      OBVIOUS
  <2>1. IsBundle(b)
      BY DEF Rivals
  <2>2. b.source \in SourceNames /\ b.priority \in 0..100
      BY <2>1, Zenon DEF IsBundle
  <2>3. Rank(b) \in 1..5
      BY <2>2, SourceRanks, Zenon
  <2>. HIDE DEF Rank
  <2>. QED
      BY <2>2, <2>3
<1>2. \A a, b \in S : Rank(a) = Rank(b) => a = b
    BY SourceRanks DEF Rivals, IsBundle
<1>3. \A a, b : Agent!Before(a, b) <=>
                    \/ a.priority > b.priority
                    \/ a.priority = b.priority /\ Rank(a) < Rank(b)
    BY DEF Agent!Before
<1>. HIDE DEF Rank
<1>4. ASSUME NEW a \in S PROVE ~Agent!Before(a, a)
    BY <1>1, <1>3
<1>5. ASSUME NEW a \in S, NEW b \in S, a # b PROVE Agent!Before(a, b) \/ Agent!Before(b, a)
  <2>1. Rank(a) < Rank(b) \/ Rank(b) < Rank(a)
      BY <1>1, <1>2, <1>5
  <2>. QED
      BY <1>1, <1>3, <2>1
<1>6. ASSUME NEW a \in S, NEW b \in S, NEW c \in S, Agent!Before(a, b), Agent!Before(b, c)
      PROVE  Agent!Before(a, c)
    BY <1>1, <1>3, <1>6
<1>. QED
    BY <1>4, <1>5, <1>6

\* How many are before each says which place it has.
LEMMA PlacesDiffer ==
    ASSUME NEW S, Rivals(S)
    PROVE  LET place == [b \in S |-> Cardinality({a \in S : Agent!Before(a, b)}) + 1]
           IN  /\ place \in Injection(S, 1..Cardinality(S))
               /\ place \in Surjection(S, 1..Cardinality(S))
               /\ \A a, b \in S : Agent!Before(a, b) <=> place[a] < place[b]
<1>. DEFINE Ahead(b) == {a \in S : Agent!Before(a, b)}
            place == [b \in S |-> Cardinality(Ahead(b)) + 1]
            n == Cardinality(S)
<1>1. IsFiniteSet(S) /\ n \in Nat
    BY FS_CardinalityType DEF Rivals
<1>2. ASSUME NEW b \in S PROVE /\ IsFiniteSet(Ahead(b)) /\ Cardinality(Ahead(b)) \in Nat
                               /\ Cardinality(Ahead(b)) + 1 <= n
  <2>. DEFINE A == Ahead(b)
  <2>1. A \in SUBSET S /\ A \cup {b} \in SUBSET S /\ b \notin A
      BY BeforeOrders
  <2>. HIDE DEF A
  <2>2. IsFiniteSet(A) /\ Cardinality(A) \in Nat
      BY <1>1, <2>1, FS_Subset, FS_CardinalityType
  <2>3. Cardinality(A \cup {b}) = Cardinality(A) + 1
      BY <2>1, <2>2, FS_AddElement
  <2>4. Cardinality(A \cup {b}) <= n
      BY <1>1, <2>1, FS_Subset
  <2>5. Cardinality(A) + 1 <= n
      BY <2>3, <2>4
  <2>. QED
      BY <2>2, <2>5 DEF A
<1>3. ASSUME NEW a \in S, NEW b \in S, Agent!Before(a, b)
      PROVE  Cardinality(Ahead(a)) < Cardinality(Ahead(b))
  <2>1. a \notin Ahead(a) /\ Ahead(a) \cup {a} \in SUBSET Ahead(b)
      BY <1>3, BeforeOrders
  <2>. HIDE DEF Ahead
  <2>2. Cardinality(Ahead(a) \cup {a}) = Cardinality(Ahead(a)) + 1
      BY <1>2, <2>1, FS_AddElement
  <2>3. Cardinality(Ahead(a) \cup {a}) <= Cardinality(Ahead(b))
      BY <1>2, <2>1, FS_Subset
  <2>. QED
      BY <1>2, <2>2, <2>3
<1>4. /\ place \in [S -> 1..n]
      /\ \A b \in S : place[b] = Cardinality(Ahead(b)) + 1
    BY <1>1, <1>2
<1>. HIDE DEF Ahead, n
<1>5. \A a, b \in S : Agent!Before(a, b) => place[a] < place[b]
    BY <1>2, <1>3, <1>4
<1>. HIDE DEF place
<1>6. ASSUME NEW a \in S, NEW b \in S, place[a] = place[b] PROVE a = b
  <2>1. place[a] \in Int /\ place[b] \in Int
      BY <1>4
  <2>. QED
      BY <1>5, <1>6, <2>1, BeforeOrders
<1>7. place \in Injection(S, 1..n)
    BY <1>4, <1>6 DEF Injection, IsInjective
<1>8. place \in Surjection(S, 1..n)
  <2>1. IsFiniteSet(1..n) /\ Cardinality(1..n) = n
      BY <1>1, FS_Interval
  <2>2. Cardinality(S) = n
      BY DEF n
  <2>. DEFINE T == 1..n
  <2>. HIDE DEF T
  <2>3. place \in Surjection(S, T)
      BY <1>7, <2>1, <2>2, FS_Injection DEF T
  <2>. QED
      BY <2>3 DEF T
<1>9. ASSUME NEW a \in S, NEW b \in S, place[a] < place[b] PROVE Agent!Before(a, b)
  <2>1. place[a] \in Int /\ place[b] \in Int
      BY <1>4
  <2>2. a # b
      BY <1>9, <2>1
  <2>3. ~ (place[b] < place[a])
      BY <1>9, <2>1
  <2>. QED
      BY <1>5, <2>2, <2>3, BeforeOrders
<1>10. \A a, b \in S : Agent!Before(a, b) <=> place[a] < place[b]
    BY <1>5, <1>9
<1>. QED
    BY <1>7, <1>8, <1>10 DEF place, n, Ahead

\* The planner's order ranks what it is given.
LEMMA OrderedRanked ==
    ASSUME NEW S, Rivals(S)
    PROVE  Ranked(Agent!Ordered(S), S)
<1>. DEFINE n == Cardinality(S)
            place == [b \in S |-> Cardinality({a \in S : Agent!Before(a, b)}) + 1]
            s == Agent!Ordered(S)
            At(i, b) == Cardinality({a \in S : Agent!Before(a, b)}) = i - 1
<1>1. /\ place \in Injection(S, 1..n) /\ place \in Surjection(S, 1..n)
      /\ \A a, b \in S : Agent!Before(a, b) <=> place[a] < place[b]
    BY PlacesDiffer
<1>2. n \in Nat
    BY FS_CardinalityType DEF Rivals
<1>3. /\ \A b \in S : IsFiniteSet({a \in S : Agent!Before(a, b)}) /\ {a \in S : Agent!Before(a, b)} \in SUBSET S
      /\ \A b \in S : Cardinality({a \in S : Agent!Before(a, b)}) \in Nat
    BY FS_Subset, FS_CardinalityType DEF Rivals
<1>4. \A b \in S : \A i \in 1..n : At(i, b) <=> place[b] = i
    BY <1>2, <1>3
<1>5. s = [i \in 1..n |-> CHOOSE b \in S : At(i, b)]
    BY DEF Agent!Ordered, Agent!Cardinality, Cardinality
<1>. HIDE DEF place, n, s, At
<1>6. ASSUME NEW i \in 1..n PROVE s[i] \in S /\ place[s[i]] = i
  <2>1. PICK b \in S : place[b] = i
      BY <1>1 DEF Surjection
  <2>2. At(i, b)
      BY <1>4, <2>1
  <2>3. s[i] \in S /\ At(i, s[i])
      BY <1>5, <2>2
  <2>. QED
      BY <1>4, <2>3
<1>7. s \in [1..n -> S]
    BY <1>5, <1>6
<1>8. s \in Seq(S) /\ Len(s) = n
    BY <1>2, <1>7, SeqDef
<1>9. ASSUME NEW i \in 1..n, NEW j \in 1..n, i < j PROVE Agent!Before(s[i], s[j])
    BY <1>1, <1>6, <1>9
<1>10. ASSUME NEW b \in S PROVE \E i \in 1..n : s[i] = b
  <2>1. place[b] \in 1..n
      BY <1>1 DEF Surjection
  <2>2. s[place[b]] \in S /\ place[s[place[b]]] = place[b]
      BY <1>6, <2>1
  <2>3. s[place[b]] = b
      BY <1>1, <2>2 DEF Injection, IsInjective
  <2>. QED
      BY <2>1, <2>3
<1>. QED
    BY <1>8, <1>9, <1>10 DEF Ranked, n, s

\* What is ranked already stays as it is.
LEMMA RankedOnce ==
    ASSUME NEW S, Rivals(S), NEW t, Ranked(t, S)
    PROVE  Agent!Ordered(S) = t
<1>. DEFINE n == Cardinality(S)
            s == Agent!Ordered(S)
<1>1. /\ s \in Seq(S) /\ Len(s) = n /\ n \in Nat
      /\ \A i, j \in 1..n : i < j => Agent!Before(s[i], s[j])
      /\ \A b \in S : \E i \in 1..n : s[i] = b
    BY OrderedRanked, FS_CardinalityType DEF Ranked, Rivals
<1>2. /\ t \in Seq(S) /\ Len(t) = n
      /\ \A i, j \in 1..n : i < j => Agent!Before(t[i], t[j])
      /\ \A b \in S : \E i \in 1..n : t[i] = b
    BY DEF Ranked
<1>. HIDE DEF n, s
<1>3. /\ \A i \in 1..n : s[i] \in S /\ t[i] \in S
      /\ s = [i \in 1..n |-> s[i]] /\ t = [i \in 1..n |-> t[i]]
    BY <1>1, <1>2
<1>4. ASSUME NEW u, \A i \in 1..n : u[i] \in S, \A i, j \in 1..n : i < j => Agent!Before(u[i], u[j]),
             NEW i \in 1..n, NEW j \in 1..n, Agent!Before(u[i], u[j])
      PROVE  i < j
  <2>1. i # j
      BY <1>4, BeforeOrders
  <2>2. ~ (j < i)
      BY <1>4, BeforeOrders
  <2>. QED
      BY <1>1, <2>1, <2>2
<1>. DEFINE Same == {m \in Nat : \A i \in 1..n : i <= m => s[i] = t[i]}
<1>5. 0 \in Same
    OBVIOUS
<1>6. ASSUME NEW m \in Nat, m \in Same PROVE m + 1 \in Same
  <2>. SUFFICES ASSUME m + 1 \in 1..n PROVE s[m + 1] = t[m + 1]
    <3>1. \A i \in 1..n : i <= m + 1 => i <= m \/ (i = m + 1 /\ m + 1 \in 1..n)
        BY <1>1
    <3>. QED
        BY <1>6, <3>1
  <2>1. PICK i \in 1..n : s[i] = t[m + 1]
      BY <1>1, <1>3
  <2>2. PICK j \in 1..n : t[j] = s[m + 1]
      BY <1>2, <1>3
  <2>3. m + 1 <= i
    <3>1. ASSUME i <= m PROVE FALSE
      <4>1. t[i] = t[m + 1] /\ i < m + 1
          BY <1>6, <2>1, <3>1
      <4>. QED
          BY <1>2, <1>3, <4>1, BeforeOrders
    <3>. QED
        BY <1>1, <3>1
  <2>4. m + 1 <= j
    <3>1. ASSUME j <= m PROVE FALSE
      <4>1. s[j] = s[m + 1] /\ j < m + 1
          BY <1>6, <2>2, <3>1
      <4>. QED
          BY <1>1, <1>3, <4>1, BeforeOrders
    <3>. QED
        BY <1>1, <3>1
  <2>5. CASE m + 1 = i
      BY <2>1, <2>5
  <2>6. CASE m + 1 = j
      BY <2>2, <2>6
  <2>7. CASE m + 1 < i /\ m + 1 < j
    <3>1. Agent!Before(s[m + 1], s[i]) /\ Agent!Before(t[m + 1], t[j])
        BY <1>1, <1>2, <2>7
    <3>2. s[m + 1] \in S /\ t[m + 1] \in S
        BY <1>3
    <3>3. Agent!Before(s[m + 1], t[m + 1]) /\ Agent!Before(t[m + 1], s[m + 1])
        BY <2>1, <2>2, <3>1
    <3>. QED
        BY <3>2, <3>3, BeforeOrders
  <2>. QED
      BY <1>1, <2>3, <2>4, <2>5, <2>6, <2>7
<1>7. n \in Same
  <2>. HIDE DEF Same
  <2>. QED
      BY <1>1, <1>5, <1>6, SetInduction
<1>8. \A i \in 1..n : s[i] = t[i]
    BY <1>7
<1>. QED
    BY <1>3, <1>8 DEF s

-----------------------------------------------------------------------------
\* What a frame plans.

\* Bundles in their order, of which no two have the same source.
Contest(planned) ==
    /\ Len(planned) \in {4, 5} /\ planned = [i \in 1..Len(planned) |-> planned[i]]
    /\ \A i \in 1..Len(planned) : IsBundle(planned[i]) /\ planned[i].priority \in 20..100
    /\ \A i, j \in 1..Len(planned) : planned[i].source = planned[j].source => i = j
    /\ \A i, j \in 1..Len(planned) : i < j => Agent!Before(planned[i], planned[j])

\* A specialist's bundle.
Specialist(b, source) == IsBundle(b) /\ b.source = source /\ b.priority >= 45

\* A priority is limited to hundred, and no lower for it.
LEMMA PrioritiesLimited ==
    \A priority \in Int :
        /\ Agent!Limited(0, priority, 100) \in 0..100
        /\ \A least \in 0..100 : priority >= least => Agent!Limited(0, priority, 100) >= least
    BY DEF Agent!Limited

\* What a specialist builds is a bundle.
LEMMA BundleOf ==
    ASSUME NEW source \in SourceNames, NEW target, NEW priority \in Int, NEW fire, NEW interact,
           NEW actions \in Proposals(source),
           NEW b, b = Agent!Bundle(source, target, priority, actions, fire, interact)
    PROVE  IsBundle(b) /\ b.source = source /\ b.priority = Agent!Limited(0, priority, 100)
<1>1. Agent!Limited(0, priority, 100) \in 0..100
    BY PrioritiesLimited
<1>. DEFINE p == Agent!Limited(0, priority, 100)
            P == 0..100
<1>2. Agent!Bundle(source, target, priority, actions, fire, interact) =
          [source |-> source, target |-> target, priority |-> p, discrete |-> actions, fire |-> fire, interact |-> interact]
    BY DEF Agent!Bundle
<1>3. p \in P
    BY <1>1
<1>. HIDE DEF p, P
<1>4. [source |-> source, target |-> target, priority |-> p, discrete |-> actions, fire |-> fire,
       interact |-> interact].priority \in P
    BY <1>3
<1>. USE DEF P
<1>. QED
    BY <1>2, <1>4 DEF IsBundle, p

\* What a specialist proposes with a priority of at least 45 is a specialist's bundle.
LEMMA SpecialistOf ==
    ASSUME NEW source \in SourceNames, NEW target, NEW priority \in Int, priority >= 45, NEW fire, NEW interact,
           NEW actions \in Proposals(source),
           NEW b, b = Agent!Bundle(source, target, priority, actions, fire, interact)
    PROVE  Specialist(b, source)
<1>1. IsBundle(b) /\ b.source = source /\ b.priority = Agent!Limited(0, priority, 100)
    BY BundleOf
<1>2. Agent!Limited(0, priority, 100) >= 45
    BY PrioritiesLimited
<1>3. b.priority >= 45
    BY <1>1, <1>2
<1>. QED
    BY <1>1, <1>3 DEF Specialist

\* What is permitted is one action.
LEMMA PermittedOf ==
    ASSUME NEW allowed, NEW source \in SourceNames, NEW name \in NamesOf[source], NEW intent \in IntentNames
    PROVE  Agent!Permitted(allowed, name, intent) \in Proposals(source)
    BY DEF Agent!Permitted, ActionsOf, Proposals

\* What each source calls its actions.
LEMMA SourceNamesOf ==
    /\ NamesOf["aim"] = {"shoot", "aim_target"} /\ NamesOf["interaction"] = {"interact"}
    /\ NamesOf["meta_policy"] = {"reflex_action"} /\ NamesOf["movement"] = {"move_toward_target"}
    /\ NamesOf["strategy"] = {"stabilize_interaction", "explore_context"}
    BY DEF NamesOf, SourceNames

\* There are four specialists, and each proposes a bundle of its own.
LEMMA SpecialistsPropose ==
    ASSUME NEW objects, NEW wish, NEW allowed
    PROVE  \E m, a, i, s :
              /\ Agent!BuildSpecialistBundles(objects, wish, allowed) = {m, a, i, s}
              /\ Specialist(m, "movement") /\ Specialist(a, "aim")
              /\ Specialist(i, "interaction") /\ Specialist(s, "strategy")
<1>. DEFINE focus == Agent!SelectAttentionObject(objects)
            m == Agent!MovementAgent(objects, focus, wish, allowed)
            a == Agent!AimAgent(focus, wish, allowed)
            i == Agent!InteractionAgent(objects, focus, wish, allowed)
            s == Agent!StrategyAgent(focus, wish, allowed)
<1>1. Agent!BuildSpecialistBundles(objects, wish, allowed) = {m, a, i, s}
    BY DEF Agent!BuildSpecialistBundles
<1>. HIDE DEF focus
<1>3. "movement" \in SourceNames /\ "aim" \in SourceNames /\ "interaction" \in SourceNames /\ "strategy" \in SourceNames
    BY DEF SourceNames
<1>4. Specialist(m, "movement")
  <2>. DEFINE p == (IF Agent!IsMeaningfulGoal(wish) THEN 70 ELSE 55)
                       + (IF Agent!GoalTouchesObject(wish, objects[focus]) THEN 14 ELSE 0)
              actions == Agent!Permitted(allowed, "move_toward_target", "move")
  <2>1. p \in Int /\ p >= 45
      OBVIOUS
  <2>2. actions \in Proposals("movement")
      BY <1>3, PermittedOf, SourceNamesOf DEF IntentNames
  <2>3. m = Agent!Bundle("movement", focus, p, actions, FALSE, FALSE)
      BY DEF Agent!MovementAgent
  <2>. HIDE DEF p, actions, m
  <2>. QED
      BY <1>3, <2>1, <2>2, <2>3, SpecialistOf, Zenon
<1>5. Specialist(a, "aim")
  <2>. DEFINE shooting == wish.active /\ wish.text \cap {"shoot", "fire"} # {}
              p == (IF Agent!IsMeaningfulGoal(wish) THEN 64 ELSE 52) + (IF shooting THEN 18 ELSE 0)
              actions == IF shooting THEN Agent!Permitted(allowed, "shoot", "activate")
                                     ELSE Agent!Permitted(allowed, "aim_target", "select")
  <2>1. p \in Int /\ p >= 45
      OBVIOUS
  <2>2. actions \in Proposals("aim")
      BY <1>3, PermittedOf, SourceNamesOf DEF IntentNames
  <2>3. a = Agent!Bundle("aim", focus, p, actions, shooting, FALSE)
      BY DEF Agent!AimAgent
  <2>. HIDE DEF p, actions, a, shooting
  <2>. QED
      BY <1>3, <2>1, <2>2, <2>3, SpecialistOf, Zenon
<1>6. Specialist(i, "interaction")
  <2>. DEFINE p == (IF Agent!IsMeaningfulGoal(wish) THEN 72 ELSE 60)
                       + (IF allowed.execute /\ Agent!GoalTouchesObject(wish, objects[focus]) THEN 16 ELSE 0)
              actions == Agent!Permitted(allowed, "interact", Agent!PreferredIntent(wish))
  <2>1. p \in Int /\ p >= 45
      OBVIOUS
  <2>2. Agent!PreferredIntent(wish) \in IntentNames
      BY DEF Agent!PreferredIntent, IntentNames
  <2>3. actions \in Proposals("interaction")
      BY <1>3, <2>2, PermittedOf, SourceNamesOf
  <2>4. i = Agent!Bundle("interaction", focus, p, actions, FALSE, TRUE)
      BY DEF Agent!InteractionAgent
  <2>. HIDE DEF p, actions, i
  <2>. QED
      BY <1>3, <2>1, <2>3, <2>4, SpecialistOf, Zenon
<1>7. Specialist(s, "strategy")
  <2>. DEFINE p == IF Agent!IsMeaningfulGoal(wish) THEN 58 ELSE 45
              actions == IF Agent!IsMeaningfulGoal(wish) THEN Agent!Permitted(allowed, "stabilize_interaction", "select")
                                                         ELSE Agent!Permitted(allowed, "explore_context", "activate")
  <2>1. p \in Int /\ p >= 45
      OBVIOUS
  <2>2. actions \in Proposals("strategy")
      BY <1>3, PermittedOf, SourceNamesOf DEF IntentNames
  <2>3. s = Agent!Bundle("strategy", focus, p, actions, FALSE, FALSE)
      BY DEF Agent!StrategyAgent
  <2>. HIDE DEF p, actions, s
  <2>. QED
      BY <1>3, <2>1, <2>2, <2>3, SpecialistOf, Zenon
<1>. HIDE DEF m, a, i, s
<1>. QED
    BY <1>1, <1>4, <1>5, <1>6, <1>7

\* The agent's own bundle has no priority of its own.
LEMMA AgentProposes ==
    ASSUME NEW decided \in Decisions
    PROVE  /\ IsBundle(Agent!BuildBundleFromReflexDecision(decided))
           /\ Agent!BuildBundleFromReflexDecision(decided).source = "meta_policy"
<1>. DEFINE actions == IF decided.action = "" THEN <<>> ELSE << [name |-> "reflex_action", intent |-> decided.action] >>
            source == "meta_policy"
            target == decided.object
            priority == decided.priority
            no == FALSE
<1>1. decided.priority \in Int
  <2>. DEFINE P == 0..100
  <2>1. decided.priority \in P
    <3>. HIDE DEF P
    <3>1. decided \in [object : ScreenIds, type : Agent!Types, action : Meanings \cup {""}, label : Nat, priority : P,
                       exploratory : BOOLEAN, goalConditioned : BOOLEAN, executable : BOOLEAN]
        BY DEF Decisions, P
    <3>. QED
        BY <3>1
  <2>. QED
      BY <2>1
<1>2. decided.action = "" \/ decided.action \in IntentNames
    BY DEF Decisions, Meanings, IntentNames
<1>3. "meta_policy" \in SourceNames
    BY DEF SourceNames
<1>4. actions \in Proposals("meta_policy")
    BY <1>2, SourceNamesOf DEF ActionsOf, Proposals
<1>5. Agent!BuildBundleFromReflexDecision(decided) =
          Agent!Bundle(source, target, priority, actions, no, no)
    BY DEF Agent!BuildBundleFromReflexDecision
<1>6. source \in SourceNames /\ priority \in Int /\ actions \in Proposals(source)
    BY <1>1, <1>3, <1>4
<1>. DEFINE b == Agent!BuildBundleFromReflexDecision(decided)
<1>7. source = "meta_policy" /\ b = Agent!Bundle(source, target, priority, actions, no, no)
    BY <1>5
<1>. HIDE DEF actions, no, target, source, priority, b
<1>8. IsBundle(b) /\ b.source = source
    BY <1>6, <1>7, BundleOf
<1>. QED
    BY <1>7, <1>8 DEF b

\* A record with another priority.
LEMMA Raised ==
    ASSUME NEW source, NEW target, NEW p, NEW q, NEW discrete, NEW fire, NEW interact, NEW b,
           b = [source |-> source, target |-> target, priority |-> p,
                discrete |-> discrete, fire |-> fire, interact |-> interact]
    PROVE  [b EXCEPT !.priority = q] = [source |-> source, target |-> target, priority |-> q,
                                        discrete |-> discrete, fire |-> fire, interact |-> interact]
    OBVIOUS

\* Rivals that are strong enough, in their order, are a contest.
LEMMA RankedContest ==
    ASSUME NEW S, Rivals(S), Cardinality(S) \in {4, 5}, \A b \in S : b.priority \in 20..100, NEW t, Ranked(t, S)
    PROVE  Contest(t)
<1>1. /\ t \in Seq(S) /\ Len(t) = Cardinality(S)
      /\ \A i, j \in 1..Len(t) : i < j => Agent!Before(t[i], t[j])
    BY DEF Ranked
<1>2. /\ \A i \in 1..Len(t) : t[i] \in S
      /\ t = [i \in 1..Len(t) |-> t[i]] /\ Len(t) \in Nat
    BY <1>1
<1>3. \A i \in 1..Len(t) : IsBundle(t[i]) /\ t[i].priority \in 20..100
    BY <1>2 DEF Rivals
<1>4. ASSUME NEW i \in 1..Len(t), NEW j \in 1..Len(t), t[i].source = t[j].source PROVE i = j
  <2>1. t[i] = t[j] /\ t[i] \in S /\ t[j] \in S
      BY <1>2, <1>4 DEF Rivals
  <2>2. ~ (i < j) /\ ~ (j < i)
      BY <1>1, <2>1, BeforeOrders
  <2>. QED
      BY <2>2
<1>. QED
    BY <1>1, <1>2, <1>3, <1>4 DEF Contest

\* What the goal adds leaves a bundle as strong as it was or makes it stronger.
LEMMA RefinedOf ==
    ASSUME NEW wish, NEW b, IsBundle(b)
    PROVE  /\ IsBundle(Agent!Refined(wish, b)) /\ Agent!Refined(wish, b).source = b.source
           /\ Agent!Refined(wish, b).priority >= b.priority
<1>. DEFINE P == 0..100
            boost == IF ~Agent!IsMeaningfulGoal(wish) THEN 0
                     ELSE (IF b.source = "interaction" THEN 8 ELSE 0) + (IF Agent!Named(wish, b) THEN 10 ELSE 0)
            p == Agent!Limited(0, b.priority + boost, 100)
            r == Agent!Refined(wish, b)
<1>1. boost \in 0..18
    OBVIOUS
<1>2. r = IF b.priority < 5 THEN b ELSE [b EXCEPT !.priority = p]
    BY DEF Agent!Refined
<1>3. b.priority \in 0..100
    BY DEF IsBundle
<1>. HIDE DEF boost
<1>4. p \in 0..100 /\ p >= b.priority
  <2>. DEFINE q == b.priority
  <2>1. q \in 0..100
      BY <1>3
  <2>. HIDE DEF q
  <2>2. q + boost \in Int /\ q + boost >= q
      BY <1>1, <2>1
  <2>3. Agent!Limited(0, q + boost, 100) \in 0..100 /\ Agent!Limited(0, q + boost, 100) >= q
      BY <2>1, <2>2, PrioritiesLimited
  <2>. QED
      BY <2>3 DEF q
<1>. HIDE DEF p, r
<1>5. CASE b.priority < 5
  <2>1. r = b
      BY <1>2, <1>5
  <2>2. r.priority >= b.priority
      BY <1>3, <2>1
  <2>. QED
      BY <2>1, <2>2 DEF r
<1>6. CASE ~ (b.priority < 5)
  <2>1. r = [b EXCEPT !.priority = p]
      BY <1>2, <1>6
  <2>2. /\ b = [source |-> b.source, target |-> b.target, priority |-> b.priority,
                discrete |-> b.discrete, fire |-> b.fire, interact |-> b.interact]
        /\ b.source \in SourceNames /\ b.discrete \in Proposals(b.source)
      BY DEF IsBundle
  <2>3. r = [source |-> b.source, target |-> b.target, priority |-> p,
             discrete |-> b.discrete, fire |-> b.fire, interact |-> b.interact]
      BY <2>1, <2>2, Raised
  <2>4. r.source = b.source /\ r.priority = p /\ r.discrete = b.discrete /\ r.target = b.target /\ r.fire = b.fire
        /\ r.interact = b.interact
      BY <2>3
  <2>5. IsBundle(r)
      BY <1>4, <2>2, <2>3, <2>4 DEF IsBundle
  <2>6. r.priority >= b.priority
      BY <1>4, <2>4
  <2>. QED
      BY <2>4, <2>5, <2>6 DEF r
<1>. QED
    BY <1>5, <1>6

\* Four things.
LEMMA FourOf ==
    ASSUME NEW a, NEW b, NEW c, NEW d, a # b, a # c, a # d, b # c, b # d, c # d
    PROVE  IsFiniteSet({a, b, c, d}) /\ Cardinality({a, b, c, d}) = 4
<1>1. IsFiniteSet({a}) /\ Cardinality({a}) = 1
    BY FS_Singleton
<1>2. IsFiniteSet({a, b}) /\ Cardinality({a, b}) = 2
  <2>1. {a} \cup {b} = {a, b} /\ b \notin {a}
      OBVIOUS
  <2>2. IsFiniteSet({a} \cup {b}) /\ Cardinality({a} \cup {b}) = Cardinality({a}) + 1
      BY <1>1, <2>1, FS_AddElement
  <2>. QED
      BY <1>1, <2>1, <2>2
<1>3. IsFiniteSet({a, b, c}) /\ Cardinality({a, b, c}) = 3
  <2>1. {a, b} \cup {c} = {a, b, c} /\ c \notin {a, b}
      OBVIOUS
  <2>2. IsFiniteSet({a, b} \cup {c}) /\ Cardinality({a, b} \cup {c}) = Cardinality({a, b}) + 1
      BY <1>2, <2>1, FS_AddElement
  <2>. QED
      BY <1>2, <2>1, <2>2
<1>4. {a, b, c} \cup {d} = {a, b, c, d} /\ d \notin {a, b, c}
    OBVIOUS
<1>5. IsFiniteSet({a, b, c} \cup {d}) /\ Cardinality({a, b, c} \cup {d}) = Cardinality({a, b, c}) + 1
    BY <1>3, <1>4, FS_AddElement
<1>. QED
    BY <1>3, <1>4, <1>5

\* A frame plans the specialists' bundles, and the agent's if it is strong enough.
LEMMA FramePlanned ==
    ASSUME NEW objects, NEW wish, NEW allowed, NEW decided \in Decisions
    PROVE  Contest(Agent!Refine(wish, Agent!BuildSpecialistBundles(objects, wish, allowed)
                                          \cup {Agent!BuildBundleFromReflexDecision(decided)}))
<1>. DEFINE own == Agent!BuildBundleFromReflexDecision(decided)
            R(b) == Agent!Refined(wish, b)
<1>1. PICK m, a, i, s :
          /\ Agent!BuildSpecialistBundles(objects, wish, allowed) = {m, a, i, s}
          /\ Specialist(m, "movement") /\ Specialist(a, "aim")
          /\ Specialist(i, "interaction") /\ Specialist(s, "strategy")
    BY SpecialistsPropose
<1>2. IsBundle(own) /\ own.source = "meta_policy"
    BY AgentProposes
<1>. HIDE DEF own
<1>. DEFINE four == {R(m), R(a), R(i), R(s)}
            S == {b \in {R(b) : b \in {m, a, i, s} \cup {own}} : b.priority >= 20}
<1>3. ASSUME NEW b, NEW source, Specialist(b, source)
      PROVE  IsBundle(R(b)) /\ R(b).source = source /\ R(b).priority >= 20 /\ R(b).priority \in 20..100
  <2>1. IsBundle(R(b)) /\ R(b).source = b.source /\ R(b).priority >= b.priority /\ IsBundle(b)
      BY <1>3, RefinedOf DEF Specialist
  <2>2. R(b).priority \in 0..100 /\ b.priority \in 0..100
      BY <2>1 DEF IsBundle
  <2>3. b.priority >= 45 /\ b.source = source
      BY <1>3 DEF Specialist
  <2>4. R(b).priority >= 20 /\ R(b).priority \in 20..100
    <3>. DEFINE p == R(b).priority
                q == b.priority
    <3>1. p \in 0..100 /\ q \in 0..100 /\ p >= q /\ q >= 45
        BY <2>1, <2>2, <2>3
    <3>. HIDE DEF p, q
    <3>2. p >= 20 /\ p \in 20..100
        BY <3>1
    <3>. QED
        BY <3>2 DEF p
  <2>. QED
      BY <2>1, <2>3, <2>4
<1>4. IsBundle(R(own)) /\ R(own).source = "meta_policy"
    BY <1>2, RefinedOf
<1>5. /\ \A b \in four : IsBundle(b) /\ b.priority >= 20 /\ b.priority \in 20..100 /\ b.source # "meta_policy"
      /\ R(m).source = "movement" /\ R(a).source = "aim" /\ R(i).source = "interaction" /\ R(s).source = "strategy"
    BY <1>1, <1>3
<1>6. /\ IsFiniteSet(four) /\ Cardinality(four) = 4
      /\ \A b, c \in four : b.source = c.source => b = c
  <2>. HIDE DEF R
  <2>1. R(m) # R(a) /\ R(m) # R(i) /\ R(m) # R(s) /\ R(a) # R(i) /\ R(a) # R(s) /\ R(i) # R(s)
      BY <1>5
  <2>2. IsFiniteSet(four) /\ Cardinality(four) = 4
      BY <2>1, FourOf
  <2>3. \A b, c \in four : b.source = c.source => b = c
      BY <1>5
  <2>. QED
      BY <2>2, <2>3
<1>7. Agent!Refine(wish, Agent!BuildSpecialistBundles(objects, wish, allowed) \cup {own}) = Agent!Ordered(S)
    BY <1>1 DEF Agent!Refine
<1>8. S = four \cup {b \in {R(own)} : b.priority >= 20}
    BY <1>5
<1>. HIDE DEF R, S, four
<1>9. Rivals(S) /\ Cardinality(S) \in {4, 5} /\ \A b \in S : b.priority \in 20..100
  <2>1. R(own) \notin four
      BY <1>4, <1>5
  <2>2. CASE R(own).priority >= 20
    <3>1. S = four \cup {R(own)}
        BY <1>8, <2>2
    <3>2. IsFiniteSet(S) /\ Cardinality(S) = Cardinality(four) + 1
        BY <1>6, <2>1, <3>1, FS_AddElement
    <3>3. Cardinality(S) = 5
        BY <1>6, <3>2
    <3>4. \A b, c \in S : b.source = c.source => b = c
        BY <1>4, <1>5, <1>6, <3>1
    <3>5. R(own).priority \in 20..100
      <4>1. R(own).priority \in 0..100
          BY <1>4 DEF IsBundle
      <4>. DEFINE p == R(own).priority
      <4>2. p \in 0..100 /\ p >= 20
          BY <2>2, <4>1
      <4>. HIDE DEF p
      <4>3. p \in 20..100
          BY <4>2
      <4>. QED
          BY <4>3 DEF p
    <3>6. \A b \in S : IsBundle(b) /\ b.priority \in 20..100
        BY <1>4, <1>5, <3>1, <3>5
    <3>. QED
        BY <3>2, <3>3, <3>4, <3>6 DEF Rivals
  <2>3. CASE ~ (R(own).priority >= 20)
    <3>1. S = four
        BY <1>8, <2>3
    <3>. QED
        BY <1>5, <1>6, <3>1 DEF Rivals
  <2>. QED
      BY <2>2, <2>3
<1>10. Contest(Agent!Ordered(S))
    BY <1>9, OrderedRanked, RankedContest
<1>. QED
    BY <1>7, <1>10 DEF own

\* A preemption strengthens the first bundle, so that every bundle keeps its place.
LEMMA BoostOf ==
    ASSUME NEW planned, Contest(planned)
    PROVE  LET boosted == Agent!Boost(planned[1].source, planned)
           IN  /\ Contest(boosted) /\ Len(boosted) = Len(planned)
               /\ \A i \in 1..Len(planned) :
                     boosted[i].discrete = planned[i].discrete /\ boosted[i].target = planned[i].target
<1>. DEFINE n == Len(planned)
            first == planned[1]
            p == Agent!Limited(0, first.priority + 18, 100)
            boosted == Agent!Boost(first.source, planned)
            t == [i \in 1..n |-> IF i = 1 THEN [planned[1] EXCEPT !.priority = p] ELSE planned[i]]
            T == {t[i] : i \in 1..n}
<1>1. /\ n \in {4, 5} /\ planned = [i \in 1..n |-> planned[i]] /\ DOMAIN planned = 1..n
      /\ \A i \in 1..n : IsBundle(planned[i]) /\ planned[i].priority \in 20..100
      /\ \A i, j \in 1..n : planned[i].source = planned[j].source => i = j
      /\ \A i, j \in 1..n : i < j => Agent!Before(planned[i], planned[j])
    BY DEF Contest
<1>2. 1 \in 1..n /\ n \in Nat
    BY <1>1
<1>3. p \in 20..100 /\ p >= first.priority
  <2>. DEFINE q == first.priority
  <2>1. q \in 20..100
      BY <1>1, <1>2
  <2>. HIDE DEF q
  <2>2. Agent!Limited(0, q + 18, 100) \in 20..100 /\ Agent!Limited(0, q + 18, 100) >= q
      BY <2>1 DEF Agent!Limited
  <2>. QED
      BY <2>2 DEF q
<1>4. boosted = Agent!Ordered({IF planned[i].source = first.source THEN [planned[i] EXCEPT !.priority =
                                   Agent!Limited(0, @ + 18, 100)] ELSE planned[i] : i \in DOMAIN planned})
    BY DEF Agent!Boost
<1>. HIDE DEF n
<1>5. \A i \in 1..n : t[i] = IF planned[i].source = first.source
                             THEN [planned[i] EXCEPT !.priority = Agent!Limited(0, @ + 18, 100)] ELSE planned[i]
  <2>. SUFFICES ASSUME NEW i \in 1..n
                PROVE  t[i] = IF planned[i].source = first.source
                              THEN [planned[i] EXCEPT !.priority = Agent!Limited(0, @ + 18, 100)] ELSE planned[i]
      OBVIOUS
  <2>1. planned[i].source = first.source <=> i = 1
      BY <1>1, <1>2
  <2>. QED
      BY <2>1
<1>6. boosted = Agent!Ordered(T)
  <2>. DEFINE F(i) == IF planned[i].source = first.source
                      THEN [planned[i] EXCEPT !.priority = Agent!Limited(0, @ + 18, 100)] ELSE planned[i]
  <2>1. \A i \in 1..n : t[i] = F(i)
      BY <1>5
  <2>2. boosted = Agent!Ordered({F(i) : i \in DOMAIN planned}) /\ DOMAIN planned = 1..n
      BY <1>1, <1>4
  <2>. HIDE DEF F, t, boosted
  <2>3. {F(i) : i \in 1..n} = T
      BY <2>1
  <2>. QED
      BY <2>2, <2>3
<1>. HIDE DEF p, boosted
<1>7. \A i \in 1..n : /\ IsBundle(t[i]) /\ t[i].source = planned[i].source /\ t[i].priority \in 20..100
                      /\ t[i].discrete = planned[i].discrete /\ t[i].target = planned[i].target
                      /\ t[i].priority = IF i = 1 THEN p ELSE planned[i].priority
  <2>1. ASSUME NEW i \in 1..n, i # 1 PROVE t[i] = planned[i]
      BY <2>1
  <2>2. t[1] = [first EXCEPT !.priority = p]
      BY <1>2
  <2>3. /\ first = [source |-> first.source, target |-> first.target, priority |-> first.priority,
                    discrete |-> first.discrete, fire |-> first.fire, interact |-> first.interact]
        /\ first.source \in SourceNames /\ first.discrete \in Proposals(first.source)
      BY <1>1, <1>2 DEF IsBundle
  <2>. HIDE DEF t
  <2>. DEFINE r == t[1]
  <2>4. r = [source |-> first.source, target |-> first.target, priority |-> p,
             discrete |-> first.discrete, fire |-> first.fire, interact |-> first.interact]
      BY <2>2, <2>3, Raised
  <2>. HIDE DEF r
  <2>5. r.source = first.source /\ r.priority = p /\ r.discrete = first.discrete /\ r.target = first.target
        /\ r.fire = first.fire /\ r.interact = first.interact
      BY <2>4
  <2>6. p \in 0..100
      BY <1>3
  <2>7. IsBundle(r)
      BY <2>3, <2>4, <2>5, <2>6 DEF IsBundle
  <2>. QED
      BY <1>1, <1>3, <2>1, <2>5, <2>7 DEF r
<1>8. ASSUME NEW i \in 1..n, NEW j \in 1..n, i < j PROVE Agent!Before(t[i], t[j])
  <2>1. Agent!Before(planned[i], planned[j]) /\ j # 1
      BY <1>1, <1>8
  <2>2. t[j].source = planned[j].source /\ t[j].priority = planned[j].priority /\ t[i].source = planned[i].source
      BY <1>7, <2>1
  <2>. DEFINE a == t[i].priority
              b == planned[i].priority
              c == planned[j].priority
              x == Agent!SourceRank(planned[i].source)
              y == Agent!SourceRank(planned[j].source)
  <2>3. a \in 20..100 /\ b \in 20..100 /\ c \in 20..100 /\ a >= b
    <3>1. a \in 20..100 /\ b \in 20..100 /\ c \in 20..100
        BY <1>1, <1>7, <2>2
    <3>2. CASE i = 1
      <4>1. t[1].priority = p
          BY <1>2, <1>7
      <4>2. a = p /\ b = first.priority
          BY <3>2, <4>1
      <4>. HIDE DEF a, b
      <4>. QED
          BY <1>3, <3>1, <4>2
    <3>3. CASE i # 1
      <4>1. a = b
          BY <1>7, <3>3
      <4>. QED
          BY <3>1, <4>1
    <3>. QED
        BY <3>1, <3>2, <3>3
  <2>4. b > c \/ (b = c /\ x < y)
      BY <2>1 DEF Agent!Before
  <2>5. Agent!Before(t[i], t[j]) <=> (a > c \/ (a = c /\ x < y))
      BY <2>2 DEF Agent!Before
  <2>. HIDE DEF a, b, c, x, y
  <2>. QED
      BY <2>3, <2>4, <2>5
<1>9. /\ DOMAIN t = 1..n /\ t = [i \in 1..n |-> t[i]] /\ t \in [1..n -> T]
      /\ \A b \in T : \E i \in 1..n : t[i] = b
    OBVIOUS
<1>10. \A i, j \in 1..n : t[i].source = t[j].source => i = j
    BY <1>1, <1>7
<1>. HIDE DEF t, T
<1>11. t \in Seq(T) /\ Len(t) = n
    BY <1>2, <1>9, SeqDef
<1>12. IsFiniteSet(T) /\ Cardinality(T) = n
  <2>1. IsFiniteSet(1..n) /\ Cardinality(1..n) = n
      BY <1>2, FS_Interval
  <2>2. t \in Injection(1..n, T)
      BY <1>9, <1>10 DEF Injection, IsInjective
  <2>3. t \in Surjection(1..n, T)
      BY <1>9 DEF Surjection
  <2>. DEFINE D == 1..n
  <2>. HIDE DEF D
  <2>4. IsFiniteSet(D) /\ t \in Injection(D, T) /\ t \in Surjection(D, T)
      BY <2>1, <2>2, <2>3 DEF D
  <2>5. IsFiniteSet(T) /\ Cardinality(T) = Cardinality(D)
      BY <2>4, FS_Surjection
  <2>. QED
      BY <2>1, <2>5 DEF D
<1>13. Rivals(T)
  <2>1. \A b \in T : IsBundle(b)
      BY <1>7, <1>9
  <2>2. \A a, b \in T : a.source = b.source => a = b
      BY <1>9, <1>10
  <2>. QED
      BY <1>12, <2>1, <2>2 DEF Rivals
<1>14. Ranked(t, T)
    BY <1>8, <1>9, <1>11, <1>12 DEF Ranked
<1>15. boosted = t
    BY <1>6, <1>13, <1>14, RankedOnce
<1>16. Contest(t)
  <2>1. \A b \in T : b.priority \in 20..100
      BY <1>7, <1>9
  <2>. QED
      BY <1>1, <1>12, <1>13, <1>14, <2>1, RankedContest
<1>. QED
    BY <1>7, <1>11, <1>15, <1>16 DEF boosted, n

-----------------------------------------------------------------------------
\* The coordinator.

\* Lists of at most one action each.
Lists(D, n) ==
    /\ n \in Nat /\ DOMAIN D = 1..n
    /\ \A i \in 1..n : D[i] = <<>> \/ \E action \in AllActions : D[i] = <<action>>

\* The first of the first m lists that proposes an action of this kind is list i.
FirstOfKind(D, i) == D[i] # <<>> /\ \A j \in 1..i - 1 : D[j] # <<>> => D[j][1].intent # D[i][1].intent

\* Of each kind of action, the first of the first m lists is kept and no other.
FirstsKept(kept, D, m) ==
    /\ kept \in Seq(AllActions)
    /\ \A k, l \in 1..Len(kept) : kept[k].intent = kept[l].intent => k = l
    /\ \A i \in 1..m : D[i] # <<>> => \E k \in 1..Len(kept) : kept[k].intent = D[i][1].intent
    /\ \A k \in 1..Len(kept) : \E i \in 1..m : FirstOfKind(D, i) /\ kept[k] = D[i][1]

\* What resolving one list does.
LEMMA ResolveOne ==
    ASSUME NEW kept \in Seq(AllActions)
    PROVE  /\ Agent!Resolve(kept, <<>>) = kept
           /\ \A action \in AllActions : Agent!Resolve(kept, <<action>>) = Agent!Keep(kept, action)
<1>. DEFINE V == Seq(AllActions)
<1>1. Agent!Resolve(kept, <<>>) = kept
  <2>. DEFINE Folded(g) == g = [s \in SUBSET {} |->
                                IF s = {} THEN kept ELSE Agent!Keep(g[s \ {Max(s)}], <<>>[Max(s)])]
              iter == CHOOSE g : Folded(g)
              f == [s \in SUBSET {} |-> kept]
  <2>1. Agent!Resolve(kept, <<>>) = iter[{}]
    <3>1. DOMAIN <<>> = {}
        OBVIOUS
    <3>. QED
        BY <3>1 DEF Agent!Resolve, Agent!FoldLeft, Agent!MapThenFoldSet, Agent!Max, Max
  <2>2. SUBSET {} = {{}}
      OBVIOUS
  <2>3. Folded(f)
      BY <2>2
  <2>4. Folded(iter)
    <3>. HIDE DEF Folded
    <3>. QED
        BY <2>3
  <2>5. iter[{}] = kept
      BY <2>4
  <2>. QED
      BY <2>1, <2>5
<1>2. ASSUME NEW action \in AllActions PROVE Agent!Resolve(kept, <<action>>) = Agent!Keep(kept, action)
  <2>. DEFINE D == DOMAIN <<action>>
              Folded(g) == g = [s \in SUBSET D |->
                                IF s = {} THEN kept ELSE Agent!Keep(g[s \ {Max(s)}], <<action>>[Max(s)])]
              iter == CHOOSE g : Folded(g)
              f == [s \in SUBSET {1} |-> IF s = {} THEN kept ELSE Agent!Keep(kept, action)]
  <2>1. Agent!Resolve(kept, <<action>>) = iter[D]
      BY DEF Agent!Resolve, Agent!FoldLeft, Agent!MapThenFoldSet, Agent!Max, Max
  <2>2. D = {1} /\ <<action>>[1] = action /\ SUBSET D = {{}, {1}}
      OBVIOUS
  <2>3. Max({1}) = 1 /\ {1} \ {1} = {}
    <3>1. 1 \in Nat /\ {1} \in SUBSET (1..1) /\ {1} # {}
        OBVIOUS
    <3>2. Max({1}) \in {1}
        BY <3>1, LargestNumber
    <3>. QED
        BY <3>2
  <2>. HIDE DEF D
  <2>4. Folded(f)
    <3>1. \A s \in SUBSET D : f[s] = IF s = {} THEN kept ELSE Agent!Keep(f[s \ {Max(s)}], <<action>>[Max(s)])
      <4>1. f[{}] = kept /\ f[{1}] = Agent!Keep(kept, action)
          OBVIOUS
      <4>2. Agent!Keep(f[{1} \ {Max({1})}], <<action>>[Max({1})]) = Agent!Keep(kept, action)
          BY <2>2, <2>3, <4>1
      <4>. HIDE DEF f
      <4>. QED
          BY <2>2, <4>1, <4>2
    <3>2. f = [s \in SUBSET D |-> f[s]]
        BY <2>2
    <3>. HIDE DEF f
    <3>. QED
        BY <3>1, <3>2
  <2>5. Folded(iter)
    <3>. HIDE DEF Folded
    <3>. QED
        BY <2>4
  <2>6. {} \in SUBSET D /\ {1} \in SUBSET D
      BY <2>2
  <2>. HIDE DEF iter
  <2>7. iter[{}] = kept
      BY <2>5, <2>6
  <2>8. iter[{1}] = Agent!Keep(iter[{1} \ {Max({1})}], <<action>>[Max({1})])
      BY <2>5, <2>6
  <2>. QED
      BY <2>1, <2>2, <2>3, <2>7, <2>8
<1>. QED
    BY <1>1, <1>2

\* One more list keeps the firsts.
LEMMA FirstsResolved ==
    ASSUME NEW D, NEW n, Lists(D, n), NEW m \in Nat, m + 1 <= n, NEW kept, FirstsKept(kept, D, m)
    PROVE  FirstsKept(Agent!Resolve(kept, D[m + 1]), D, m + 1)
<1>. DEFINE after == Agent!Resolve(kept, D[m + 1])
<1>1. kept \in Seq(AllActions) /\ Len(kept) \in Nat
    BY DEF FirstsKept
<1>2. m + 1 \in 1..n /\ n \in Nat /\ \A i \in 1..m + 1 : i \in 1..m \/ i = m + 1
    BY DEF Lists
<1>3. CASE D[m + 1] = <<>>
  <2>1. after = kept
      BY <1>1, <1>3, ResolveOne
  <2>2. ASSUME NEW i \in 1..m + 1, D[i] # <<>> PROVE \E k \in 1..Len(kept) : kept[k].intent = D[i][1].intent
      BY <1>2, <1>3, <2>2 DEF FirstsKept
  <2>3. ASSUME NEW k \in 1..Len(kept) PROVE \E i \in 1..m + 1 : FirstOfKind(D, i) /\ kept[k] = D[i][1]
    <3>1. PICK i \in 1..m : FirstOfKind(D, i) /\ kept[k] = D[i][1]
        BY DEF FirstsKept
    <3>2. i \in 1..m + 1
        OBVIOUS
    <3>. QED
        BY <3>1, <3>2
  <2>. HIDE DEF after
  <2>. QED
      BY <2>1, <2>2, <2>3 DEF FirstsKept, after
<1>4. ASSUME NEW action \in AllActions, D[m + 1] = <<action>> PROVE FirstsKept(after, D, m + 1)
  <2>1. after = Agent!Keep(kept, action)
      BY <1>1, <1>4, ResolveOne
  <2>2. D[m + 1] # <<>> /\ D[m + 1][1] = action
      BY <1>4
  <2>3. DOMAIN kept = 1..Len(kept)
      BY <1>1
  <2>. HIDE DEF after
  <2>4. CASE \E k \in 1..Len(kept) : action.intent = kept[k].intent
    <3>1. after = kept
        BY <2>1, <2>3, <2>4 DEF Agent!Keep, Agent!IsConflictingAction
    <3>2. ASSUME NEW i \in 1..m + 1, D[i] # <<>> PROVE \E k \in 1..Len(kept) : kept[k].intent = D[i][1].intent
      <4>1. CASE i \in 1..m
          BY <3>2, <4>1 DEF FirstsKept
      <4>2. CASE i = m + 1
          BY <2>2, <2>4, <4>2
      <4>. QED
          BY <1>2, <4>1, <4>2
    <3>3. ASSUME NEW k \in 1..Len(kept) PROVE \E i \in 1..m + 1 : FirstOfKind(D, i) /\ kept[k] = D[i][1]
      <4>1. PICK i \in 1..m : FirstOfKind(D, i) /\ kept[k] = D[i][1]
          BY DEF FirstsKept
      <4>2. i \in 1..m + 1
          OBVIOUS
      <4>. QED
          BY <4>1, <4>2
    <3>. QED
        BY <3>1, <3>2, <3>3, SMTT(30) DEF FirstsKept
  <2>5. CASE ~ \E k \in 1..Len(kept) : action.intent = kept[k].intent
    <3>1. after = Append(kept, action)
        BY <2>1, <2>3, <2>5 DEF Agent!Keep, Agent!IsConflictingAction
    <3>2. /\ after \in Seq(AllActions) /\ Len(after) = Len(kept) + 1 /\ after[Len(kept) + 1] = action
          /\ \A k \in 1..Len(kept) : after[k] = kept[k]
        BY <1>1, <1>4, <3>1
    <3>3. \A k \in 1..Len(after) : k \in 1..Len(kept) \/ k = Len(kept) + 1
        BY <1>1, <3>2
    <3>4. FirstOfKind(D, m + 1)
      <4>1. ASSUME NEW j \in 1..(m + 1) - 1, D[j] # <<>> PROVE D[j][1].intent # D[m + 1][1].intent
        <5>1. j \in 1..m
            OBVIOUS
        <5>2. PICK k \in 1..Len(kept) : kept[k].intent = D[j][1].intent
            BY <4>1, <5>1 DEF FirstsKept
        <5>. QED
            BY <2>2, <2>5, <5>2
      <4>. QED
          BY <2>2, <4>1 DEF FirstOfKind
    <3>5. ASSUME NEW k \in 1..Len(after), NEW l \in 1..Len(after), after[k].intent = after[l].intent PROVE k = l
      <4>1. \A x, y \in 1..Len(kept) : kept[x].intent = kept[y].intent => x = y
          BY DEF FirstsKept
      <4>2. CASE k \in 1..Len(kept) /\ l \in 1..Len(kept)
          BY <3>2, <3>5, <4>1, <4>2
      <4>3. CASE k \in 1..Len(kept) /\ l = Len(kept) + 1
          BY <2>5, <3>2, <3>5, <4>3
      <4>4. CASE k = Len(kept) + 1 /\ l \in 1..Len(kept)
          BY <2>5, <3>2, <3>5, <4>4
      <4>. QED
          BY <3>3, <4>2, <4>3, <4>4
    <3>6. Len(kept) + 1 \in 1..Len(after) /\ \A k \in 1..Len(kept) : k \in 1..Len(after)
        BY <1>1, <3>2
    <3>7. ASSUME NEW i \in 1..m + 1, D[i] # <<>> PROVE \E k \in 1..Len(after) : after[k].intent = D[i][1].intent
      <4>1. CASE i \in 1..m
        <5>1. PICK k \in 1..Len(kept) : kept[k].intent = D[i][1].intent
            BY <3>7, <4>1 DEF FirstsKept
        <5>. QED
            BY <3>2, <3>6, <5>1
      <4>2. CASE i = m + 1
          BY <2>2, <3>2, <3>6, <4>2
      <4>. QED
          BY <1>2, <4>1, <4>2
    <3>8. ASSUME NEW k \in 1..Len(after) PROVE \E i \in 1..m + 1 : FirstOfKind(D, i) /\ after[k] = D[i][1]
      <4>1. CASE k \in 1..Len(kept)
        <5>1. PICK i \in 1..m : FirstOfKind(D, i) /\ kept[k] = D[i][1]
            BY <4>1 DEF FirstsKept
        <5>2. i \in 1..m + 1 /\ after[k] = kept[k]
            BY <3>2, <4>1
        <5>. QED
            BY <5>1, <5>2
      <4>2. CASE k = Len(kept) + 1
        <5>1. m + 1 \in 1..m + 1
            OBVIOUS
        <5>. QED
            BY <2>2, <3>2, <3>4, <4>2, <5>1
      <4>. QED
          BY <3>3, <4>1, <4>2
    <3>. QED
        BY <3>2, <3>5, <3>7, <3>8 DEF FirstsKept
  <2>. QED
      BY <2>4, <2>5
<1>5. D[m + 1] = <<>> \/ \E action \in AllActions : D[m + 1] = <<action>>
    BY <1>2 DEF Lists
<1>. QED
    BY <1>3, <1>4, <1>5

\* The coordinator keeps of each kind of action the first that is proposed.
LEMMA FirstsCoordinated ==
    ASSUME NEW D, NEW n, Lists(D, n)
    PROVE  FirstsKept(Agent!FoldLeft(Agent!Resolve, <<>>, D), D, n)
<1>. DEFINE V == Seq(AllActions)
            I == 1..n
            c == [s \in SUBSET I |-> Max(s)]
            h == [i \in I |-> [v \in V |-> Agent!Resolve(v, D[i])]]
            Folded(g) == g = [s \in SUBSET I |->
                                IF s = {} THEN <<>> ELSE Agent!Resolve(g[s \ {Max(s)}], D[Max(s)])]
            iter == CHOOSE g : Folded(g)
            b == <<>>
<1>1. n \in Nat /\ DOMAIN D = I /\ IsFiniteSet(I)
    BY FS_Interval DEF Lists
<1>2. \A s \in SUBSET I : c[s] = Max(s) /\ (s # {} => c[s] \in s)
    BY <1>1, LargestNumber
<1>3. h \in [I -> [V -> V]] /\ b \in V
  <2>1. ASSUME NEW i \in I, NEW v \in V PROVE Agent!Resolve(v, D[i]) \in V
    <3>1. D[i] = <<>> \/ \E action \in AllActions : D[i] = <<action>>
        BY DEF Lists
    <3>2. Agent!Resolve(v, <<>>) \in V
        BY ResolveOne
    <3>3. ASSUME NEW action \in AllActions PROVE Agent!Resolve(v, <<action>>) \in V
      <4>1. Agent!Keep(v, action) \in V
          BY DEF Agent!Keep
      <4>. QED
          BY <4>1, ResolveOne
    <3>. QED
        BY <3>1, <3>2, <3>3
  <2>. QED
      BY <2>1
<1>4. Agent!FoldLeft(Agent!Resolve, <<>>, D) = iter[I]
  <2>1. Agent!FoldLeft(Agent!Resolve, <<>>, D) = (CHOOSE g : g = [s \in SUBSET (DOMAIN D) |->
                                IF s = {} THEN <<>> ELSE Agent!Resolve(g[s \ {Max(s)}], D[Max(s)])])[DOMAIN D]
      BY DEF Agent!FoldLeft, Agent!MapThenFoldSet, Agent!Max, Max
  <2>. QED
      BY <1>1, <2>1
<1>. HIDE DEF c, h, b, I
<1>5. PICK f : Unfolds(f, I, V, b, h, c)
    BY <1>1, <1>2, <1>3, SubsetRecursion, Zenon
<1>6. Folded(f)
  <2>1. ASSUME NEW s \in SUBSET I, s # {} PROVE f[s] = Agent!Resolve(f[s \ {Max(s)}], D[Max(s)])
    <3>1. Max(s) \in I /\ f[s \ {Max(s)}] \in V /\ f[s] = h[Max(s)][f[s \ {Max(s)}]]
        BY <1>2, <1>5, <2>1 DEF Unfolds
    <3>. QED
        BY <3>1 DEF h
  <2>2. f = [s \in SUBSET I |-> f[s]] /\ f[{}] = <<>>
      BY <1>5 DEF Unfolds, b
  <2>. QED
      BY <2>1, <2>2
<1>7. Folded(iter)
  <2>. HIDE DEF Folded
  <2>. QED
      BY <1>6
<1>. DEFINE S == {m \in Nat : m <= n => FirstsKept(iter[1..m], D, m)}
<1>8. 0 \in S
  <2>1. 1..0 = {} /\ {} \in SUBSET I
      OBVIOUS
  <2>2. iter[1..0] = <<>>
      BY <1>7, <2>1
  <2>3. FirstsKept(<<>>, D, 0)
      BY DEF FirstsKept
  <2>. QED
      BY <2>2, <2>3
<1>9. ASSUME NEW m \in Nat, m \in S PROVE m + 1 \in S
  <2>. SUFFICES ASSUME m + 1 <= n
                PROVE  FirstsKept(iter[1..m + 1], D, m + 1)
      OBVIOUS
  <2>1. 1..m + 1 \in SUBSET I /\ 1..m + 1 # {} /\ m <= n
    <3>1. \A x \in 1..m + 1 : x \in 1..n
        BY <1>1
    <3>2. m + 1 \in 1..m + 1 /\ m <= n
        BY <1>1
    <3>. QED
        BY <3>1, <3>2 DEF I
  <2>2. Max(1..m + 1) = m + 1
      BY LargestOfFirst
  <2>3. (1..m + 1) \ {m + 1} = 1..m
      OBVIOUS
  <2>4. iter[1..m + 1] = Agent!Resolve(iter[1..m], D[m + 1])
    <3>1. iter[1..m + 1] = Agent!Resolve(iter[(1..m + 1) \ {Max(1..m + 1)}], D[Max(1..m + 1)])
      <4>. DEFINE s == 1..m + 1
      <4>1. s \in SUBSET I /\ s # {}
          BY <2>1
      <4>. HIDE DEF s
      <4>2. iter[s] = Agent!Resolve(iter[s \ {Max(s)}], D[Max(s)])
          BY <1>7, <4>1
      <4>. QED
          BY <4>2 DEF s
    <3>. QED
        BY <2>2, <2>3, <3>1
  <2>5. FirstsKept(iter[1..m], D, m)
      BY <1>9, <2>1
  <2>. HIDE DEF iter
  <2>. QED
      BY <2>4, <2>5, FirstsResolved
<1>10. n \in S
  <2>. HIDE DEF S
  <2>. QED
      BY <1>1, <1>8, <1>9, SetInduction
<1>. QED
    BY <1>1, <1>4, <1>10 DEF I

-----------------------------------------------------------------------------
\* The decision provider, frame by frame.

\* What a preemption left of what was planned.
SamePlan(boosted, planned) ==
    /\ Contest(boosted) /\ Contest(planned) /\ Len(boosted) = Len(planned)
    /\ \A i \in 1..Len(planned) :
          boosted[i].discrete = planned[i].discrete /\ boosted[i].target = planned[i].target

PlanningInv ==
    /\ previousCursor \in Agent!Boxes \cup {<<>>}
    /\ Between(failureBias, 0, 90) /\ Between(adjustments, -30, 30)
    /\ frames \in 0..KDecided /\ pending \subseteq frame.intents
    /\ \/ frame.planned = <<>> /\ frame.boosted = <<>>
       \/ SamePlan(frame.boosted, frame.planned)

\* An action tells who proposed it.
LEMMA ProposerOf ==
    ASSUME NEW s \in SourceNames, NEW t \in SourceNames, NEW action \in ActionsOf(s), action \in ActionsOf(t)
    PROVE  s = t
<1>1. action.name \in NamesOf[s] /\ action.name \in NamesOf[t]
    BY DEF ActionsOf
<1>. QED
    BY <1>1, SourceNamesOf DEF SourceNames

\* The lists of a contest.
LEMMA ContestLists ==
    ASSUME NEW planned, Contest(planned)
    PROVE  /\ Lists([i \in DOMAIN planned |-> planned[i].discrete], Len(planned))
           /\ Len(planned) \in Nat /\ DOMAIN planned = 1..Len(planned)
           /\ \A i \in 1..Len(planned) :
                 /\ planned[i].source \in SourceNames
                 /\ planned[i].discrete = <<>> \/ \E action \in ActionsOf(planned[i].source) : planned[i].discrete = <<action>>
<1>. DEFINE n == Len(planned)
            D == [i \in DOMAIN planned |-> planned[i].discrete]
<1>1. /\ n \in {4, 5} /\ planned = [i \in 1..n |-> planned[i]]
      /\ \A i \in 1..n : IsBundle(planned[i])
    BY DEF Contest
<1>2. n \in Nat /\ DOMAIN planned = 1..n
    BY <1>1
<1>. HIDE DEF n
<1>3. ASSUME NEW i \in 1..n
      PROVE  /\ planned[i].source \in SourceNames
             /\ planned[i].discrete = <<>> \/ \E action \in ActionsOf(planned[i].source) : planned[i].discrete = <<action>>
    BY <1>1 DEF IsBundle, Proposals
<1>4. DOMAIN D = 1..n /\ \A i \in 1..n : D[i] = planned[i].discrete
    BY <1>2
<1>. HIDE DEF D
<1>5. \A i \in 1..n : D[i] = <<>> \/ \E action \in AllActions : D[i] = <<action>>
    BY <1>3, <1>4 DEF AllActions
<1>. QED
    BY <1>2, <1>3, <1>4, <1>5 DEF Lists, D, n

\* Who is first in its kind wins, and nobody else.
LEMMA ContestWon ==
    ASSUME Contest(frame.boosted)
    PROVE  Agent!BestBundleWins
<1>. DEFINE b == frame.boosted
            n == Len(b)
            D == [i \in DOMAIN b |-> b[i].discrete]
            kept == Agent!Coordinate(b)
            proposing(intent) == {i \in DOMAIN b : \E k \in DOMAIN b[i].discrete : b[i].discrete[k].intent = intent}
<1>1. /\ Lists(D, n) /\ n \in Nat /\ DOMAIN b = 1..n
      /\ \A i \in 1..n :
            /\ b[i].source \in SourceNames
            /\ b[i].discrete = <<>> \/ \E action \in ActionsOf(b[i].source) : b[i].discrete = <<action>>
      /\ \A i, j \in 1..n : b[i].source = b[j].source => i = j
    BY ContestLists DEF Contest
<1>2. FirstsKept(kept, D, n)
  <2>1. kept = Agent!FoldLeft(Agent!Resolve, <<>>, D)
      BY DEF Agent!Coordinate
  <2>. QED
      BY <1>1, <2>1, FirstsCoordinated
<1>3. \A i \in 1..n : D[i] = b[i].discrete
    BY <1>1
<1>4. kept \in Seq(AllActions) /\ DOMAIN kept = 1..Len(kept) /\ Len(kept) \in Nat
    BY <1>2 DEF FirstsKept
<1>. HIDE DEF D, kept, n
<1>5. ASSUME NEW i \in 1..n, NEW a \in ActionsOf(b[i].source), b[i].discrete = <<a>>
      PROVE  /\ Cardinality({m \in DOMAIN kept : kept[m].intent = a.intent}) = 1
             /\ (\A j \in proposing(a.intent) : i <= j) <=> (\E m \in DOMAIN kept : kept[m] = a)
  <2>1. D[i] = <<a>> /\ D[i] # <<>> /\ D[i][1] = a
    <3>1. D[i] = <<a>>
        BY <1>3, <1>5
    <3>2. <<a>> # <<>> /\ <<a>>[1] = a
        OBVIOUS
    <3>. QED
        BY <3>1, <3>2
  <2>2. PICK k \in DOMAIN kept : kept[k].intent = a.intent
      BY <1>2, <1>4, <2>1 DEF FirstsKept
  <2>3. {m \in DOMAIN kept : kept[m].intent = a.intent} = {k}
      BY <1>2, <1>4, <2>2 DEF FirstsKept
  <2>4. Cardinality({k}) = 1
      BY FS_Singleton
  <2>5. \A j \in 1..n : j \in proposing(a.intent) <=> D[j] # <<>> /\ D[j][1].intent = a.intent
    <3>1. ASSUME NEW j \in 1..n PROVE j \in proposing(a.intent) <=> D[j] # <<>> /\ D[j][1].intent = a.intent
      <4>1. CASE D[j] = <<>>
          BY <1>3, <4>1
      <4>2. ASSUME NEW x \in ActionsOf(b[j].source), D[j] = <<x>>
            PROVE  j \in proposing(a.intent) <=> D[j] # <<>> /\ D[j][1].intent = a.intent
        <5>1. DOMAIN b[j].discrete = {1} /\ b[j].discrete[1] = x /\ D[j][1] = x /\ D[j] # <<>> /\ j \in DOMAIN b
            BY <1>1, <1>3, <4>2
        <5>. QED
            BY <5>1
      <4>. QED
          BY <1>1, <1>3, <4>1, <4>2
    <3>. QED
        BY <3>1
  <2>6. \A j \in proposing(a.intent) : j \in 1..n
      BY <1>1
  <2>. HIDE DEF proposing
  <2>7. ASSUME NEW m \in DOMAIN kept, kept[m] = a PROVE \A j \in proposing(a.intent) : i <= j
    <3>1. PICK l \in 1..n : FirstOfKind(D, l) /\ a = D[l][1]
        BY <1>2, <1>4, <2>7 DEF FirstsKept
    <3>2. D[l] # <<>>
        BY <3>1 DEF FirstOfKind
    <3>3. PICK x \in ActionsOf(b[l].source) : b[l].discrete = <<x>>
        BY <1>1, <1>3, <3>2
    <3>4. a = x
        BY <1>3, <3>1, <3>3
    <3>5. b[l].source = b[i].source
        BY <1>1, <3>4, ProposerOf
    <3>6. l = i
        BY <1>1, <3>5
    <3>7. ASSUME NEW j \in proposing(a.intent), j < i PROVE FALSE
      <4>1. j \in 1..n /\ D[j] # <<>> /\ D[j][1].intent = a.intent
          BY <2>5, <2>6, <3>7
      <4>2. j \in 1..i - 1
          BY <1>1, <3>7, <4>1
      <4>. QED
          BY <2>1, <3>1, <3>6, <4>1, <4>2 DEF FirstOfKind
    <3>. QED
        BY <1>1, <2>6, <3>7
  <2>8. ASSUME \A j \in proposing(a.intent) : i <= j PROVE \E m \in DOMAIN kept : kept[m] = a
    <3>1. PICK l \in 1..n : FirstOfKind(D, l) /\ kept[k] = D[l][1]
        BY <1>2, <1>4, <2>2 DEF FirstsKept
    <3>2. D[l] # <<>> /\ D[l][1].intent = a.intent
        BY <2>2, <3>1 DEF FirstOfKind
    <3>3. i <= l
        BY <2>5, <2>8, <3>2
    <3>4. ASSUME i < l PROVE FALSE
      <4>1. i \in 1..l - 1
          BY <1>1, <3>4
      <4>. QED
          BY <2>1, <3>1, <3>2, <4>1 DEF FirstOfKind
    <3>5. i = l
        BY <1>1, <3>3, <3>4
    <3>. QED
        BY <2>1, <3>1, <3>5
  <2>. QED
      BY <2>3, <2>4, <2>7, <2>8
<1>6. ASSUME NEW i \in DOMAIN b, NEW k \in DOMAIN b[i].discrete
      PROVE  LET action == b[i].discrete[k]
             IN  /\ Cardinality({m \in DOMAIN kept : kept[m].intent = action.intent}) = 1
                 /\ (\A j \in proposing(action.intent) : i <= j) <=> (\E m \in DOMAIN kept : kept[m] = action)
  <2>1. PICK a \in ActionsOf(b[i].source) : b[i].discrete = <<a>>
      BY <1>1, <1>6
  <2>2. k = 1 /\ b[i].discrete[k] = a /\ i \in 1..n
      BY <1>1, <1>6, <2>1
  <2>. HIDE DEF proposing
  <2>. QED
      BY <1>5, <2>1, <2>2
<1>. QED
    BY <1>6 DEF Agent!BestBundleWins, Agent!Cardinality, Cardinality, kept

\* A preemption leaves the intents of a frame as they were.
LEMMA SamePlanResolved ==
    ASSUME SamePlan(frame.boosted, frame.planned)
    PROVE  Agent!PreemptionBoostsTheLeader
<1>. DEFINE b == frame.boosted
            p == frame.planned
<1>1. /\ Len(b) = Len(p) /\ DOMAIN b = 1..Len(b) /\ DOMAIN p = 1..Len(p) /\ Len(p) \in {4, 5}
      /\ \A i \in 1..Len(p) : b[i].discrete = p[i].discrete /\ b[i].target = p[i].target
    BY ContestLists DEF SamePlan, Contest
<1>2. [i \in DOMAIN b |-> b[i].discrete] = [i \in DOMAIN p |-> p[i].discrete]
    BY <1>1
<1>3. Agent!Coordinate(b) = Agent!Coordinate(p)
    BY <1>2 DEF Agent!Coordinate
<1>4. b # <<>> /\ p # <<>> /\ b[1].target = p[1].target
  <2>1. 1 \in DOMAIN b /\ 1 \in DOMAIN p
      BY <1>1
  <2>2. DOMAIN <<>> = {}
      OBVIOUS
  <2>3. b # <<>> /\ p # <<>>
      BY <2>1, <2>2
  <2>. QED
      BY <1>1, <2>1, <2>3
<1>5. Agent!PrimaryObject(b, decision) = Agent!PrimaryObject(p, decision)
    BY <1>4 DEF Agent!PrimaryObject
<1>. QED
    BY <1>3, <1>5 DEF Agent!PreemptionBoostsTheLeader

\* The provider's properties follow from the invariant.
LEMMA PlanningSafe ==
    ASSUME PlanningInv
    PROVE  Agent!UreTypeOK /\ Agent!BestBundleWins /\ Agent!PreemptionBoostsTheLeader
<1>1. pending \subseteq frame.intents /\ frames \in 0..KDecided
    BY DEF PlanningInv
<1>2. CASE frame.planned = <<>> /\ frame.boosted = <<>>
  <2>1. DOMAIN <<>> = {} /\ Len(<<>>) = 0
      OBVIOUS
  <2>2. Agent!UreTypeOK
      BY <1>1, <1>2, <2>1 DEF Agent!UreTypeOK
  <2>3. Agent!BestBundleWins
      BY <1>2, <2>1 DEF Agent!BestBundleWins
  <2>4. Agent!PreemptionBoostsTheLeader
      BY <1>2 DEF Agent!PreemptionBoostsTheLeader
  <2>. QED
      BY <2>2, <2>3, <2>4
<1>3. CASE SamePlan(frame.boosted, frame.planned)
  <2>1. Contest(frame.boosted) /\ Len(frame.boosted) = Len(frame.planned)
      BY <1>3 DEF SamePlan
  <2>2. /\ DOMAIN frame.boosted = 1..Len(frame.boosted) /\ Len(frame.boosted) \in {4, 5}
        /\ \A i \in 1..Len(frame.boosted) : frame.boosted[i].priority \in 20..100
      BY <2>1, ContestLists DEF Contest
  <2>3. Agent!UreTypeOK
      BY <1>1, <2>1, <2>2 DEF Agent!UreTypeOK
  <2>. QED
      BY <1>3, <2>1, <2>3, ContestWon, SamePlanResolved
<1>. QED
    BY <1>2, <1>3 DEF PlanningInv

\* A provider that decided nothing yet.
LEMMA PlanningBegins == Agent!UreInit => PlanningInv
<1>. SUFFICES ASSUME Agent!UreInit PROVE PlanningInv
    OBVIOUS
<1>1. previousCursor = <<>> /\ failureBias = <<>> /\ adjustments = <<>> /\ frames = 0 /\ pending = {}
    BY DEF Agent!UreInit, Agent!Init
<1>2. frame.planned = <<>> /\ frame.boosted = <<>>
    BY DEF Agent!UreInit
<1>3. KDecided \in Nat
    BY BoundsAssumption DEF Agent!CoordinationAssumption
<1>4. Between(failureBias, 0, 90) /\ Between(adjustments, -30, 30)
    BY <1>1, NoBias, TableBetween
<1>. QED
    BY <1>1, <1>2, <1>3, <1>4 DEF PlanningInv

\* What a frame plans is a contest, which a preemption leaves in its order.
LEMMA FrameKept ==
    ASSUME PlanningInv, NEW screen \in AllScreens, NEW wish \in AllGoals, Agent!UreDecide(screen, wish)
    PROVE  PlanningInv'
<1>. DEFINE objects == Agent!WorldObjects(screen)
<1>1. PICK allowed, decided, planned, boosted :
          /\ allowed.execute \in BOOLEAN
          /\ decided = Agent!Decided(objects, allowed, wish)
          /\ planned = Agent!Refine(wish, Agent!BuildSpecialistBundles(objects, wish, allowed)
                                              \cup {Agent!BuildBundleFromReflexDecision(decided)})
          /\ boosted = IF Agent!Preempts(wish, objects, decided, planned)
                       THEN Agent!Boost(Agent!Highest(planned).source, planned) ELSE planned
          /\ Agent!Remember(screen)
          /\ frame'.planned = planned /\ frame'.boosted = boosted /\ frame'.intents = pending'
  <2>. DEFINE Made(permitted, executeActions, found, allowed, decided, planned, boosted) ==
                /\ Agent!Remember(screen)
                /\ decision' = decided /\ safety' = allowed
                /\ centers' = DOMAIN found
                /\ pending' = (IF executeActions THEN Agent!IntentsOf(boosted, decided) ELSE {})
                /\ frame' = [planned |-> planned, boosted |-> boosted, intents |-> pending', permitted |-> permitted,
                             label |-> IF planned = <<>> THEN 0
                                       ELSE Agent!TargetLabel(planned[1].target, found[planned[1].target])]
              All(decided) == Agent!BuildBundleFromReflexDecision(decided)
              Whole(found, allowed, decided) ==
                Agent!Refine(wish, Agent!BuildSpecialistBundles(found, wish, allowed) \cup {All(decided)})
              After(found, decided, planned) ==
                IF Agent!Preempts(wish, found, decided, planned)
                THEN Agent!Boost(Agent!Highest(planned).source, planned) ELSE planned
  <2>1. PICK permitted \in BOOLEAN, executes \in BOOLEAN :
            \E found \in {objects}, allowed \in {[execute |-> permitted /\ executes, exploration |-> permitted]} :
            \E decided \in {Agent!Decided(found, allowed, wish)} :
            \E planned \in {Whole(found, allowed, decided)} : \E boosted \in {After(found, decided, planned)} :
                Made(permitted, executes, found, allowed, decided, planned, boosted)
      BY DEF Agent!UreDecide
  <2>. HIDE DEF Made, Whole, After
  <2>2. PICK found \in {objects}, allowed \in {[execute |-> permitted /\ executes, exploration |-> permitted]} :
            \E decided \in {Agent!Decided(found, allowed, wish)} :
            \E planned \in {Whole(found, allowed, decided)} : \E boosted \in {After(found, decided, planned)} :
                Made(permitted, executes, found, allowed, decided, planned, boosted)
      BY <2>1, Zenon
  <2>3. PICK decided \in {Agent!Decided(objects, allowed, wish)} :
            \E planned \in {Whole(objects, allowed, decided)} : \E boosted \in {After(objects, decided, planned)} :
                Made(permitted, executes, objects, allowed, decided, planned, boosted)
    <3>1. found = objects
        BY <2>2
    <3>. QED
        BY <2>2, <3>1
  <2>4. PICK planned \in {Whole(objects, allowed, decided)} : \E boosted \in {After(objects, decided, planned)} :
            Made(permitted, executes, objects, allowed, decided, planned, boosted)
      BY <2>3, Zenon
  <2>5. PICK boosted \in {After(objects, decided, planned)} :
            Made(permitted, executes, objects, allowed, decided, planned, boosted)
      BY <2>4, Zenon
  <2>6. Agent!Remember(screen) /\ frame'.planned = planned /\ frame'.boosted = boosted /\ frame'.intents = pending'
      BY <2>5 DEF Made
  <2>7. /\ decided = Agent!Decided(objects, allowed, wish)
        /\ planned = Agent!Refine(wish, Agent!BuildSpecialistBundles(objects, wish, allowed)
                                            \cup {Agent!BuildBundleFromReflexDecision(decided)})
        /\ boosted = IF Agent!Preempts(wish, objects, decided, planned)
                     THEN Agent!Boost(Agent!Highest(planned).source, planned) ELSE planned
      BY <2>3, <2>4, <2>5, Zenon DEF Whole, After
  <2>8. allowed.execute \in BOOLEAN
      BY <2>2
  <2>. DEFINE Concluded(a, d, p, b) ==
                /\ a.execute \in BOOLEAN
                /\ d = Agent!Decided(objects, a, wish)
                /\ p = Agent!Refine(wish, Agent!BuildSpecialistBundles(objects, wish, a)
                                              \cup {Agent!BuildBundleFromReflexDecision(d)})
                /\ b = IF Agent!Preempts(wish, objects, d, p)
                       THEN Agent!Boost(Agent!Highest(p).source, p) ELSE p
                /\ Agent!Remember(screen)
                /\ frame'.planned = p /\ frame'.boosted = b /\ frame'.intents = pending'
  <2>9. Concluded(allowed, decided, planned, boosted)
      BY <2>6, <2>7, <2>8, Zenon
  <2>10. \E a, d, p, b : Concluded(a, d, p, b)
    <3>. HIDE DEF Concluded
    <3>. QED
        BY <2>9, Zenon
  <2>. QED
      BY <2>10, Zenon
<1>2. frames < KDecided /\ frames' = frames + 1 /\ failureBias' = failureBias /\ adjustments' = adjustments
    BY DEF Agent!UreDecide
<1>3. previousCursor \in Agent!Boxes \cup {<<>>} /\ Between(failureBias, 0, 90) /\ Between(adjustments, -30, 30)
    BY DEF PlanningInv
<1>4. previousCursor' \in Agent!Boxes
  <2>1. screen[1] \in Agent!Items /\ previousCursor' = screen[1].box
      BY <1>1, AgentFacts DEF Agent!Remember, Agent!CursorId
  <2>. QED
      BY <2>1, ItemOf
<1>5. WorldOf(objects)
    BY <1>3, ScreenDescribed
<1>. HIDE DEF objects
<1>6. decided \in Decisions
  <2>1. Sound(Agent!Decided(objects, allowed, wish), allowed)
    <3>1. allowed.execute \in BOOLEAN
        BY <1>1
    <3>. QED
        BY <1>3, <1>5, <3>1, DecidedSound
  <2>. QED
      BY <1>1, <2>1 DEF Sound
<1>7. Contest(planned)
    BY <1>1, <1>6, FramePlanned
<1>8. SamePlan(boosted, planned)
    BY <1>1, <1>7, BoostOf DEF SamePlan, Agent!Highest
<1>9. frames' \in 0..KDecided
  <2>1. frames \in 0..KDecided /\ KDecided \in Nat
      BY BoundsAssumption DEF PlanningInv, Agent!CoordinationAssumption
  <2>. QED
      BY <1>2, <2>1
<1>. QED
    BY <1>1, <1>2, <1>3, <1>4, <1>8, <1>9 DEF PlanningInv

\* An outcome of an intent counts for no kind of object.
LEMMA ObservedKept ==
    ASSUME PlanningInv, Agent!UreObserve
    PROVE  PlanningInv'
<1>1. UNCHANGED <<previousCursor, frame, frames>> /\ pending' \subseteq pending
    BY DEF Agent!UreObserve
<1>2. Between(failureBias, 0, 90) /\ Between(adjustments, -30, 30)
    BY DEF PlanningInv
<1>3. \/ UNCHANGED <<failureBias, adjustments>>
      \/ \E entry : entry.success \in BOOLEAN /\ Agent!RecordExecutionOutcome(entry)
  <2>1. PICK intent \in pending, success \in BOOLEAN :
            \/ Agent!RecordExecutionOutcome([object |-> intent.object, type |-> "", action |-> intent.action,
                                             success |-> success])
            \/ UNCHANGED <<failureBias, adjustments>>
      BY DEF Agent!UreObserve
  <2>. DEFINE entry == [object |-> intent.object, type |-> "", action |-> intent.action, success |-> success]
  <2>2. entry.success \in BOOLEAN
      OBVIOUS
  <2>. HIDE DEF entry
  <2>3. Agent!RecordExecutionOutcome(entry) \/ UNCHANGED <<failureBias, adjustments>>
      BY <2>1 DEF entry
  <2>. QED
      BY <2>2, <2>3
<1>4. ASSUME NEW entry, entry.success \in BOOLEAN, Agent!RecordExecutionOutcome(entry)
      PROVE  Between(failureBias', 0, 90) /\ Between(adjustments', -30, 30)
  <2>. DEFINE key == [action |-> entry.action, object |-> entry.object]
              kind == [type |-> entry.type, action |-> entry.action]
              bias == Agent!Valued(failureBias, key)
              value == Agent!BiasAfter(bias, entry.success, 25, 10)
              a == Agent!Valued(adjustments, kind)
              after == Agent!AdjustmentAfter(a, entry.success, 2, 3)
  <2>1. /\ failureBias' = Agent!With(failureBias, key, value)
        /\ adjustments' = Agent!With(adjustments, kind, after)
      BY <1>4 DEF Agent!RecordExecutionOutcome
  <2>. HIDE DEF key, kind
  <2>2. bias \in 0..90 /\ a \in -30..30
      BY <1>2, ValuedBetween
  <2>. HIDE DEF bias, a
  <2>3. value \in 0..90 /\ after \in -30..30
      BY <2>2 DEF Agent!BiasAfter, Agent!AdjustmentAfter, Agent!Limited
  <2>. HIDE DEF value, after
  <2>4. Between(failureBias', 0, 90)
      BY <1>2, <2>1, <2>3 DEF Between, Agent!With
  <2>5. Between(adjustments', -30, 30)
      BY <1>2, <2>1, <2>3 DEF Between, Agent!With
  <2>. QED
      BY <2>4, <2>5
<1>5. Between(failureBias', 0, 90) /\ Between(adjustments', -30, 30)
    BY <1>2, <1>3, <1>4
<1>. QED
    BY <1>1, <1>5 DEF PlanningInv

\* Every step of the provider keeps its invariant.
LEMMA PlanningKept ==
    ASSUME PlanningInv, [Agent!UreNext]_(Agent!providerVars)
    PROVE  PlanningInv'
<1>1. CASE \E screen \in AllScreens, wish \in AllGoals : Agent!UreDecide(screen, wish)
    BY <1>1, FrameKept
<1>2. CASE Agent!UreObserve
    BY <1>2, ObservedKept
<1>3. CASE UNCHANGED Agent!providerVars
    BY <1>3 DEF Agent!providerVars, Agent!agentVars, PlanningInv
<1>. QED
    BY <1>1, <1>2, <1>3 DEF Agent!UreNext, AllGoals
-----------------------------------------------------------------------------
\* A behaviour of the reflex runtime is one of the part that moves, so it keeps that part's invariant.

LEMMA AgentMoves ==
    ASSUME part \in {"learning", "deciding"}, [Next]_vars
    PROVE  part' = part /\ [Agent!Next]_(Agent!vars)
<1>1. CASE AgentNext
  <2>1. Learning \/ Deciding
      BY <1>1 DEF AgentNext
  <2>2. NoWish \in {NoWish} \cup DecidedGoals \cup PlannedGoals
      OBVIOUS
  <2>. QED
      BY <1>1, <2>1, <2>2 DEF AgentNext, Learning, Deciding, AllScreens, Agent!Next
<1>2. CASE ServiceNext \/ SkillNext \/ UNCHANGED vars
    BY <1>2 DEF ServiceNext, SkillNext, vars, agentVars, Agent!vars
<1>. QED
    BY <1>1, <1>2 DEF Next

LEMMA PlanningMoves ==
    ASSUME part = "planning", [Next]_vars
    PROVE  part' = part /\ [Agent!UreNext]_(Agent!providerVars)
<1>1. CASE AgentNext
  <2>1. Planning
      BY <1>1 DEF AgentNext
  <2>. QED
      BY <1>1, <2>1 DEF AgentNext, Planning, AllScreens, Agent!UreNext
<1>2. CASE ServiceNext \/ SkillNext \/ UNCHANGED vars
    BY <1>2 DEF ServiceNext, SkillNext, vars, agentVars, Agent!providerVars, Agent!agentVars
<1>. QED
    BY <1>1, <1>2 DEF Next

LEMMA ServiceMoves ==
    ASSUME part = "service", [Next]_vars
    PROVE  part' = part /\ [Service!Next]_(Service!vars)
    BY DEF Next, AgentNext, ServiceNext, SkillNext, vars, serviceVars, Service!vars, Service!threads,
           Service!service, Service!memory, Service!runtime, Service!files, Service!meetings

LEMMA SkillsMove ==
    ASSUME part = "skills", [Next]_vars
    PROVE  part' = part /\ [Skills!Next]_(Skills!vars)
    BY DEF Next, AgentNext, ServiceNext, SkillNext, vars, skillVars, Skills!vars

LEMMA PartKept ==
    ASSUME [Next]_vars
    PROVE  part' = part
    BY DEF Next, AgentNext, ServiceNext, SkillNext, vars

-----------------------------------------------------------------------------
\* Each part keeps its own invariant.
PartInv ==
    /\ part \in {"learning", "deciding"} => AgentInv
    /\ part = "planning" => PlanningInv
    /\ part = "service" => ServiceInv /\ StoppingInv
    /\ part = "skills" => SkillInv

LEMMA PartsKept == Init /\ [][Next]_vars => []PartInv
<1>1. Init => PartInv
    BY AgentBegins, PlanningBegins, ServiceBegins, StoppingBegins, SkillsBegin DEF Init, PartInv, Agent!UreInit
<1>2. PartInv /\ [Next]_vars => PartInv'
  <2>. SUFFICES ASSUME PartInv, [Next]_vars
                PROVE  PartInv'
    OBVIOUS
  <2>1. part' = part
    BY PartKept
  <2>2. part = "service" => ServiceInv' /\ StoppingInv'
    BY ServiceMoves, ServiceKept, StoppingKept DEF PartInv
  <2>3. part = "skills" => SkillInv'
    BY SkillsMove, SkillsKept DEF PartInv
  <2>4. part \in {"learning", "deciding"} => AgentInv'
    BY AgentMoves, AgentKept DEF PartInv
  <2>5. part = "planning" => PlanningInv'
    BY PlanningMoves, PlanningKept DEF PartInv
  <2>. QED
    BY <2>1, <2>2, <2>3, <2>4, <2>5 DEF PartInv
<1>. QED
    BY <1>1, <1>2, PTL

\* Whoever writes the experience file and wherever the process ends, its outcomes are in the order
\* they were recorded in; at most one decision comes late. When all calls are served, the start or
\* stop that was carried through last has left the runtime, its provider and its observer installed or
\* none of them, unless it met its opposite on another connection; and a stop that met no other save
\* either has everything saved but for an outcome that was being reported: for any number of clients
\* (IntentApiServer's /ure/start, /ure/stop, /ure/goal and /control/stop, PersistUrePersistentState).
THEOREM ExperienceKept == Spec => []ExperienceInOrder
<1>1. PartInv => ExperienceInOrder
    BY ServiceSafe DEF PartInv, ExperienceInOrder
<1>. QED
    BY <1>1, PartsKept, PTL DEF Spec

\* The last outcome that is remembered of a choice counts, in the process that saw it as in one that
\* replayed the memory: after a success the bias is no more than 82, after a failure at least 16.
\* What the agent marks executable is permitted, and can be done to an object of that type; and no
\* objects of its world contain one another in a circle (UniversalReflexAgent::RecordExecutionOutcome,
\* RestoreExperience and Decide, WorldModelBuilder).
THEOREM OutcomesCount == Spec => []LastOutcomeCounts
<1>1. PartInv => LastOutcomeCounts
    BY AgentSafe DEF PartInv, LastOutcomeCounts
<1>. QED
    BY <1>1, PartsKept, PTL DEF Spec

\* Of the bundles of a frame that propose an action of the same kind, the one that is first by
\* priority and source makes the only intent of that kind; a preemption changes nothing of it, since
\* it strengthens the bundle that leads. At most five bundles are planned, none with a priority
\* below 20 (MicroPlanner::Refine, ActionCoordinator::Coordinate, UreDecisionProvider::Decide).
THEOREM BestWins == Spec => []BestBundleWins
<1>1. PartInv => BestBundleWins
    BY PlanningSafe DEF PartInv, BestBundleWins
<1>. QED
    BY <1>1, PartsKept, PTL DEF Spec
=============================================================================
