----------------------------- MODULE SkillMemory -----------------------------
(***************************************************************************)
(* The skills of the reflex runtime (SkillMemoryStore,                     *)
(* core/reflex/src/ReflexCoordination.cpp): what a frame coordinated and   *)
(* what became of it are recorded under the name of the bundle they came   *)
(* from, ranked for a goal, grouped under a strategy and kept in a file.   *)
(*                                                                         *)
(* Skills are numbered in the order of their names. A skill never has      *)
(* dependencies and always the category "primitive": nothing sets others.  *)
(***************************************************************************)
EXTENDS Integers, FiniteSets, SequencesExt

CONSTANTS
    KSkills,         \* sources of bundles, and the continuous controller
    Actions,
    Fragment,        \* what is read where the name of an action was cut
    Goals,           \* a goal is what it names: a set of skills and actions; none is active in {}
    KRanked,         \* 32 in the code: skills a ranking considers
    KMilestones,     \* 3 in the code: milestones of a strategy, and children of the root
    HierarchyLimit,  \* 16 in the code
    Sequences,       \* what a frame may coordinate
    Stored,          \* files that an earlier process may have left
    KRecords, KCrashes   \* bounds

LimitAssumption ==
    /\ {KSkills, KRanked, KMilestones, HierarchyLimit, KRecords, KCrashes} \subseteq Nat
    /\ HierarchyLimit > KMilestones /\ KMilestones > 0
    /\ Fragment \notin Actions
    /\ Sequences \subseteq Seq(Actions) /\ \A sequence \in Sequences : Len(sequence) \in 1..6

Names == 1..KSkills

VARIABLES
    skills,          \* [names recorded -> what is known of the skill]
    file,            \* the same, as it was saved
    saving,          \* Save has emptied the file and not written it
    saved,           \* what the last Save that ended has written
    pending,         \* intents of frames that have no outcome yet: <<name, action>>, a set
    coordinated,     \* [Names -> sequences that frames have coordinated]
    frames, outcomes, won,   \* [Names -> how many were recorded]
    touched,         \* the names that this process has recorded, a history variable
    strategy,        \* the last: [skills |-> milestones, nodes |-> the hierarchy shown with it]
    records, crashes

vars == <<skills, file, saving, saved, pending, coordinated, frames, outcomes, won, touched, strategy, records,
          crashes>>

Complexity(sequence) == IF Len(sequence) >= 6 THEN 2 ELSE IF Len(sequence) >= 3 THEN 1 ELSE 0

FramesFor(sequence) == 4 * (IF sequence = <<>> THEN 1 ELSE Len(sequence))

Unknown == [attempts |-> 0, successes |-> 0, sequence |-> <<>>, frames |-> 1, complexity |-> 0]

CountTwice(old, sequence, success) ==   \* variant
    [attempts |-> old.attempts + 1, successes |-> old.successes + (IF success THEN 2 ELSE 0),
     sequence |-> sequence, frames |-> FramesFor(sequence), complexity |-> Complexity(sequence)]

\* No sequence that is recorded is empty.
Updated(old, sequence, success) ==
    [attempts |-> old.attempts + 1, successes |-> old.successes + (IF success THEN 1 ELSE 0),
     sequence |-> sequence, frames |-> FramesFor(sequence), complexity |-> Complexity(sequence)]

Record(name, sequence, success) ==
    LET old == IF name \in DOMAIN skills THEN skills[name] ELSE Unknown
    IN /\ skills' = [n \in DOMAIN skills \cup {name} |->
                        IF n = name THEN Updated(old, sequence, success) ELSE skills[n]]
       /\ touched' = touched \cup {name}

-----------------------------------------------------------------------------
\* Rankings. Rates and scores are floats that the code tells apart by more than 0.0001; here they
\* are fractions, and of counts so small that those which differ do so by more. No skill has more
\* than 24 frames, so they are always worth the whole 0.12.

Differ(d, product) == 10000 * d > product \/ 10000 * (-d) > product

RateAbove(left, right) == left.successes * right.attempts - right.successes * left.attempts

\* SkillMemoryStore::Skills.
Before(known, m, n) ==
    LET d == RateAbove(known[m], known[n])
    IN IF Differ(d, known[m].attempts * known[n].attempts) THEN d > 0
       ELSE IF known[m].attempts # known[n].attempts THEN known[m].attempts > known[n].attempts
       ELSE m < n

Concerns(goal, known, n) == n \in goal \/ \E i \in DOMAIN known[n].sequence : known[n].sequence[i] \in goal

\* In thousandths, but for the rate.
Bonus(goal, known, n) ==
    (IF known[n].attempts * 15 < 180 THEN known[n].attempts * 15 ELSE 180)
    - 30 * known[n].complexity + 120 + (IF Concerns(goal, known, n) THEN 300 ELSE 0)

\* SkillMemoryStore::RankSkillsForGoal.
RankedBefore(goal, known, m, n) ==
    LET product == known[m].attempts * known[n].attempts
        d == 1000 * RateAbove(known[m], known[n]) + (Bonus(goal, known, m) - Bonus(goal, known, n)) * product
    IN IF Differ(d, 1000 * product) THEN d > 0 ELSE m < n

FirstOf(sequence, limit) == SubSeq(sequence, 1, IF Len(sequence) < limit THEN Len(sequence) ELSE limit)

Candidates(known, limit) ==
    FirstOf(SetToSortSeq(DOMAIN known, LAMBDA m, n : Before(known, m, n)), IF limit > KRanked THEN limit ELSE KRanked)

RankSkillsForGoal(goal, known, limit) ==
    FirstOf(SetToSortSeq(ToSet(Candidates(known, limit)), LAMBDA m, n : RankedBefore(goal, known, m, n)), limit)

Root == 0   \* strategy_root

BuildHierarchy(known, limit) ==
    LET nodes == SetToSortSeq(ToSet(RankSkillsForGoal({}, known, limit)), <)
        leaves == [i \in DOMAIN nodes |-> [id |-> nodes[i], children |-> <<>>]]
    IN IF Len(nodes) >= 2 /\ limit > 1
       THEN FirstOf(<<[id |-> Root, children |-> FirstOf(nodes, KMilestones)]>> \o leaves, limit)
       ELSE FirstOf(leaves, limit)

\* BuildTemporalStrategy: the goal's best skills; with none, one milestone that is not a skill.
Milestones(goal, ranked) == IF goal = {} THEN <<>> ELSE FirstOf(ranked, KMilestones)

-----------------------------------------------------------------------------

\* What Load makes of a line: complexity that is missing is computed from the sequence, and frames
\* that are missing are the one that a new Skill has.
Parsed(line) ==
    [line EXCEPT !.complexity = IF @ = 0 THEN Complexity(line.sequence) ELSE @,
                 !.frames = IF @ = 0 THEN 1 ELSE @]

Load(lines) == [n \in DOMAIN lines |-> Parsed(lines[n])]

\* In a file, complexity is that of the sequence or missing; frames may be missing or cut.
StoredAssumption ==
    \A lines \in Stored :
        /\ DOMAIN lines \subseteq Names
        /\ \A n \in DOMAIN lines :
              /\ lines[n] \in [attempts : Nat, successes : Nat, sequence : Seq(Actions \cup {Fragment}),
                               frames : Nat, complexity : 0..2]
              /\ lines[n].successes <= lines[n].attempts
              /\ lines[n].frames <= FramesFor(lines[n].sequence)
              /\ lines[n].complexity \in {0, Complexity(lines[n].sequence)}

Stat(n, counter) == IF n \in DOMAIN skills THEN skills[n][counter] ELSE 0

Init ==
    /\ file \in Stored /\ skills = Load(file) /\ saved = skills /\ saving = FALSE
    /\ pending = {} /\ coordinated = [n \in Names |-> IF n \in DOMAIN skills THEN {skills[n].sequence} ELSE {}]
    /\ outcomes = [n \in Names |-> Stat(n, "successes")] /\ won = outcomes
    /\ frames = [n \in Names |-> Stat(n, "attempts") - outcomes[n]]
    /\ strategy = [skills |-> <<>>, nodes |-> <<>>]
    /\ touched = {} /\ records = 0 /\ crashes = 0

\* A frame: the ranking and the hierarchy are read, the coordinated actions are recorded as one
\* failure before any is executed. Those that become intents are the runtime's affair.
Coordinate(name, sequence, goal) ==
    /\ ~saving /\ records < KRecords /\ records' = records + 1
    /\ strategy' = [skills |-> Milestones(goal, RankSkillsForGoal(goal, skills, 8)),
                    nodes |-> BuildHierarchy(skills, HierarchyLimit)]
    /\ Record(name, sequence, FALSE)
    /\ frames' = [frames EXCEPT ![name] = @ + 1]
    /\ coordinated' = [coordinated EXCEPT ![name] = @ \cup {sequence}]
    /\ pending' = pending \cup {<<name, action>> : action \in ToSet(sequence)}
    /\ UNCHANGED <<file, saving, saved, outcomes, won, crashes>>

\* An intent was executed: its action alone is recorded as the skill's sequence.
ObserveOutcome(name, action, success) ==
    /\ ~saving /\ records < KRecords /\ records' = records + 1 /\ <<name, action>> \in pending
    /\ pending' = pending \ {<<name, action>>}
    /\ Record(name, <<action>>, success)
    /\ outcomes' = [outcomes EXCEPT ![name] = @ + 1]
    /\ won' = [won EXCEPT ![name] = @ + (IF success THEN 1 ELSE 0)]
    /\ UNCHANGED <<file, saving, saved, coordinated, frames, strategy, crashes>>

\* Save holds the lock from the moment the file is emptied until it is written.
TruncateFile ==
    /\ ~saving /\ saved # skills
    /\ saving' = TRUE /\ file' = <<>>
    /\ UNCHANGED <<skills, saved, pending, coordinated, frames, outcomes, won, touched, strategy, records,
                   crashes>>

WriteFile ==
    /\ saving /\ saving' = FALSE
    /\ file' = skills /\ saved' = skills
    /\ UNCHANGED <<skills, pending, coordinated, frames, outcomes, won, touched, strategy, records, crashes>>

\* What a sequence begins with: actions, and one that was cut within its name.
Beginnings(sequence) ==
    LET starts == {SubSeq(sequence, 1, k) : k \in 0..Len(sequence)}
    IN starts \cup {Append(start, Fragment) : start \in starts}

\* A line that was written in part has its counts. It ends within the sequence, or within the numbers
\* behind it, of which the last is the frames and has two digits at most.
Torn(skill) ==
    {[skill EXCEPT !.sequence = left, !.frames = 0, !.complexity = 0] : left \in Beginnings(skill.sequence)}
    \cup {[skill EXCEPT !.frames = digits] : digits \in {0, skill.frames \div 10}}

Upto(known, n) == [m \in DOMAIN known \cap 1..n |-> known[m]]

Lost ==
    IF ~saving THEN {file}
    ELSE {Upto(skills, n) : n \in 0..KSkills}
         \cup UNION {{[Upto(skills, n) EXCEPT ![n] = line] : line \in Torn(skills[n])} : n \in DOMAIN skills}

\* The process ends and the next one loads the file.
Crash ==
    /\ crashes < KCrashes /\ crashes' = crashes + 1
    /\ \E lines \in Lost : file' = lines /\ skills' = Load(lines)
    /\ saved' = skills' /\ saving' = FALSE /\ pending' = {} /\ touched' = {}
    /\ strategy' = [skills |-> <<>>, nodes |-> <<>>]
    /\ UNCHANGED <<coordinated, frames, outcomes, won, records>>

Next ==
    \/ \E name \in Names, sequence \in Sequences, goal \in Goals : Coordinate(name, sequence, goal)
    \/ \E name \in Names, action \in Actions, success \in BOOLEAN : ObserveOutcome(name, action, success)
    \/ TruncateFile \/ WriteFile \/ Crash

Spec == Init /\ [][Next]_vars

-----------------------------------------------------------------------------
\* Through a restart, too, and whatever was lost of the file, the complexity of a skill is that of its
\* sequence; a cut line may leave it fewer frames, but never none.
TypeOK ==
    /\ DOMAIN skills \subseteq Names /\ DOMAIN file \subseteq Names
    /\ \A n \in DOMAIN skills :
          /\ skills[n].frames \in 1..FramesFor(skills[n].sequence)
          /\ skills[n].complexity = Complexity(skills[n].sequence)

\* What a cut line left wrong does not outlive the next record: the frames of a skill that the process
\* has recorded are those of its sequence, which was coordinated or observed as it stands.
RecordsRepair ==
    \A n \in touched \cap DOMAIN skills :
        /\ skills[n].frames = FramesFor(skills[n].sequence)
        /\ Fragment \notin ToSet(skills[n].sequence)

\* A skill counts no more attempts than frames and outcomes were recorded and no more successes
\* than were reported, and a process that lost nothing counts all of them.
CountsAddUp ==
    \A n \in DOMAIN skills :
        /\ skills[n].attempts <= frames[n] + outcomes[n]
        /\ skills[n].successes <= won[n]
        /\ crashes = 0 => skills[n].attempts = frames[n] + outcomes[n] /\ skills[n].successes = won[n]

\* The children of a listed node are listed with it, although the list is cut.
ChildrenAreListed ==
    \A i \in DOMAIN strategy.nodes : \A j \in DOMAIN strategy.nodes[i].children :
        \E k \in DOMAIN strategy.nodes : strategy.nodes[k].id = strategy.nodes[i].children[j]

\* docs/status.md: skills record bundle-level action sequences. The sequence of a skill is one that a
\* frame coordinated.
SequencesAreCoordinated == \A n \in DOMAIN skills : skills[n].sequence \in coordinated[n]
=============================================================================
