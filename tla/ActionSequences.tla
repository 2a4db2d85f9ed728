-------------------------- MODULE ActionSequences --------------------------
(***************************************************************************)
(* Sequences of actions: the language they are written in and MacroExecutor*)
(* (core/execution/src/ActionSequence.cpp), and the stream endpoint of the *)
(* API that runs or queues them (interface/api/src/IntentApiServer.cpp).   *)
(*                                                                         *)
(* A text is a sequence of raw steps. A raw step is its head, the          *)
(* expression of its action and of its alternative, a count, and its       *)
(* tokens; an expression is an action and the number of its arguments.     *)
(* Tokens are pairs <<key, value>>; a value that is no number is -1.       *)
(***************************************************************************)
EXTENDS Integers, FiniteSets, SequencesExt

CONSTANTS
    Texts,          \* sequences that clients send, in raw steps
    Templates,      \* single actions that clients send, with a repeat count
    KMaxRepeat      \* 128 in the code

VARIABLES
    sequence,       \* the parsed steps
    visible,        \* what the synchronized state shows, taken before the first step; none: {}
    pc,             \* "idle", "steps", "queueing", "done", "refused"
    mode,           \* "steps" or "queueing"
    step, repetition,
    results,        \* stepResults: [intent, required, success]
    queued,         \* steps handed to the control runtime
    stopRequested

vars == <<sequence, visible, pc, mode, step, repetition, results, queued, stopRequested>>

-----------------------------------------------------------------------------
\* The language.
Expression == [action : STRING, args : Nat]
RawStep ==
    [head : {"plain", "loop", "if_visible", "blank"}, target : STRING, expression : Expression,
     otherwise : Expression, count : Int, tokens : Seq(STRING \X Int)]

RequiredArgs == [activate |-> 2, select |-> 2, set_value |-> 3, create |-> 2, delete |-> 2, move |-> 3]

NoExpression == [action |-> "", args |-> 0]
BuildsIntent(expression) ==
    expression.action \in DOMAIN RequiredArgs /\ expression.args >= RequiredArgs[expression.action]

Clamped(count) == IF count > KMaxRepeat THEN KMaxRepeat ELSE count

\* ApplyStepToken: what it does not understand changes nothing.
ApplyStepToken(parsed, token) ==
    LET key == token[1]
        value == token[2]
    IN CASE key = "required" -> [parsed EXCEPT !.required = value # 0]
         [] key = "repeat" /\ value \in Nat \ {0} -> [parsed EXCEPT !.repeatCount = Clamped(value)]
         [] OTHER -> parsed

ParsedStep(raw) ==
    FoldLeft(ApplyStepToken,
             [condition |-> IF raw.head = "if_visible" THEN raw.target ELSE "",
              intent |-> raw.expression.action,
              else |-> IF raw.head = "if_visible" THEN raw.otherwise.action ELSE "",
              required |-> TRUE,
              repeatCount |-> IF raw.head = "loop" THEN Clamped(raw.count) ELSE 1],
             raw.tokens)

\* Each kind of step is refused for reasons of its own; an alternative may be left out.
Refused(raw) ==
    \/ ~BuildsIntent(raw.expression)
    \/ raw.head = "if_visible" /\ raw.otherwise # NoExpression /\ ~BuildsIntent(raw.otherwise)
    \/ raw.head = "loop" /\ raw.count \notin Nat \ {0}

Blank(raw) == raw.head = "blank"

\* The texts are of this language, and the endpoint has looked at what is to be repeated.
LanguageAssumption ==
    /\ KMaxRepeat \in Nat \ {0}
    /\ \A text \in Texts : text \in Seq(RawStep)
    /\ \A template \in Templates :
          template.action \in DOMAIN RequiredArgs /\ template.repeat \in 1..KMaxRepeat

\* ParseActionSequenceDsl: one bad step refuses the whole text, and so does a text without steps.
RefusedText(text) ==
    \/ \E i \in DOMAIN text : ~Blank(text[i]) /\ Refused(text[i])
    \/ \A i \in DOMAIN text : Blank(text[i])

\* A blank step leaves nothing behind.
ParsedText(text) ==
    FoldLeft(LAMBDA steps, raw : IF Blank(raw) THEN steps ELSE Append(steps, ParsedStep(raw)), <<>>, text)

\* BuildRepeatedSequence, of a client's count that ReadRepeatCount has bounded.
BuildRepeatedSequence(template) ==
    [i \in 1..template.repeat |-> [condition |-> "", intent |-> template.action, else |-> "",
                                   required |-> TRUE, repeatCount |-> 1]]

-----------------------------------------------------------------------------
\* The endpoint: it parses, then queues the steps in the control runtime or runs them against
\* the one state it has synchronized with.
Targets == UNION {{text[i].target : i \in DOMAIN text} : text \in Texts} \ {""}

Init ==
    /\ sequence = <<>> /\ visible = {}
    /\ pc = "idle" /\ mode = "steps" /\ step = 1 /\ repetition = 0
    /\ results = <<>> /\ queued = <<>> /\ stopRequested = FALSE

BeginIn(m) ==
    /\ pc' = m /\ mode' = m
    /\ visible' \in SUBSET Targets
    /\ UNCHANGED <<step, repetition, results, queued, stopRequested>>

Refuse ==
    /\ pc = "idle" /\ \E text \in Texts : RefusedText(text)
    /\ pc' = "refused"
    /\ UNCHANGED <<sequence, visible, mode, step, repetition, results, queued, stopRequested>>

Accept ==
    /\ pc = "idle"
    /\ \/ \E text \in Texts : ~RefusedText(text) /\ sequence' = ParsedText(text)
       \/ \E template \in Templates : sequence' = BuildRepeatedSequence(template)
    /\ \E m \in {"steps", "queueing"} : BeginIn(m)

\* Queued mode hands on the intent of each step: neither its condition nor its count.

EnqueueStep ==
    /\ pc = "queueing" /\ step <= Len(sequence)
    /\ \/ queued' = Append(queued, sequence[step].intent) /\ step' = step + 1 /\ UNCHANGED pc
       \/ pc' = "refused" /\ UNCHANGED <<queued, step>>      \* the runtime was stopped meanwhile
    /\ UNCHANGED <<sequence, visible, mode, repetition, results, stopRequested>>

EndQueue ==
    /\ pc = "queueing" /\ step > Len(sequence)
    /\ pc' = "done"
    /\ UNCHANGED <<sequence, visible, mode, step, repetition, results, queued, stopRequested>>

-----------------------------------------------------------------------------
\* MacroExecutor::Execute.
Selected(s) ==
    IF s.condition = "" \/ s.condition \in visible THEN s.intent ELSE s.else

Current == sequence[step]
AtStep == pc = "steps" /\ step <= Len(sequence) /\ ~stopRequested

Advance == step' = step + 1 /\ repetition' = 0

SkipStep ==
    /\ AtStep /\ Selected(Current) = ""
    /\ Advance
    /\ UNCHANGED <<sequence, visible, mode, pc, results, queued, stopRequested>>

StopsSequence(success) == ~success /\ Current.required

\* The engine runs the intent once. Both makers of sequences leave stopOnFailure set, so a failure
\* of a required step ends the sequence.
RunStepOnce ==   \* variant: a step is not repeated
    /\ AtStep /\ Selected(Current) # ""
    /\ \E success \in BOOLEAN :
          /\ results' = Append(results, [intent |-> Selected(Current), required |-> Current.required, success |-> success])
          /\ stopRequested' = StopsSequence(success)
    /\ Advance
    /\ UNCHANGED <<sequence, visible, mode, pc, queued>>

RunStep ==
    /\ AtStep /\ Selected(Current) # ""
    /\ \E success \in BOOLEAN :
          /\ results' = Append(results, [intent |-> Selected(Current), required |-> Current.required, success |-> success])
          /\ stopRequested' = StopsSequence(success)
    /\ IF repetition + 1 < Current.repeatCount /\ ~stopRequested'
       THEN repetition' = repetition + 1 /\ UNCHANGED step
       ELSE Advance
    /\ UNCHANGED <<sequence, visible, mode, pc, queued>>

Finish ==
    /\ pc = "steps" /\ (stopRequested \/ step > Len(sequence))
    /\ pc' = "done"
    /\ UNCHANGED <<sequence, visible, mode, step, repetition, results, queued, stopRequested>>

Next == Refuse \/ Accept \/ EnqueueStep \/ EndQueue \/ SkipStep \/ RunStep \/ Finish

Spec == Init /\ [][Next]_vars

\* The result.
AttemptedSteps == Len(results)
CompletedSteps == Cardinality({i \in DOMAIN results : results[i].success})
Success == AttemptedSteps = 0 \/ CompletedSteps = AttemptedSteps

-----------------------------------------------------------------------------
\* The variables have the types of the members they stand for, and every step that was parsed
\* can be run: it has an intent, and it is repeated at least once and at most KMaxRepeat times.
TypeOK ==
    /\ pc \in {"idle", "steps", "queueing", "done", "refused"}
    /\ step \in 1..Len(sequence) + 1 /\ stopRequested \in BOOLEAN
    /\ visible \subseteq Targets
    /\ \A i \in DOMAIN sequence :
          /\ sequence[i].intent \in DOMAIN RequiredArgs
          /\ sequence[i].repeatCount \in 1..KMaxRepeat
          /\ repetition < KMaxRepeat

\* What a sequence means: each step whose condition holds, or its alternative, as often as its
\* count says, in order.
Expansion ==
    FlattenSeq([i \in DOMAIN sequence |->
        IF Selected(sequence[i]) = "" THEN <<>>
        ELSE [k \in 1..sequence[i].repeatCount |-> Selected(sequence[i])]])

\* The steps that were run are the beginning of the expansion: all of it at the end, unless a
\* required step failed, which then was the last. A step that need not succeed stops nothing,
\* although its failure too makes the result one.
RunsTheExpansion ==
    /\ AttemptedSteps <= Len(Expansion)
    /\ \A i \in DOMAIN results :
          /\ results[i].intent = Expansion[i]
          /\ ~results[i].success /\ results[i].required => i = AttemptedSteps /\ stopRequested
    /\ stopRequested => ~Last(results).success /\ Last(results).required
    /\ pc = "done" /\ mode = "steps" /\ (Success \/ ~stopRequested) => AttemptedSteps = Len(Expansion)

\* In queued mode a sequence of plain steps means the same as when it is run at once.
QueuedAsWritten ==
    pc = "done" /\ mode = "queueing" /\ (\A i \in DOMAIN sequence : sequence[i].condition = "" /\ sequence[i].repeatCount = 1)
       => queued = Expansion
=============================================================================
