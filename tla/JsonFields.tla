----------------------------- MODULE JsonFields -----------------------------
(***************************************************************************)
(* How the request bodies of sequences and semantic goals are read         *)
(* (core/platform/src/PlatformLayer.cpp, and the same helpers and          *)
(* ParseActionRequestJson in core/action/src/ActionInterface.cpp): a field *)
(* is looked for as the first place where its quoted name occurs, be it a  *)
(* key or a value, at any depth.                                           *)
(*                                                                         *)
(* A body is a sequence of tokens: marks of punctuation and quoted         *)
(* strings. A string is the sequence of its words, read as it was written: *)
(* the escapes of the writer are those the reader undoes, and a quote that *)
(* is escaped does not end a string. White space is left out. What may be  *)
(* missing is a set of at most one value.                                  *)
(***************************************************************************)
EXTENDS Integers, FiniteSets, SequencesExt

Mark(sign) == <<"mark", sign>>
Str(words) == <<"string", words>>

First(S) == CHOOSE i \in S : \A j \in S : i <= j

\* The place of the value, when a colon and something follow the name where it first occurs.
ValueStart(payload, key) ==
    LET found == {i \in DOMAIN payload : payload[i] = Str(<<key>>)}
    IN {i \in {First(found) + 2 : f \in found} : i \in DOMAIN payload /\ payload[i - 1] = Mark(":")}

ExtractJsonStringField(payload, key) ==
    {payload[i][2] : i \in {v \in ValueStart(payload, key) : payload[v][1] = "string"}}

Count(payload, from, to, sign) == Cardinality({i \in from..to : payload[i] = Mark(sign)})

FirstClosed(payload, from, open, close) ==   \* variant: up to the first mark that closes
    LET ends == {i \in from..Len(payload) : payload[i] = Mark(close)}
    IN IF payload[from] # Mark(open) \/ ends = {} THEN {} ELSE {SubSeq(payload, from, First(ends))}

\* What begins at "from" with an opening mark, up to the mark that closes it.
Bracketed(payload, from, open, close) ==
    LET ends == {i \in from..Len(payload) :
                    Count(payload, from, i, open) = Count(payload, from, i, close)}
    IN IF payload[from] # Mark(open) \/ ends = {} THEN {} ELSE {SubSeq(payload, from, First(ends))}

ExtractJsonObjectField(payload, key) ==
    UNION {Bracketed(payload, v, "{", "}") : v \in ValueStart(payload, key)}

ExtractJsonArrayField(payload, key) ==
    UNION {Bracketed(payload, v, "[", "]") : v \in ValueStart(payload, key)}

\* The objects of an array, from place i on, up to what is neither an object nor a comma.
RECURSIVE ObjectsFrom(_, _)
ObjectsFrom(array, i) ==
    IF i >= Len(array) THEN <<>>
    ELSE IF array[i] = Mark(",") THEN ObjectsFrom(array, i + 1)
    ELSE LET objects == Bracketed(array, i, "{", "}")
         IN IF objects = {} THEN <<>>
            ELSE LET object == CHOOSE o \in objects : TRUE
                 IN <<object>> \o ObjectsFrom(array, i + Len(object))

ParseObjectArrayItems(array) == ObjectsFrom(array, 2)

-----------------------------------------------------------------------------
\* ParseActionRequestJson: an action and a target, not empty; the rest may be missing.
Given(field) == {text \in field : text # <<>>}

OrEmpty(field) == IF field = {} THEN <<>> ELSE CHOOSE text \in field : TRUE

ContextIn(payload) ==
    LET within == ExtractJsonObjectField(payload, "context")
        source == IF within = {} THEN payload ELSE CHOOSE object \in within : TRUE
    IN [app |-> OrEmpty(ExtractJsonStringField(source, "app")),
        domain |-> OrEmpty(ExtractJsonStringField(source, "domain"))]

ParseActionRequestJson(payload) ==
    {[action |-> action, target |-> target,
      value |-> OrEmpty(ExtractJsonStringField(payload, "value")), context |-> ContextIn(payload)] :
        action \in Given(ExtractJsonStringField(payload, "action")),
        target \in Given(ExtractJsonStringField(payload, "target"))}

\* ParseIntentSequenceJson: some objects, each of which is a request.
ParseIntentSequenceJson(payload) ==
    {[i \in DOMAIN objects |-> CHOOSE request \in ParseActionRequestJson(objects[i]) : TRUE] :
        objects \in {list \in {ParseObjectArrayItems(array) : array \in ExtractJsonArrayField(payload, "steps")} :
                        /\ list # <<>>
                        /\ \A i \in DOMAIN list : ParseActionRequestJson(list[i]) # {}}}
=============================================================================
