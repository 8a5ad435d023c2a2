------------------------------- MODULE Patterns -------------------------------
(***************************************************************************)
(* Patterns and what they bind (pattern_matching.cpp).  A value has a type, *)
(* a number and parts: the elements of an array, or the fields of a dict,  *)
(* which have names.                                                       *)
(***************************************************************************)
EXTENDS Inference

CONSTANT Guard(_, _)        \* whether a guard accepts some bindings

Datum(type, n, names, parts) == [type |-> type, n |-> n, names |-> names, parts |-> parts]
NullDatum == Datum(<<"null">>, 0, <<>>, <<>>)       \* the null pointer
NumericTypes == {<<"int">>, <<"double">>}

\* A pattern: the name of a variable or of a guard; the type that is asked for,
\* or none; a literal; the parts, and the names of the fields of a dict; and
\* whether more elements may follow.
Pattern(kind, name, type, literal, names, parts, rest) ==
    [kind |-> kind, name |-> name, type |-> type, literal |-> literal,
     names |-> names, parts |-> parts, rest |-> rest]
Simple(kind, name, type) == Pattern(kind, name, type, NullDatum, <<>>, <<>>, FALSE)
Literal(value) == Pattern("literal", "", <<>>, value, <<>>, <<>>, FALSE)

Matched(bindings) == [matched |-> TRUE, bindings |-> bindings]
Mismatch == [matched |-> FALSE, bindings |-> <<>>]
MatchedIf(condition) == IF condition THEN Matched(<<>>) ELSE Mismatch

\* Faulty variant of Merged: the bindings of a part replace those before it.
MergedLast(found) ==
    IF \A i \in DOMAIN found : found[i].matched
    THEN Matched(FoldLeft(LAMBDA all, m : m.bindings, <<>>, found))
    ELSE Mismatch

\* All parts match; of two bindings of a name the later stays.
Merged(found) ==
    IF \A i \in DOMAIN found : found[i].matched
    THEN Matched(FoldLeft(LAMBDA all, m : m.bindings @@ all, <<>>, found))
    ELSE Mismatch

----------------------------------------------------------------------------
(* Pattern::match of each kind, given what its parts say.                  *)

MatchLiteral(p, value) == MatchedIf(value # NullDatum /\ value = p.literal)

MatchVariable(p, value) ==
    IF value # NullDatum /\ p.type \in {<<>>, value.type} THEN Matched(p.name :> value) ELSE Mismatch

MatchWildcard == Matched(<<>>)

MatchType(p, value) ==
    MatchedIf(value # NullDatum /\ (value.type = p.type \/ IsSubtype(value.type, p.type)))

\* isInRange holds for every number.
MatchRange(value) == MatchedIf(value.type \in NumericTypes)

\* No value is a struct.
MatchStruct == Mismatch

LengthFits(p, value) ==
    /\ value.type[1] = "Array"
    /\ IF p.rest THEN Len(value.parts) >= Len(p.parts) ELSE Len(value.parts) = Len(p.parts)

Field(value, name) ==
    IF \E i \in DOMAIN value.names : value.names[i] = name
    THEN value.parts[CHOOSE i \in DOMAIN value.names : value.names[i] = name]
    ELSE NullDatum

FieldsPresent(p, value) ==
    /\ value.type[1] = "Dict"
    /\ \A i \in DOMAIN p.names : Field(value, p.names[i]) # NullDatum

MatchGuard(p, inner) ==
    IF inner.matched /\ Guard(p.name, inner.bindings) THEN inner ELSE Mismatch

MatchOr(found) ==
    LET matching == {i \in DOMAIN found : found[i].matched}
    IN  IF matching = {} THEN Mismatch ELSE found[Min(matching)]

MatchAnd(found) == IF found = <<>> THEN Mismatch ELSE Merged(found)

RECURSIVE MatchPattern(_, _)
MatchPattern(p, value) ==
    LET PartsOn(of(_)) == [i \in DOMAIN p.parts |-> MatchPattern(p.parts[i], of(i))]
    IN  CASE p.kind = "wildcard" -> MatchWildcard
          [] p.kind = "literal"  -> MatchLiteral(p, value)
          [] p.kind = "variable" -> MatchVariable(p, value)
          [] p.kind = "type"     -> MatchType(p, value)
          [] p.kind = "range"    -> MatchRange(value)
          [] p.kind = "struct"   -> MatchStruct
          [] p.kind = "guard"    -> MatchGuard(p, MatchPattern(p.parts[1], value))
          [] p.kind = "or"       -> MatchOr(PartsOn(LAMBDA i : value))
          [] p.kind = "and"      -> MatchAnd(PartsOn(LAMBDA i : value))
          [] p.kind = "array" ->
               IF LengthFits(p, value) THEN Merged(PartsOn(LAMBDA i : value.parts[i])) ELSE Mismatch
          [] p.kind = "dict" ->
               IF FieldsPresent(p, value)
               THEN Merged(PartsOn(LAMBDA i : Field(value, p.names[i]))) ELSE Mismatch

----------------------------------------------------------------------------

\* getVariables and hasBindings.
RECURSIVE Variables(_)
Variables(p) ==
    IF p.kind = "variable" THEN <<p.name>>
    ELSE FoldLeft(LAMBDA all, part : all \o Variables(part), <<>>, p.parts)
HasBindings(p) == Variables(p) # <<>>

\* PatternMatcher and MatchExpressionEvaluator: no expression is evaluated.
MatchAll(patterns, value) == [i \in DOMAIN patterns |-> MatchPattern(patterns[i], value)]
MatchFirst(patterns, value) ==
    LET found == SelectSeq(MatchAll(patterns, value), LAMBDA m : m.matched)
    IN  IF found = <<>> THEN Mismatch ELSE found[1]
EvaluateBranch(patterns, branches, value) ==
    IF patterns # <<>> /\ Len(patterns) = branches /\ MatchFirst(patterns, value).matched
    THEN value ELSE NullDatum

=============================================================================
