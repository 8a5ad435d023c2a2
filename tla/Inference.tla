------------------------------ MODULE Inference ------------------------------
(***************************************************************************)
(* Types of expressions, unification and checks (type_inference.cpp).  A   *)
(* type is the sequence of the names in it, Array<int> is <<"Array",       *)
(* "int">>.  Type has neither equals nor isSubtypeOf in this repository:   *)
(* equality is that of the names; Subtypes and Instances are left open.    *)
(***************************************************************************)
EXTENDS Calculator, SequencesExt

CONSTANTS
    Subtypes,           \* pairs of a type and one that it is a subtype of
    Instances,          \* pairs of a type and one that it is an instance of
    TypeVariables       \* the types whose names begin with "T"

NoType == <<>>          \* the inference fails
Unknown == <<"unknown">>
Named(type) == <<type>>

\* An environment binds names to types; from the innermost on.
LookupVariable(env, name) ==
    LET binding == {i \in DOMAIN env : name \in DOMAIN env[i]}
    IN  IF binding = {} THEN NoType ELSE env[Min(binding)][name]

IsSubtype(t, u) == <<t, u>> \in Subtypes

\* Faulty variant of CommonSupertype: an int before a double makes an int.
CommonSupertypeIsLeft(t, u) == t

CommonSupertype(t, u) ==
    IF {t, u} = {Named("int"), Named("double")} THEN Named("double") ELSE t

CommonOf(found) == FoldLeft(CommonSupertype, found[1], Tail(found))

----------------------------------------------------------------------------
(* Expressions are records of a kind, an operator or a name, the value of a *)
(* constant, and parts.                                                     *)

Expression(kind, op, value, parts) == [kind |-> kind, op |-> op, value |-> value, parts |-> parts]
Constant(value)    == Expression("constant", "", value, <<>>)
Variable(name)     == Expression("variable", name, Outcome("none"), <<>>)
Compound(kind, op, parts) == Expression(kind, op, Outcome("none"), parts)

\* The types of the constants for which there is an inference: no characters.
ConstantTypes == {"int", "double", "bool", "string"}

BinaryType(op, t, u) ==
    CASE op \in Arithmetic -> CommonSupertype(t, u)
      [] op \in Comparisons \cup Unanswered \cup {"&&", "||"} -> Named("bool")
      [] op = "=" -> t
      [] OTHER -> NoType
UnaryType(op, t) ==
    CASE op = "!" -> Named("bool") [] op \in {"+", "-", "++", "--"} -> t [] OTHER -> NoType

\* inferExpression; the first part that fails makes the whole fail.
RECURSIVE InferExpression(_, _)
InferExpression(e, env) ==
    LET found == [i \in DOMAIN e.parts |-> InferExpression(e.parts[i], env)]
        fails == \E i \in DOMAIN found : found[i] = NoType
    IN  CASE e.kind = "constant" ->
               IF e.value.type \in ConstantTypes THEN Named(e.value.type) ELSE NoType
          [] e.kind = "variable" -> LookupVariable(env, e.op)
          [] fails -> NoType
          [] e.kind = "binary"  -> BinaryType(e.op, found[1], found[2])
          [] e.kind = "unary"   -> UnaryType(e.op, found[1])
          [] e.kind = "call"    -> Unknown
          [] e.kind = "ternary" -> CommonSupertype(found[2], found[3])
          [] OTHER -> NoType

\* The inferences that inferExpression never comes to.  A dict alternates keys
\* and values.
InferCollection(e, env) ==
    LET found == [i \in DOMAIN e.parts |-> InferExpression(e.parts[i], env)]
        Every(from) == [i \in 1 .. Len(found) \div 2 |-> found[2 * i - from]]
    IN  CASE \E i \in DOMAIN found : found[i] = NoType -> NoType
          [] e.kind \in {"Array", "Set"} ->
               <<e.kind>> \o (IF found = <<>> THEN Unknown ELSE CommonOf(found))
          [] e.kind = "Dict" ->
               <<"Dict">> \o (IF found = <<>> THEN Unknown \o Unknown
                              ELSE CommonOf(Every(1)) \o CommonOf(Every(0)))
          [] e.kind = "range" -> <<"Range">> \o found[1]

InferOther(e, env) ==
    LET found == [i \in DOMAIN e.parts |-> InferExpression(e.parts[i], env)]
    IN  CASE e.kind = "type check" -> Named("bool")
          [] e.kind \in {"slice", "cast", "compound"} -> found[1]
          [] \E i \in DOMAIN found : found[i] = NoType -> NoType
          [] e.kind = "coalesce" -> found[2]
          [] e.kind = "match" -> IF Len(found) = 1 THEN Named("void") ELSE CommonOf(Tail(found))
          [] e.kind = "async" -> <<"Promise">> \o found[1]
          [] e.kind = "await" -> Unknown

\* inferStatement: an expression, or a return of one; others have type void.
InferStatement(parts, env) ==
    IF parts = <<>> THEN Named("void") ELSE InferExpression(parts[1], env)

----------------------------------------------------------------------------
(* Unification and checks.                                                 *)

\* Whether it succeeds, and what is bound in the environment.
Unified(success, binds) == [success |-> success, binds |-> binds]
Unify(t, u) ==
    CASE t = u -> Unified(TRUE, {})
      [] t # u /\ t \in TypeVariables -> Unified(TRUE, {<<t, u>>})
      [] t # u /\ t \notin TypeVariables /\ u \in TypeVariables -> Unified(TRUE, {<<u, t>>})
      [] OTHER -> Unified(IsSubtype(t, u) \/ IsSubtype(u, t), {})

\* isSatisfied: constraints of the other kinds always hold.
Satisfied(constraint) ==
    CASE constraint.kind = "equality" -> constraint.left = constraint.right
      [] constraint.kind = "subtype"  -> IsSubtype(constraint.left, constraint.right)
      [] constraint.kind = "instance" -> <<constraint.left, constraint.right>> \in Instances
      [] OTHER -> TRUE
Solved(constraints) == \A i \in DOMAIN constraints : Satisfied(constraints[i])

CompatibleWith(actual, expected) == actual = expected \/ IsSubtype(actual, expected)
Callable(expected, actual) ==
    Len(expected) = Len(actual) /\ \A i \in DOMAIN actual : CompatibleWith(actual[i], expected[i])

\* checkExpression; without an expected type anything that infers will do.
CheckExpression(e, expected, env) ==
    LET found == InferExpression(e, env)
    IN  found # NoType /\ (expected # NoType => CompatibleWith(found, expected))

=============================================================================
