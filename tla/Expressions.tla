----------------------------- MODULE Expressions -----------------------------
(***************************************************************************)
(* What the interpreter makes of an expression (expression.cpp).  The      *)
(* value of a variable is a pointer into its scope: an operation that      *)
(* deletes its operand deletes what the variable holds.  Calls, indexes,   *)
(* ++ and -- are in Scope.                                                 *)
(***************************************************************************)
EXTENDS Inference, Conversions

CONSTANT Known      \* the values of the variables

\* An evaluation: a value, or the outcome that is none; the variable that holds
\* the value, if it is not a new one; and the variables whose values are deleted.
NoOne == "no one"
Evaluated(value, holder, gone) == [value |-> value, holder |-> holder, gone |-> gone]
Fresh(value, gone) == Evaluated(value, NoOne, gone)
NoValue(r) == Fresh(Outcome("null"), r.gone)
Fault(r)   == Fresh(Outcome("fault"), r.gone)

HasValue(r) == r.value.type \notin {"null", "return", "fault"}

\* Exceptions and faults leave the whole expression, a null pointer does not.
Then(results, Next(_)) ==
    UNION {IF r.value.type \in {"return", "fault"} THEN {r} ELSE Next(r) : r \in results}

EvaluateVariable(name, gone) ==
    CASE name \in gone -> Fresh(Outcome("fault"), gone)
      [] name \in DOMAIN Known \ gone -> Evaluated(Known[name], name, gone)
      [] OTHER -> Fresh(Outcome("null"), gone)

\* The results of an operation; a runtime_error is reported and makes none.
Holders(rs) == {r.holder : r \in rs} \ {NoOne}
Results(outcomes, gone) ==
    {Fresh(IF v.type = "throw" THEN Outcome("null") ELSE v, gone) : v \in outcomes}

EvaluateUnary(op, r) ==
    LET answer == Unary(op, r.value)
    IN  IF ~HasValue(r) THEN {NoValue(r)}
        ELSE Results(answer.outcomes, r.gone \cup (IF answer.deleted = {} THEN {} ELSE Holders({r})))

\* Both operands are evaluated before either is looked at.
EvaluateBinary(op, l, r) ==
    LET answer == BinaryOperation(op, l.value, r.value)
        Side(side) == IF side = "left" THEN l ELSE r
    IN  CASE ~HasValue(l) \/ ~HasValue(r) -> {NoValue(r)}
          [] HasValue(l) /\ HasValue(r) /\ l.holder \in r.gone -> {Fault(r)}
          [] OTHER -> Results(answer.outcomes, r.gone \cup Holders({Side(d) : d \in answer.deleted}))

\* delete on each in turn, after which gone are deleted.
Deleted(rs, gone) ==
    LET again == \E i \in DOMAIN rs :
                    /\ rs[i].holder # NoOne
                    /\ rs[i].holder \in gone \/ \E j \in 1 .. i - 1 : rs[j].holder = rs[i].holder
        r == Fresh(Outcome("null"), gone \cup Holders({rs[i] : i \in DOMAIN rs}))
    IN  IF again THEN Fault(r) ELSE r

\* Both branches are evaluated.  The condition is deleted as its own conversion
\* to bool, and what is chosen is cloned after that; if anything fails, all that
\* there is is deleted.
EvaluateTernary(c, x, y) ==
    LET answer == Ternary(c.value, x.value, y.value)
        chosen == IF c.value.n = 1 THEN x ELSE y
        gone == y.gone \cup Holders({c})
    IN  CASE ~HasValue(x) \/ ~HasValue(y) -> {Deleted(SelectSeq(<<c, x, y>>, HasValue), y.gone)}
          [] HasValue(x) /\ HasValue(y) /\ c.holder \in y.gone -> {Fault(y)}
          [] OTHER -> IF answer.outcomes = {Outcome("throw")} THEN {Deleted(<<c, x, y>>, y.gone)}
                      ELSE IF chosen.holder \in gone THEN {Fault(y)}
                      ELSE Results(answer.outcomes, gone)

\* CastExpression: a clone, or a method of the type of the operand.
EvaluateConversion(type, r) ==
    CASE ~HasValue(r) -> {NoValue(r)}
      [] HasValue(r) /\ r.value.type = type -> {Fresh(r.value, r.gone)}
      [] OTHER -> Results(IF r.value.type = "string" THEN StringTo(type, r.value.text)
                          ELSE CallMethod(r.value, type), r.gone)

\* extractMemberName: a text, or what has a method that makes one.
NamesMember(key) ==
    IF key.value.type = "string" THEN key.value.text # <<>>
    ELSE key.value.type \in DOMAIN Methods /\ "toString" \in Methods[key.value.type]

\* No type has members (see ClassTypes), and the name of a type is a text with a
\* runtime type, so that neither an instance nor a class has the member.
EvaluateMember(target, key) == {NoValue(key)}

\* A reference, whether or not there is such a method.
EvaluateReference(target, key) ==
    IF HasValue(target) /\ HasValue(key) /\ NamesMember(key)
    THEN {IF target.holder \in key.gone THEN Fault(key) ELSE Fresh(Object("method"), key.gone)}
    ELSE {NoValue(key)}

\* visit(Expression*): kinds that it does not know have no value.
RECURSIVE EvaluateAfter(_, _)
EvaluateAfter(e, gone) ==
    LET Part(i, before) == EvaluateAfter(e.parts[i], before)
        Key(target) == IF HasValue(target) THEN Part(2, target.gone) ELSE {target}
    IN  CASE e.kind = "constant" -> {Fresh(e.value, gone)}
          [] e.kind = "variable" -> {EvaluateVariable(e.op, gone)}
          [] e.kind = "unary"    -> Then(Part(1, gone), LAMBDA r : EvaluateUnary(e.op, r))
          [] e.kind = "binary"   ->
               Then(Part(1, gone), LAMBDA l :
                 Then(Part(2, l.gone), LAMBDA r : EvaluateBinary(e.op, l, r)))
          [] e.kind = "ternary"  ->
               Then(Part(1, gone), LAMBDA c :
                 IF ~HasValue(c) THEN {NoValue(c)}
                 ELSE Then(Part(2, c.gone), LAMBDA x :
                        Then(Part(3, x.gone), LAMBDA y : EvaluateTernary(c, x, y))))
          [] e.kind = "conversion" -> Then(Part(1, gone), LAMBDA r : EvaluateConversion(e.op, r))
          [] e.kind = "member" ->
               Then(Part(1, gone), LAMBDA t : Then(Key(t), LAMBDA k : EvaluateMember(t, k)))
          [] e.kind = "method" ->
               Then(Part(1, gone), LAMBDA t : Then(Key(t), LAMBDA k : EvaluateReference(t, k)))
          [] OTHER -> {Fresh(Outcome("null"), gone)}

Evaluate(e) == EvaluateAfter(e, {})

=============================================================================
