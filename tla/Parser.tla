------------------------------ MODULE Parser -------------------------------
(* The recursive descent of src/parser/parser.cpp as functions from the     *)
(* state of the parser to a node and the state behind it.  The state is the *)
(* lexer's: the token looked at, and those it has not come to.  A parser    *)
(* that stopped (the process ends, does not return, or has cast an object   *)
(* to a class that is not its own) looks at a token that nothing matches.   *)
EXTENDS Lexer

Stops == {Exit, Hang, Undefined}
Null == <<"null">>

At1(p, n) == [p |-> p, n |-> n]     \* a node and the parser behind it

(* ------------------------ matching, in the lexer ------------------------ *)

Before(tokens) == [look |-> Head(tokens), ahead |-> Tail(tokens)]
Move(p) == IF p.ahead = <<>> THEN p ELSE Before(p.ahead)

Stop(p, how) == IF p.look \in Stops THEN p ELSE [p EXCEPT !.look = how]

Match(p, tag) == IF p.look.tag = tag THEN Move(p) ELSE Stop(p, Exit)

\* match<T>: the tag is tested, the class of the object is not.
ClassOfTag == [NUM |-> "Integer", REAL |-> "Double", BOOL |-> "Bool", STR |-> "String", CHAR |-> "Char"]
MatchConstant(p) ==
  At1(IF p.look.class = ClassOfTag[p.look.tag] THEN Move(p) ELSE Stop(p, Undefined),
      <<"Constant", p.look.class, p.look.text>>)

MatchIdentifier(p) == At1(Match(p, "ID"), p.look.text)

MatchString1(p) ==   \* match<String>
  IF p.look.tag = "STR" THEN [MatchConstant(p) EXCEPT !.n = p.look.text]
  ELSE At1(Stop(p, Exit), <<>>)

(* ------------------------------ operators ------------------------------- *)

\* <= and >= go by the tags of the words module and any.
BinaryTags == {"+", "-", "*", "/", "%", "<", ">", "=", "&", "|", "^", "module", "any",
  "==", "!=", "&&", "||", "<<", ">>", "..", "??", "is", "as"}
OperatorTags == (BinaryTags \ {"..", "??", "is", "as"}) \cup {"!", "~", "?", ":", ".", "++", "--"}

MatchOperator(p) ==
  CASE p.look.tag \notin OperatorTags -> Stop(p, Exit)
    [] p.look.tag \in OperatorTags /\ p.look.class # "Operator" -> Stop(p, Undefined)
    [] OTHER -> Move(p)

\* The precedence the operator's object carries.
Precedence(text) ==
  CASE text = <<"|", "|">> -> 1
    [] text \in {<<"=">>, <<"&", "&">>, <<"|">>} -> 2
    [] text \in {<<"<">>, <<">">>, <<"<", "=">>, <<">", "=">>, <<"=", "=">>, <<"!", "=">>, <<"^">>} -> 3
    [] text \in {<<"+">>, <<"-">>, <<"&">>} -> 4
    [] text \in {<<"*">>, <<"/">>, <<"%">>, <<"<", "<">>, <<">", ">">>} -> 5
    [] OTHER -> 6

(* A rule of the descent: its name, with what it is given.  The functions    *)
(* call one another through their rules.                                     *)
RECURSIVE Parse(_, _)

ParseExpression(p) == Parse(<<"binary", 0>>, p)
PostfixOf(p, expr) == Parse(<<"postfix", expr>>, p)

(* A comma-separated list between brackets; `kind' says what its items are.  *)
ParseItem(p, kind) ==
  CASE kind = "expression" -> ParseExpression(p)
    [] kind = "name" -> MatchIdentifier(p)
    [] kind = "pair" ->
         LET key == ParseExpression(p)
             value == ParseExpression(Match(key.p, ":"))
         IN  At1(value.p, <<key.n, value.n>>)
    [] kind = "member" ->
         LET key == MatchIdentifier(p)
             value == ParseExpression(Match(key.p, ":"))
         IN  At1(value.p, <<<<"Constant", "String", key.n>>, value.n>>)
    [] kind = "variable" ->
         LET name == MatchIdentifier(p)
             value == ParseExpression(Match(name.p, "="))
         IN  IF name.p.look.tag = "=" THEN At1(value.p, <<name.n, value.n>>)
             ELSE At1(name.p, <<name.n, Null>>)
    [] kind = "import" ->
         LET name == MatchIdentifier(p)
             alias == MatchIdentifier(Match(name.p, "as"))
         IN  IF name.p.look.tag = "as" THEN At1(alias.p, <<name.n, alias.n>>)
             ELSE At1(name.p, <<name.n, name.n>>)

ParseSeparated(p, kind) ==
  LET first == ParseItem(p, kind)
      behind == Match(first.p, ",")
      rest == IF kind = "import" /\ behind.look.tag = "}" THEN At1(behind, <<>>)
              ELSE Parse(<<"list", kind>>, behind)
  IN  IF first.p.look.tag = "," THEN At1(rest.p, <<first.n>> \o rest.n)
      ELSE At1(first.p, <<first.n>>)

ParseBetween(p, open, kind, close) ==
  LET in == Match(p, open)
      list == Parse(<<"list", kind>>, in)
  IN  IF in.look.tag = close THEN At1(Move(in), <<>>) ELSE At1(Match(list.p, close), list.n)

(* ----------------------------- expressions ------------------------------ *)

\* Faulty variant: the right side is read as a whole expression.
ParseOperatorsAnyRight(p, left, min) ==
  LET op == p.look
      after == MatchOperator(p)
      right == Parse(<<"binary", 0>>, after)
  IN  CASE op.tag \notin BinaryTags -> At1(p, left)
        [] op.tag \in BinaryTags /\ Precedence(op.text) < min -> At1(after, left)
        [] OTHER -> Parse(<<"operators", <<"Binary", op.text, left, right.n>>, min>>, right.p)

(* The loop over binary operators.  The operator is taken before its         *)
(* precedence is compared, so one that binds less is lost; the right side of *)
(* an operator starts at its own precedence, whatever its associativity.     *)
(* The member access on the left of an assignment is deleted.                *)
ParseOperators(p, left, min) ==
  LET op == p.look
      after == MatchOperator(p)
      right == Parse(<<"binary", Precedence(op.text)>>, after)
      target == IF op.tag = "=" /\ left[1] \in {"Member", "Index"} THEN <<"Deleted">> ELSE left
  IN  CASE op.tag \notin BinaryTags -> At1(p, left)
        [] op.tag \in BinaryTags /\ after.look \in Stops -> At1(after, left)
        [] op.tag \in BinaryTags /\ after.look \notin Stops /\ Precedence(op.text) < min -> At1(after, left)
        [] op.tag = "=" /\ Precedence(op.text) >= min /\ left[1] \notin {"Variable", "Member", "Index"} ->
             At1(after, left)
        [] OTHER -> Parse(<<"operators", <<"Binary", op.text, target, right.n>>, min>>, right.p)

ParseBinary(p, min) ==
  LET primary == Parse(<<"primary">>, p)
      left == PostfixOf(primary.p, primary.n)
  IN  Parse(<<"operators", left.n, min>>, left.p)

ParsePrimary(p) ==
  LET tag == p.look.tag
      Operand(q) == LET r == Parse(<<"primary">>, q) IN PostfixOf(r.p, r.n)
      Wrap(kind, r) == At1(r.p, <<kind, r.n>>)
      prefix == Operand(MatchOperator(p))
      inner == ParseExpression(Match(p, "("))
  IN  CASE tag \in {"!", "-", "~", "+", "++", "--"} -> At1(prefix.p, <<"Unary", p.look.text, prefix.n>>)
        [] tag = "ID" ->
             LET name == MatchIdentifier(p) IN PostfixOf(name.p, <<"Variable", name.n>>)
        [] tag \in DOMAIN ClassOfTag -> MatchConstant(p)
        [] tag = "(" -> At1(Match(inner.p, ")"), inner.n)
        [] tag = "[" -> Wrap("Array", ParseBetween(p, "[", "expression", "]"))
        [] tag = "{" -> Wrap("Dict", ParseBetween(p, "{", "pair", "}"))
        [] tag = "|" -> Wrap("Set", ParseBetween(p, "|", "expression", "|"))
        [] tag \in {"async", "await"} -> Wrap(tag, Parse(<<"primary">>, Move(p)))
        [] p.look \in Stops -> At1(p, Null)
        [] OTHER -> At1(Move(p), Null)      \* reported, taken, and the parse goes on

\* [start : end : step], from behind the start.
ParseSlice(p, target, start) ==
  LET Part(q, stop) == IF q.look.tag \in stop THEN At1(q, Null) ELSE ParseExpression(q)
      end == Part(Match(p, ":"), {"]"})
      step == IF end.p.look.tag = ":" THEN Part(Match(end.p, ":"), {"]"}) ELSE At1(end.p, Null)
  IN  At1(Match(step.p, "]"), <<"Slice", target, start, end.n, step.n>>)

\* name { member: value } is a call of the name with a call of "Dict".
ParseStructInstantiation(p, name) ==
  LET members == ParseBetween(p, "{", "member", "}")
      flat[i \in 0..Len(members.n)] == IF i = 0 THEN <<>> ELSE flat[i - 1] \o members.n[i]
  IN  At1(members.p, <<"Call", name, <<<<"Call", <<"Constant", "String", <<"Dict">>>>, flat[Len(members.n)]>>>>>>)

ParsePostfix(p, expr) ==
  LET tag == p.look.tag
      name == MatchIdentifier(Match(p, "."))
      key == <<"Constant", "String", name.n>>
      method == ParseBetween(name.p, "(", "expression", ")")
      index == ParseExpression(Match(p, "["))
      slice == ParseSlice(index.p, expr, index.n)
      call == ParseBetween(p, "(", "expression", ")")
      struct == ParseStructInstantiation(p, expr)
      after == MatchOperator(p)
  IN  CASE tag = "." /\ name.p.look.tag = "(" ->
             PostfixOf(method.p, <<"Call", <<"Method", expr, key>>, method.n>>)
        [] tag = "." /\ name.p.look.tag # "(" -> PostfixOf(name.p, <<"Member", expr, key>>)
        [] tag = "[" /\ index.p.look.tag = ":" -> PostfixOf(slice.p, slice.n)
        [] tag = "[" /\ index.p.look.tag # ":" ->
             PostfixOf(Match(index.p, "]"), <<"Index", expr, index.n>>)
        [] tag = "(" -> PostfixOf(call.p, IF expr[1] = "Variable" THEN <<"Call", expr, call.n>> ELSE Null)
        [] tag \in {"++", "--"} -> PostfixOf(after, <<"Postfix", p.look.text, expr>>)
        [] tag = "{" /\ expr[1] = "Variable" -> PostfixOf(struct.p, struct.n)
        [] tag = "{" /\ expr = Null -> At1(Stop(p, Exit), Null)     \* typeid of a null pointer
        [] tag = "{" /\ expr # Null /\ expr[1] # "Variable" -> At1(p, Null)
        [] OTHER -> At1(p, expr)

(* ------------------------------ statements ------------------------------ *)

Wrapped(kind, r) == At1(r.p, <<kind, r.n>>)
Ended(r) == At1(Match(r.p, ";"), r.n)

ParseExpressionStatement(p) == Wrapped("Expression", Ended(ParseExpression(p)))

ParseVariableDefinition(p) == Wrapped("Let", Ended(Parse(<<"list", "variable">>, Match(p, "let"))))

\* Statements up to the closing brace, which is left.
ParseStatements(p) ==
  LET first == Parse(<<"statement">>, p)
      rest == Parse(<<"statements">>, first.p)
  IN  IF p.look.tag = "}" \/ p.look \in Stops THEN At1(p, <<>>)
      ELSE At1(rest.p, <<first.n>> \o rest.n)

ParseBody(p) == LET r == Parse(<<"statements">>, Match(p, "{")) IN At1(Match(r.p, "}"), r.n)
ParseBlock(p) == Wrapped("Block", ParseBody(p))

ParseCondition(p) ==
  LET r == ParseExpression(Match(p, "(")) IN At1(Match(r.p, ")"), r.n)

\* Faulty variant: the else branch is read and dropped, as a switch drops its cases.
ParseIfStatementDroppingElse(p) ==
  LET condition == ParseCondition(Move(p))
      then == Parse(<<"statement">>, condition.p)
      else == IF then.p.look.tag = "else" THEN Parse(<<"statement">>, Move(then.p)) ELSE At1(then.p, Null)
  IN  At1(else.p, <<"If", condition.n, then.n, Null>>)

ParseIfStatement(p) ==
  LET condition == ParseCondition(Move(p))
      then == Parse(<<"statement">>, condition.p)
      else == IF then.p.look.tag = "else" THEN Parse(<<"statement">>, Move(then.p)) ELSE At1(then.p, Null)
  IN  At1(else.p, <<"If", condition.n, then.n, else.n>>)

ParseWhileStatement(p) ==
  LET condition == ParseCondition(Move(p))
      body == Parse(<<"statement">>, condition.p)
  IN  At1(body.p, <<"While", condition.n, body.n>>)

ParseForStatement(p) ==
  LET Part(q, end) == IF q.look.tag = end THEN At1(q, Null) ELSE ParseExpression(q)
      init == Part(Match(Move(p), "("), ";")
      condition == Part(Match(init.p, ";"), ";")
      increment == Part(Match(condition.p, ";"), ")")
      body == Parse(<<"statement">>, Match(increment.p, ")"))
  IN  At1(body.p, <<"For", init.n, condition.n, increment.n, body.n>>)

ParseReturnStatement(p) ==
  LET in == Move(p)
  IN  Wrapped("Return", Ended(IF in.look.tag = ";" THEN At1(in, Null) ELSE ParseExpression(in)))

ParseTryStatement(p) ==
  LET tried == Parse(<<"statement">>, Move(p))
      in == Match(Move(tried.p), "(")
      behind == Parse(<<"statement">>, Match(IF in.look.tag = "ID" THEN Move(in) ELSE in, ")"))
      catch == IF tried.p.look.tag = "catch" THEN behind ELSE At1(tried.p, Null)
      variable == IF tried.p.look.tag = "catch" /\ in.look.tag = "ID" THEN in.look.text ELSE <<"e">>
      finally == IF catch.p.look.tag = "finally" THEN Parse(<<"statement">>, Move(catch.p)) ELSE At1(catch.p, Null)
  IN  At1(finally.p, <<"Try", tried.n, variable, catch.n, finally.n>>)

\* The cases are read and dropped.
ParseCases(p) ==
  LET value == ParseExpression(Move(p))
      statement == Parse(<<"statement">>, Match(value.p, ":"))
  IN  IF p.look.tag = "case" THEN Parse(<<"cases">>, statement.p) ELSE p

ParseSwitchStatement(p) ==
  LET condition == ParseCondition(Move(p))
      cases == Parse(<<"cases">>, Match(condition.p, "{"))
      default == Parse(<<"statement">>, Match(Move(cases), ":"))
  IN  At1(Match(IF cases.look.tag = "default" THEN default.p ELSE cases, "}"), <<"Switch", condition.n>>)

ParseStatement(p) ==
  LET tag == p.look.tag
  IN  CASE tag = "let" -> ParseVariableDefinition(p)
        [] tag = "if" -> ParseIfStatement(p)
        [] tag = "while" -> ParseWhileStatement(p)
        [] tag = "for" -> ParseForStatement(p)
        [] tag \in {"break", "continue"} -> Ended(At1(Move(p), <<tag>>))
        [] tag = "return" -> ParseReturnStatement(p)
        [] tag = "try" -> ParseTryStatement(p)
        [] tag = "switch" -> ParseSwitchStatement(p)
        [] tag = "ID" -> ParseExpressionStatement(p)
        [] tag = "{" -> ParseBlock(p)
        [] OTHER -> At1(Stop(p, Exit), Null)

(* ----------------------------- declarations ----------------------------- *)

ParseImportStatement(p) ==
  LET in == Move(p)
      From(q) == Ended(MatchString1(Match(q, "from")))
      items == IF Match(in, "{").look.tag = "}" THEN At1(Move(Match(in, "{")), <<>>)
               ELSE ParseBetween(in, "{", "import", "}")
      name == MatchString1(in)
      alias == Ended(MatchIdentifier(Match(name.p, "as")))
  IN  CASE in.look.tag = "{" -> LET m == From(items.p) IN At1(m.p, <<"ImportItems", m.n, items.n>>)
        [] in.look.tag = "*" -> Wrapped("ImportAll", From(Move(in)))
        [] OTHER -> IF name.p.look.tag = "as" THEN At1(alias.p, <<"ImportAs", name.n, alias.n>>)
                    ELSE Wrapped("Import", Ended(name))

ParsePrototype(p) ==
  LET name == MatchIdentifier(Match(p, "function"))
      parameters == ParseBetween(name.p, "(", "name", ")")
  IN  At1(parameters.p, <<name.n, parameters.n>>)

ParseFunction(p) ==
  LET prototype == ParsePrototype(p)
      body == ParseBody(prototype.p)
  IN  At1(body.p, <<"Function", prototype.n[1], prototype.n[2], body.n>>)

\* The members of a struct or a class up to the brace, which is left.
ParseMembers(p, kind) ==
  LET field == Ended(MatchIdentifier(p))
      first == CASE p.look.class = "Visibility" -> Wrapped("Visibility", At1(Move(p), p.look.text))
                 [] kind = "struct" /\ p.look.class # "Visibility" ->
                      At1(field.p, <<"Let", <<<<field.n, Null>>>>>>)
                 [] kind = "class" /\ p.look.tag = "function" -> ParseFunction(p)
                 [] OTHER -> ParseVariableDefinition(p)
      rest == Parse(<<"members", kind>>, first.p)
  IN  IF p.look.tag = "}" \/ p.look \in Stops THEN At1(p, <<>>)
      ELSE At1(rest.p, <<first.n>> \o rest.n)

ParseStruct(p) ==
  LET name == MatchIdentifier(Move(p))
      members == Parse(<<"members", "struct">>, Match(name.p, "{"))
  IN  At1(Match(members.p, "}"), <<"Struct", name.n, members.n>>)

ParseClass(p) ==
  LET name == MatchIdentifier(Move(p))
      base == IF name.p.look.tag = ":" THEN MatchIdentifier(Move(name.p)) ELSE At1(name.p, <<"Object">>)
      implements == IF base.p.look.tag = "implements" THEN Parse(<<"list", "name">>, Move(base.p))
                    ELSE At1(base.p, <<>>)
      members == Parse(<<"members", "class">>, Match(implements.p, "{"))
  IN  At1(Match(members.p, "}"), <<"Class", name.n, base.n, implements.n, members.n>>)

\* Whatever is not a method is skipped, the end of the text for ever.
SkipToMethods(p) ==
  LET method == ParsePrototype(p)
      rest == Parse(<<"methods">>, method.p)
  IN  CASE p.look.tag = "}" \/ p.look \in Stops -> At1(p, <<>>)
        [] p.look.tag = "function" -> At1(rest.p, <<method.n>> \o rest.n)
        [] p.look = EndOfFile -> At1(Stop(p, Hang), <<>>)
        [] OTHER -> Parse(<<"methods">>, Move(p))

ParseInterface(p) ==
  LET name == MatchIdentifier(Move(p))
      extends == IF name.p.look.tag = ":" THEN Parse(<<"list", "name">>, Move(name.p)) ELSE At1(name.p, <<>>)
      methods == Parse(<<"methods">>, Match(extends.p, "{"))
  IN  At1(Match(methods.p, "}"), <<"Interface", name.n, extends.n, methods.n>>)

ParseModule(p) ==
  LET name == MatchIdentifier(Move(p))
      body == ParseBody(name.p)
  IN  At1(body.p, <<"Module", name.n, body.n>>)

ParseDeclaration(p) ==
  LET tag == p.look.tag
  IN  CASE tag = "import" -> ParseImportStatement(p)
        [] tag = "let" -> ParseVariableDefinition(p)
        [] tag = "function" -> ParseFunction(p)
        [] tag = "struct" -> ParseStruct(p)
        [] tag = "class" -> ParseClass(p)
        [] tag = "interface" -> ParseInterface(p)
        [] tag = "module" -> ParseModule(p)
        [] tag = "ID" -> ParseExpressionStatement(p)
        [] OTHER -> At1(Stop(p, Exit), Null)
Parse(rule, p) ==
  CASE rule[1] = "binary"      -> ParseBinary(p, rule[2])
    [] rule[1] = "operators"   -> ParseOperators(p, rule[2], rule[3])
    [] rule[1] = "primary"     -> ParsePrimary(p)
    [] rule[1] = "postfix"     -> ParsePostfix(p, rule[2])
    [] rule[1] = "list"        -> ParseSeparated(p, rule[2])
    [] rule[1] = "statement"   -> ParseStatement(p)
    [] rule[1] = "statements"  -> ParseStatements(p)
    [] rule[1] = "cases"       -> ParseCases(p)
    [] rule[1] = "members"     -> ParseMembers(p, rule[2])
    [] rule[1] = "methods"     -> SkipToMethods(p)
    [] rule[1] = "declaration" -> ParseDeclaration(p)
============================================================================
