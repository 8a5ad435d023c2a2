----------------------------- MODULE FrontEnd ------------------------------
(* From a text to an optimized program: the lexer, either drained by a      *)
(* client or by the parser (Parser::parse), one token or one declaration a  *)
(* step, and the optimizer of src/optimizer behind it.                      *)
EXTENDS Parser

CONSTANTS Texts,      \* texts a client drains
          Programs,   \* programs, each a sequence of nodes, written out and parsed
          Chains      \* variables joined by operators, each a sequence of lexemes

VARIABLES source,     \* what is being read: its kind and what it was written from
          parser,     \* the lexer behind the parser
          read,       \* the lexemes a client was given
          program,    \* the statements of the program
          optimized   \* whether the optimizer ran

vars == <<source, parser, read, program, optimized>>

(* ------------------------------ optimizer ------------------------------- *)

\* SimpleOptimizer rebuilds what it visits and visits: what it does not enter it
\* leaves.  A deleted node must not be entered.
RECURSIVE Optimized(_), OptimizedStatement(_)
Optimized(n) ==
  CASE n[1] \in {"Unary", "Postfix"} -> <<n[1], n[2], Optimized(n[3])>>
    [] n[1] = "Binary" -> <<"Binary", n[2], Optimized(n[3]), Optimized(n[4])>>
    [] n[1] \in {"Member", "Index", "Method"} -> <<n[1], Optimized(n[2]), Optimized(n[3])>>
    [] n[1] = "Call" -> <<"Call", n[2], [i \in DOMAIN n[3] |-> Optimized(n[3][i])]>>
    [] n[1] = "Deleted" -> <<"undefined">>
    [] OTHER -> n

Each(list) == [i \in DOMAIN list |-> OptimizedStatement(list[i])]
OptimizedStatement(n) ==
  CASE n[1] \in {"Expression", "Return"} -> <<n[1], Optimized(n[2])>>
    [] n[1] \in {"If", "While"} -> <<n[1], Optimized(n[2])>> \o Each(Tail(Tail(n)))
    [] n[1] = "For" ->
         <<"For", Optimized(n[2]), Optimized(n[3]), Optimized(n[4]), OptimizedStatement(n[5])>>
    [] n[1] = "Block" -> <<"Block", Each(n[2])>>
    [] OTHER -> n

(* ------------------------------ reference ------------------------------- *)

\* What a node is written as, in lexemes: every operation in parentheses.
RECURSIVE Written(_)
Comma == <<<<",">>>>
Apart(list, Write(_)) ==     \* written with commas between
  LET all[i \in 0..Len(list)] ==
        CASE i = 0 -> <<>> [] i = 1 -> Write(list[1]) [] OTHER -> all[i - 1] \o Comma \o Write(list[i])
  IN  all[Len(list)]
Joined(list) ==              \* written one after the other
  LET all[i \in 0..Len(list)] == IF i = 0 THEN <<>> ELSE all[i - 1] \o Written(list[i])
  IN  all[Len(list)]
W(word) == <<<<word>>>>
In(open, inside, close) == W(open) \o inside \o W(close)
Quoted(text) == <<<<"\"">> \o text \o <<"\"">>>>
Braced(list) == In("{", Joined(list), "}")
Name(text) == <<text>>
Optional(word, node) == IF node = Null THEN <<>> ELSE W(word) \o Written(node)

Written(n) ==
  CASE n[1] = "null" -> <<>>
    [] n[1] = "Variable" -> <<n[2]>>
    [] n[1] = "Constant" ->
         CASE n[2] = "String" -> Quoted(n[3]) [] n[2] = "Char" -> <<<<"'">> \o n[3] \o <<"'">>>>
           [] OTHER -> <<n[3]>>
    [] n[1] = "Unary" -> In("(", <<n[2]>> \o Written(n[3]), ")")
    [] n[1] = "Postfix" -> In("(", Written(n[3]) \o <<n[2]>>, ")")
    [] n[1] = "Binary" -> In("(", Written(n[3]) \o <<n[2]>> \o Written(n[4]), ")")
    [] n[1] \in {"Member", "Method"} -> Written(n[2]) \o W(".") \o <<n[3][3]>>
    [] n[1] = "Index" -> Written(n[2]) \o In("[", Written(n[3]), "]")
    [] n[1] = "Slice" -> Written(n[2]) \o In("[", Written(n[3]) \o W(":") \o Written(n[4])
                                                  \o Optional(":", n[5]), "]")
    [] n[1] = "Call" -> Written(n[2]) \o In("(", Apart(n[3], Written), ")")
    [] n[1] = "Array" -> In("[", Apart(n[2], Written), "]")
    [] n[1] = "Set" -> In("|", Apart(n[2], Written), "|")
    [] n[1] = "Dict" ->
         LET Pair(d) == Written(d[1]) \o W(":") \o Written(d[2]) IN In("{", Apart(n[2], Pair), "}")
    [] n[1] \in {"async", "await"} -> W(n[1]) \o Written(n[2])
    [] n[1] = "Expression" -> Written(n[2]) \o W(";")
    [] n[1] = "Let" ->
         LET Variable(d) == <<d[1]>> \o Optional("=", d[2])
         IN  W("let") \o Apart(n[2], Variable) \o W(";")
    [] n[1] = "Block" -> Braced(n[2])
    [] n[1] = "If" -> W("if") \o In("(", Written(n[2]), ")") \o Written(n[3]) \o Optional("else", n[4])
    [] n[1] = "While" -> W("while") \o In("(", Written(n[2]), ")") \o Written(n[3])
    [] n[1] = "For" ->
         W("for") \o In("(", Written(n[2]) \o W(";") \o Written(n[3]) \o W(";") \o Written(n[4]), ")")
         \o Written(n[5])
    [] n[1] \in {"break", "continue"} -> W(n[1]) \o W(";")
    [] n[1] = "Return" -> W("return") \o Written(n[2]) \o W(";")
    [] n[1] = "Try" ->
         W("try") \o Written(n[2])
         \o (IF n[4] = Null THEN <<>> ELSE W("catch") \o In("(", <<n[3]>>, ")") \o Written(n[4]))
         \o Optional("finally", n[5])
    [] n[1] = "Import" -> W("import") \o Quoted(n[2]) \o W(";")
    [] n[1] = "ImportAs" -> W("import") \o Quoted(n[2]) \o W("as") \o <<n[3]>> \o W(";")
    [] n[1] = "ImportAll" -> W("import") \o W("*") \o W("from") \o Quoted(n[2]) \o W(";")
    [] n[1] = "ImportItems" ->
         LET Item(d) == IF d[1] = d[2] THEN <<d[1]>> ELSE <<d[1]>> \o W("as") \o <<d[2]>>
         IN  W("import") \o In("{", Apart(n[3], Item), "}") \o W("from") \o Quoted(n[2]) \o W(";")
    [] n[1] = "Function" -> W("function") \o <<n[2]>> \o In("(", Apart(n[3], Name), ")") \o Braced(n[4])
    [] n[1] = "Visibility" -> <<n[2]>>
    [] n[1] = "Struct" ->
         LET Member(m) == IF m[1] = "Visibility" THEN <<m[2]>> ELSE <<m[2][1][1]>> \o W(";")
             all[i \in 0..Len(n[3])] == IF i = 0 THEN <<>> ELSE all[i - 1] \o Member(n[3][i])
         IN  W("struct") \o <<n[2]>> \o In("{", all[Len(n[3])], "}")
    [] n[1] = "Class" ->
         W("class") \o <<n[2]>> \o (IF n[3] = <<"Object">> THEN <<>> ELSE W(":") \o <<n[3]>>)
         \o (IF n[4] = <<>> THEN <<>> ELSE W("implements") \o Apart(n[4], Name)) \o Braced(n[5])
    [] n[1] = "Interface" ->
         LET Method(m) == W("function") \o <<m[1]>> \o In("(", Apart(m[2], Name), ")")
             all[i \in 0..Len(n[4])] == IF i = 0 THEN <<>> ELSE all[i - 1] \o Method(n[4][i])
         IN  W("interface") \o <<n[2]>> \o (IF n[3] = <<>> THEN <<>> ELSE W(":") \o Apart(n[3], Name))
             \o In("{", all[Len(n[4])], "}")
    [] n[1] = "Module" -> W("module") \o <<n[2]>> \o Braced(n[3])

\* The characters of a sequence of lexemes: a blank behind each, a line end.
Spelled(lexemes) ==
  LET all[i \in 0..Len(lexemes)] == IF i = 0 THEN <<>> ELSE all[i - 1] \o lexemes[i] \o <<" ">>
  IN  all[Len(lexemes)] \o <<"\n">>

\* A chain of variables and operators: the operators, the tree in which a tighter
\* operator is below a looser one and the rest nests to the left, and the
\* lexemes of a tree from left to right.
OperatorsOf(chain) == [i \in 1..(Len(chain) \div 2) |-> chain[2 * i]]
RECURSIVE Grouped(_), InOrder(_)
Grouped(chain) ==
  LET at(i) == Precedence(chain[2 * i])
      ops == DOMAIN OperatorsOf(chain)
      root == 2 * (CHOOSE i \in ops : \A j \in ops : at(i) < at(j) \/ (at(i) = at(j) /\ i >= j))
  IN  IF ops = {} THEN <<"Variable", chain[1]>>
      ELSE <<"Binary", chain[root], Grouped(SubSeq(chain, 1, root - 1)),
             Grouped(SubSeq(chain, root + 1, Len(chain)))>>
InOrder(n) == IF n[1] = "Binary" THEN InOrder(n[3]) \o <<n[2]>> \o InOrder(n[4]) ELSE <<n[2]>>

\* No operator of the tree is below one that binds more.
RECURSIVE TighterBelow(_)
TighterBelow(n) ==
  n[1] = "Binary" =>
    \A e \in {n[3], n[4]} :
      TighterBelow(e) /\ (e[1] = "Binary" => Precedence(e[2]) >= Precedence(n[2]))

(* -------------------------------- steps --------------------------------- *)

Closed == [kind |-> "none", of |-> <<>>, made |-> FALSE]
More == parser.look \notin Stops \cup {EndOfFile}

Init == source = Closed /\ parser = Before(<<EndOfFile>>) /\ read = <<>> /\ program = <<>> /\ optimized = FALSE

\* from_file or from_string, and the first move, in a process whose other lexers
\* have made the token factory or have not.
Open(kind, of, text) ==
  /\ source = Closed
  /\ \E made \in BOOLEAN :
       /\ source' = [kind |-> kind, of |-> of, made |-> made]
       /\ parser' = Before(Tokens(text, Start(made)))
  /\ UNCHANGED <<read, program, optimized>>

\* A client takes the token looked at.
ReadToken ==
  /\ source.kind = "text" /\ More
  /\ read' = Append(read, parser.look.text)
  /\ parser' = Move(parser)
  /\ UNCHANGED <<source, program, optimized>>

\* One round of parseProgram.
Declare ==
  /\ source.kind \in {"program", "chain"} /\ More
  /\ LET r == Parse(<<"declaration">>, parser)
     IN  /\ parser' = r.p
         /\ program' = IF r.p.look \in Stops THEN program ELSE Append(program, r.n)
  /\ UNCHANGED <<source, read, optimized>>

Optimize ==
  /\ source.kind = "program" /\ parser.look = EndOfFile /\ ~optimized
  /\ program' = Each(program)
  /\ optimized' = TRUE
  /\ UNCHANGED <<source, parser, read>>

Next ==
  \/ \E t \in Texts : Open("text", t, t)
  \/ \E p \in Programs : Open("program", p, Spelled(Joined(p)))
  \/ \E c \in Chains : Open("chain", c, Spelled(c \o W(";")))
  \/ ReadToken \/ Declare \/ Optimize

Spec == Init /\ [][Next]_vars

(* ------------------------------ properties ------------------------------ *)

\* A client gets the longest lexemes of a plain text, in order and all of them,
\* and the scanner always gets to the end: match_id and its like put back what
\* they read too far, match_other nothing else.  Where no lexer of the process
\* has made the token factory, and no token of this text has, this goes up to
\* the first that takes it from the global pointer (lexer.cpp:440).
TokensAreLongest ==
  source.kind = "text" /\ Plain(source.of) =>
    LET lexemes == Lexemes(source.of)
        reads   == Reads(lexemes, source.made)
    IN  /\ Len(read) <= reads /\ \A i \in DOMAIN read : read[i] = TextOf(lexemes[i])
        /\ parser.look = EndOfFile => Len(read) = Len(lexemes)
        /\ parser.look \in Stops => Len(read) = reads /\ reads < Len(lexemes)

\* A program written with every operation in parentheses is read as the program
\* that was written, declaration by declaration, and the optimizer leaves it so
\* (parseDeclaration, parseStatement, parsePrimary, parsePostfix), if the
\* scanner gets through it.
ProgramsReadBack ==
  source.kind = "program" =>
    LET lexemes == Joined(source.of)
    IN  /\ Len(program) <= Len(source.of) /\ program = SubSeq(source.of, 1, Len(program))
        /\ parser.look = EndOfFile => program = source.of
        /\ parser.look \in Stops => Reads(lexemes, source.made) < Len(lexemes)

\* What is read of a chain of variables and binary operators without parentheses
\* loses and moves no operand and no operator, and puts none below one that
\* binds more: it is the whole chain or nothing (parseExpressionWithPrecedence).
ChainsKeepOrder ==
  source.kind = "chain" /\ program # <<>> =>
    /\ Len(program) = 1 /\ program[1][1] = "Expression"
    /\ InOrder(program[1][2]) = source.of
    /\ TighterBelow(program[1][2])

\* Sums of products and products of sums, "a + b * c" and "a * b + c", are read,
\* with the tighter operator below: so says unit-tests/test_continuous_plus.txt
\* of the two, and parseExpressionWithPrecedence of all operators that it calls
\* left-associative.
ChainsAccepted ==
  source.kind = "chain" /\ ~More
    /\ (\A i, j \in DOMAIN OperatorsOf(source.of) :
          i # j => Precedence(OperatorsOf(source.of)[i]) # Precedence(OperatorsOf(source.of)[j]))
    /\ (\A i \in DOMAIN OperatorsOf(source.of) : OperatorsOf(source.of)[i] # <<"=">>) =>
    program = <<<<"Expression", Grouped(source.of)>>>>

============================================================================
