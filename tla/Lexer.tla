------------------------------- MODULE Lexer -------------------------------
(* The scanner of src/lexer/lexer.cpp as a function from characters to      *)
(* tokens, and a reference for it.  A character of the model is a letter of *)
(* the text, or a stem that stands for the letters of a keyword; `Scan' is  *)
(* one call of Lexer::scan on the stream.                                   *)
EXTENDS Integers, Sequences, FiniteSets

(* ------------------------------ characters ------------------------------ *)

\* The words of Lexer::Lexer, each a stem; those the parser asks for.
Keywords == {"if", "else", "while", "for", "case", "let", "break", "continue", "return",
  "throw", "try", "catch", "finally", "switch", "default", "function", "struct", "class",
  "import", "from", "as", "async", "await", "match", "is", "var", "set", "interface",
  "implements", "module", "any"}
TypeWords == {"int", "double", "string", "char", "bool"}
VisibilityWords == {"public", "private", "protected"}
BoolWords == {"true", "false"}
Letters == Keywords \cup TypeWords \cup VisibilityWords \cup BoolWords \cup {"x", "y", "f", "_"}
Digits == {"0", "1", "8"}
WordChars == Letters \cup Digits
Blanks == {" ", "\n"}

\* The second characters that match_other joins to a first one.
Joins == [c \in {"=", "!", "<", ">", "&", "|", "+", "-", "*", "/", "%", ".", "?"} |->
  CASE c \in {"=", "!", "*", "/", "%"} -> {"="}
    [] c \in {"<", ">"} -> {c, "="}
    [] c \in {"&", "|", ".", "?"} -> {c}
    [] c \in {"+", "-"} -> {c, "="}]

(* -------------------------------- tags ---------------------------------- *)

(* enum Tag counts its keywords on past 299 and starts the operators at 300 *)
(* again: seven operators have the number of a keyword, and a comment's is  *)
(* that of ==.                                                              *)
OperatorTag(symbol) ==
  CASE symbol = "+=" -> "is"
    [] symbol = "-=" -> "var"
    [] symbol = "*=" -> "set"
    [] symbol = "/=" -> "interface"
    [] symbol = "%=" -> "implements"
    [] symbol = "<=" -> "module"
    [] symbol = ">=" -> "any"
    [] OTHER -> symbol

TypeTag(word) ==
  CASE word = "int" -> "NUM" [] word = "double" -> "DOUBLE" [] word = "string" -> "STR"
    [] word = "char" -> "CHAR" [] word = "bool" -> "BOOL"

\* A token: its tag, what it was read from, and the class of the object.
Token(tag, text, class) == [tag |-> tag, text |-> text, class |-> class]
EndOfFile == Token("END_OF_FILE", <<>>, "Token")
Exit == Token("exit", <<>>, "Token")       \* the process ends
Hang == Token("hang", <<>>, "Token")       \* the scanner does not return
Undefined == Token("undefined", <<>>, "Token")  \* undefined behaviour was met

WordToken(word) ==
  IF Len(word) > 1 THEN Token("ID", word, "Word")
  ELSE LET w == word[1]
       IN  CASE w \in Keywords -> Token(w, word, "Word")
             [] w \in TypeWords -> Token(TypeTag(w), word, "Type")
             [] w \in VisibilityWords -> Token(w, word, "Visibility")
             [] w \in BoolWords -> Token("BOOL", word, "Bool")
             [] OTHER -> Token("ID", word, "Word")

(* ------------------------------- stream --------------------------------- *)

\* istream: the characters read, the last one, and its flags; and whether the
\* process has made the token factory (value.cpp), a global pointer.
Start(made) == [pos |-> 0, peek |-> " ", eof |-> FALSE, fail |-> FALSE, factory |-> made]

\* A read that fails leaves `peek' as it was.
ReadChar(s, st) ==
  CASE st.fail \/ st.eof -> [st EXCEPT !.fail = TRUE]
    [] st.pos < Len(s) /\ ~(st.fail \/ st.eof) -> [st EXCEPT !.pos = @ + 1, !.peek = s[st.pos + 1]]
    [] OTHER -> [st EXCEPT !.eof = TRUE, !.fail = TRUE]

\* seekg(-1, cur) clears eof and, on a stream that failed, does nothing else.
BackOne(st) ==
  IF st.fail THEN [st EXCEPT !.eof = FALSE] ELSE [st EXCEPT !.eof = FALSE, !.pos = @ - 1]

(* Reads on while the last character is in C.  At the end of the text `peek' *)
(* stays, and so does the loop.                                              *)
ReadWhile(s, st, C) ==
  LET after == {n \in (st.pos + 1)..Len(s) : s[n] \notin C}
      last == CHOOSE n \in after : \A m \in after : n <= m
  IN  IF after = {} THEN [st EXCEPT !.eof = TRUE, !.fail = TRUE, !.pos = Len(s)]
      ELSE [st EXCEPT !.pos = last, !.peek = s[last]]

\* What a matcher returns: the stream behind the token, and the token.
Done(st, token) == [st |-> st, token |-> token]

\* A token from getFactory(), which makes the factory where there is none, and
\* one from the pointer itself, which is null till then.
FromFactory(st, token) == Done([st EXCEPT !.factory = TRUE], token)
FromPointer(st, token) == Done(st, IF st.factory THEN token ELSE Undefined)

(* ------------------------------- matchers ------------------------------- *)

\* The words of Lexer::Lexer have their tokens.
MatchWord(st, token) == IF token.tag = "ID" THEN FromFactory(st, token) ELSE Done(st, token)

\* Faulty variant: the character behind the word is not put back.
MatchIdEatingOne(s, st) ==
  LET end == ReadWhile(s, st, WordChars)
  IN  IF end.fail THEN Done(end, Hang)
      ELSE MatchWord(end, WordToken(SubSeq(s, st.pos, end.pos - 1)))

MatchId(s, st) ==
  LET end == ReadWhile(s, st, WordChars)
  IN  IF end.fail THEN Done(end, Hang)
      ELSE MatchWord(BackOne(end), WordToken(SubSeq(s, st.pos, end.pos - 1)))

\* match_decimal, from its first digit.
MatchDecimal(s, st) ==
  LET whole == ReadWhile(s, st, Digits)
      point == ReadChar(s, whole)
      end == IF point.peek \in Digits /\ ~point.fail THEN ReadWhile(s, point, Digits) ELSE point
  IN  CASE whole.fail -> Done(whole, Hang)
        [] ~whole.fail /\ whole.peek # "." ->
             FromFactory(BackOne(whole), Token("NUM", SubSeq(s, st.pos, whole.pos - 1), "Integer"))
        [] OTHER ->
             IF end.fail /\ end.peek \in Digits THEN Done(end, Hang)
             ELSE FromFactory(BackOne(end),
                    Token("REAL", SubSeq(s, st.pos, IF end.fail THEN end.pos ELSE end.pos - 1), "Double"))

\* match_number: a leading zero starts an octal number (a hexadecimal one is
\* not modelled: no letter of the model is an x that follows a zero).
MatchNumber(s, st) ==
  LET next == ReadChar(s, st)
      octal == ReadWhile(s, next, {"0", "1"})
  IN  CASE st.peek # "0" -> MatchDecimal(s, st)
        [] st.peek = "0" /\ ~next.fail /\ next.peek = "1" ->
             IF octal.fail THEN Done(octal, Hang)
             ELSE FromPointer(BackOne(octal), Token("NUM", SubSeq(s, st.pos, octal.pos - 1), "Integer"))
        [] st.peek = "0" /\ ~next.fail /\ next.peek \in {".", "0", "8"} -> MatchDecimal(s, st)
        [] OTHER -> FromFactory(BackOne(next), Token("NUM", <<"0">>, "Integer"))

\* match_string, from the character behind the quote; the end of the text ends
\* the string as well.  Escapes: a backslash takes one character, of a list.
MatchString(s, st) ==
  LET upTo[n \in st.pos..(Len(s) + 1)] ==   \* what reading to the n-th makes of it
        IF n = st.pos THEN "open"
        ELSE LET before == upTo[n - 1] IN
             CASE before \in {"closed", "exit"} -> before
               [] before = "escape" ->
                    IF n <= Len(s) /\ s[n] \in {"\\", "'", "\"", "0"} THEN "open" ELSE "exit"
               [] n > Len(s) -> "ended"
               [] s[n] = "\"" -> "closed"
               [] s[n] = "\\" -> "escape"
               [] OTHER -> "open"
      ends == {n \in DOMAIN upTo : upTo[n] # "open" /\ upTo[n] # "escape"}
      end == CHOOSE n \in ends : \A m \in ends : n <= m
      text == SubSeq(s, st.pos + 1, end - 1)
  IN  CASE upTo[end] = "exit" -> Done(st, Exit)
        [] upTo[end] = "closed" -> Done([st EXCEPT !.pos = end, !.peek = "\""], Token("STR", text, "String"))
        [] OTHER -> Done([st EXCEPT !.pos = Len(s), !.eof = TRUE, !.fail = TRUE],
                         Token("STR", text, "String"))

\* match_char: one character or one escape between quotes.
MatchChar(s, st) ==
  LET escaped == st.pos + 1 <= Len(s) /\ s[st.pos + 1] = "\\"
      end == st.pos + (IF escaped THEN 3 ELSE 2)
  IN  IF end > Len(s) \/ (escaped /\ s[end - 1] \notin {"\\", "'", "\"", "0", "f"}) \/ s[end] # "'"
      THEN Done(st, Exit)
      ELSE FromFactory([st EXCEPT !.pos = end, !.peek = "'"], Token("CHAR", SubSeq(s, st.pos + 1, end - 1), "Char"))

\* match_other.  ^ and ~ read the next character and keep it; a read that fails
\* leaves `peek' and so doubles the operator.  The operators have their tokens,
\* plain punctuation has not.
MatchOther(s, st) ==
  LET c == st.peek
      next == ReadChar(s, st)
      Operator(text, symbol, after) == Done(after, Token(OperatorTag(symbol), text, "Operator"))
  IN  CASE c \in DOMAIN Joins ->
             IF next.peek \in Joins[c]
             THEN Operator(<<c, next.peek>>, c \o next.peek, next) ELSE Operator(<<c>>, c, BackOne(next))
        [] c \in {"^", "~"} -> Operator(<<c>>, c, next)
        [] OTHER -> FromPointer(st, Token(c, <<c>>, "Token"))

(* Skip_comment, from a / or a #: the stream behind it, or no comment.  A    *)
(* block comment reads one character past its end, and a star just before    *)
(* the closing star hides it.                                                *)
LineEnd(s, from) ==
  LET ends == {n \in from..Len(s) : s[n] = "\n"}
  IN  IF ends = {} THEN Len(s) + 1 ELSE CHOOSE n \in ends : \A m \in ends : n <= m

BlockEnd(s, from) ==
  LET inside[n \in from..(Len(s) + 1)] ==   \* whether the n-th is read by the outer loop
        IF n = from THEN TRUE ELSE ~(inside[n - 1] /\ s[n - 1] = "*")
      ends == {n \in (from + 1)..Len(s) : s[n] = "/" /\ s[n - 1] = "*" /\ inside[n - 1]}
  IN  IF ends = {} THEN Len(s) + 1 ELSE (CHOOSE n \in ends : \A m \in ends : n <= m) + 1

At(s, st, n) ==
  IF n > Len(s) THEN [st EXCEPT !.pos = Len(s), !.eof = TRUE, !.fail = TRUE]
  ELSE [st EXCEPT !.pos = n, !.peek = s[n]]

SkipComment(s, st) ==
  LET next == ReadChar(s, st)
  IN  CASE st.peek = "#" \/ (st.peek = "/" /\ next.peek = "/") ->
             [is |-> TRUE, st |-> At(s, st, LineEnd(s, st.pos + 1))]
        [] st.peek = "/" /\ next.peek = "*" ->
             [is |-> TRUE, st |-> At(s, st, BlockEnd(s, st.pos + 2))]
        [] OTHER -> [is |-> FALSE, st |-> [BackOne(next) EXCEPT !.peek = "/"]]

\* The characters scan passes over before a token.
Skip(s, st0) ==
  LET step(st) ==
        LET read == ReadChar(s, st)
        IN  CASE read.fail -> [stop |-> TRUE, st |-> read]
              [] ~read.fail /\ read.peek \in Blanks -> [stop |-> FALSE, st |-> read]
              [] ~read.fail /\ read.peek \in {"/", "#"} ->
                   LET c == SkipComment(s, read) IN [stop |-> ~c.is, st |-> c.st]
              [] OTHER -> [stop |-> TRUE, st |-> read]
      after[n \in 0..(Len(s) + 1)] ==
        IF n = 0 THEN [stop |-> FALSE, st |-> st0]
        ELSE LET before == after[n - 1] IN IF before.stop THEN before ELSE step(before.st)
  IN  after[Len(s) + 1].st

Scan(s, st) ==
  LET first == Skip(s, st)
      c == first.peek
  IN  CASE st.eof \/ first.eof -> Done(first, EndOfFile)
        [] c = "'" -> MatchChar(s, first)
        [] c = "\"" -> MatchString(s, first)
        [] c \in Letters -> MatchId(s, first)
        [] c \in Digits -> MatchNumber(s, first)
        [] OTHER -> MatchOther(s, first)

(* The tokens from there on, to the end of the file or to where the scanner  *)
(* stops.  Whoever asks for them one by one has no influence on the next.    *)
RECURSIVE Tokens(_, _)
Tokens(s, st) ==
  LET r == Scan(s, st)
  IN  IF r.token \in {EndOfFile, Exit, Hang, Undefined} THEN <<r.token>> ELSE <<r.token>> \o Tokens(s, r.st)

(* ------------------------------ reference ------------------------------- *)

\* The lexemes of the language, whole strings of characters.
IsWord(t) == t[1] \in Letters /\ \A i \in DOMAIN t : t[i] \in WordChars
IsNumber(t) ==
  /\ t[1] \in Digits
  /\ \A i \in DOMAIN t : t[i] \in Digits \cup {"."}
  /\ Cardinality({i \in DOMAIN t : t[i] = "."}) <= 1
IsOperator(t) ==
  \/ Len(t) = 1 /\ t[1] \notin WordChars \cup Blanks \cup {"\"", "'", "#"}
  \/ Len(t) = 2 /\ t[1] \in DOMAIN Joins /\ t[2] \in Joins[t[1]]
IsComment(t) ==
  /\ t[1] = "#" \/ (Len(t) >= 2 /\ t[1] = "/" /\ t[2] = "/")
  /\ \A i \in 1..(Len(t) - 1) : t[i] # "\n"
IsQuoted(t) ==
  /\ Len(t) >= 2 /\ t[1] = "\"" /\ t[Len(t)] = "\""
  /\ \A i \in 2..(Len(t) - 1) : t[i] # "\""
IsLexeme(t) == IsWord(t) \/ IsNumber(t) \/ IsOperator(t) \/ IsComment(t) \/ IsQuoted(t)

\* What a token shows of its lexeme.
TextOf(t) == IF IsQuoted(t) THEN SubSeq(t, 2, Len(t) - 1) ELSE t

\* The lexemes of a text, each the longest that starts where it does.
Lexemes(s) ==
  LET longest(p) ==
        LET ends == {q \in p..Len(s) : IsLexeme(SubSeq(s, p, q))}
        IN  IF ends = {} THEN p ELSE CHOOSE q \in ends : \A r \in ends : r <= q
      from[p \in 1..(Len(s) + 1)] ==
        IF p > Len(s) THEN <<>>
        ELSE LET t == SubSeq(s, p, longest(p))
             IN  (IF s[p] \in Blanks \/ IsComment(t) THEN <<>> ELSE <<t>>) \o from[longest(p) + 1]
  IN  from[1]

\* The lexemes whose tokens make the factory, and those that need it made: no
\* text of the reference has an octal number.
MakesFactory(t) ==
  (IsWord(t) /\ WordToken(t).tag = "ID") \/ IsNumber(t) \/ t[1] = "'"
NeedsFactory(t) == IsOperator(t) /\ t[1] \notin DOMAIN Joins \cup {"^", "~"}

\* How many of the lexemes are read, if the factory was made or was not: all of
\* them, or those before the first that needs it and has it not.
Reads(lexemes, made) ==
  LET stuck == {i \in DOMAIN lexemes : NeedsFactory(lexemes[i]) /\ ~made
                                        /\ \A j \in 1..(i - 1) : ~MakesFactory(lexemes[j])}
  IN  IF stuck = {} THEN Len(lexemes) ELSE (CHOOSE i \in stuck : \A j \in stuck : i <= j) - 1

(* What the scanner is known to read differently: ^ and ~ swallow the next   *)
(* character, a block comment the one behind it, a leading zero makes an     *)
(* octal number that ends before an 8, a word at the end of the text never   *)
(* ends, and an open string does.  A line of a plain text has its quotes in  *)
(* pairs.                                                                    *)
Plain(s) ==
  /\ s # <<>> /\ s[Len(s)] = "\n"
  /\ \A i \in DOMAIN s : s[i] \notin {"^", "~", "'", "\\"}
  /\ \A i \in 1..(Len(s) - 1) : ~(s[i] = "/" /\ s[i + 1] = "*") /\ ~(s[i] = "0" /\ s[i + 1] \in Digits)
  /\ \A line \in {i \in DOMAIN s : s[i] = "\n"} :
       Cardinality({i \in 1..line : s[i] = "\""}) % 2 = 0
============================================================================
