---------------------------- MODULE Interpreter ----------------------------
(***************************************************************************)
(* How Interpreter executes statements (statement.cpp, interpreter.cpp,    *)
(* function_call.cpp, expression.cpp).                                     *)
(*                                                                         *)
(* The visit methods recurse on the C++ stack: a frame is one activation   *)
(* of a visit method.  break, continue, return and run-time errors are     *)
(* C++ exceptions: signal is the exception in flight, and unwinding takes  *)
(* one frame per step.  The program is not fixed: wherever a statement or  *)
(* an expression is visited, any one may stand, so that one model covers   *)
(* every program whose visits nest no deeper than MaxFrames.  Values are   *)
(* left out, a condition is TRUE or FALSE, and of a scope only its place   *)
(* on the scope stack is kept.                                             *)
(***************************************************************************)
EXTENDS Naturals, Sequences

CONSTANT MaxFrames      \* bound on how deep the visits nest

ASSUME InterpreterAssumption == MaxFrames \in Nat \ {0}

VARIABLES
    frames,     \* the activations; the last one runs
    depth,      \* ScopeManager::scopes.size()
    signal,     \* the exception in flight, "none" without one
    target      \* history: the frame that is to catch it

vars == <<frames, depth, signal, target>>

Loops   == {"while", "for", "dowhile"}
Kinds   == Loops \cup {"program", "block", "expr", "if", "switch", "try", "call"}
Signals == {"break", "continue", "return", "error"}

\* Places where an expression is evaluated, and where a statement is visited.
EvalPlaces == {"eval", "init", "cond", "incr", "select", "label"}
BodyPlaces == {"body", "catch", "finally"}

\* matched and default: foundMatch and executedDefault of a switch.
Flags == {"catch", "finally", "matched", "default"}

\* The scope stack below user code: the global scope and the one that the
\* constructor of Interpreter enters.
BaseDepth == 2

\* at: the place reached; busy: the statement of that place has been visited;
\* base: history, the size of the scope stack when the frame was entered.
Frame(kind, at, flags) ==
    [kind |-> kind, at |-> at, busy |-> FALSE, flags |-> flags, base |-> depth]

Init ==
    /\ frames = <<>>
    /\ depth = BaseDepth
    /\ signal = "none"
    /\ target = 0

Top == frames[Len(frames)]
Callers == SubSeq(frames, 1, Len(frames) - 1)
Running == signal = "none" /\ frames # <<>>
Thrown  == signal # "none" /\ frames # <<>>
RunningIn(kind, at) == Running /\ Top.kind = kind /\ Top.at = at

ExitScope == depth' = IF depth > 1 THEN depth - 1 ELSE depth

\* Faulty variant of Scoped: the scope of an if is opened before its condition.
ScopedThroughout(f) == f.kind \in {"block", "call", "if"}

\* The frames whose function has entered a scope: a block, a chosen branch of
\* an if, a function call.
Scoped(f) == f.kind \in {"block", "call"} \/ (f.kind = "if" /\ f.at = "body")

\* Faulty variant of Leave: the scope is left on the normal path only.
LeaveNormally ==
    frames' = Callers /\ (IF Scoped(Top) /\ signal = "none" THEN ExitScope ELSE UNCHANGED depth)

\* The last frame goes; withScope and callFunction leave the scope on every path.
Leave == frames' = Callers /\ (IF Scoped(Top) THEN ExitScope ELSE UNCHANGED depth)

GoTo(at) == frames' = [frames EXCEPT ![Len(frames)].at = at, ![Len(frames)].busy = FALSE]
Quiet == UNCHANGED <<signal, target>>

----------------------------------------------------------------------------
(* Statements begin where a statement is visited.  A block, the body of a  *)
(* while and a program visit any number of them, other places just one.    *)

Sequences == {"program", "block", "while"}
AtStatement == Running /\ Top.at \in BodyPlaces /\ ~Top.busy
Visited == [frames EXCEPT ![Len(frames)].busy = Top.kind \notin Sequences]

Begin(kind, at, flags) ==
    /\ AtStatement
    /\ Len(frames) < MaxFrames
    /\ frames' = Append(Visited, Frame(kind, at, flags))
    /\ Quiet

BeginBlock      == Begin("block", "body", {}) /\ depth' = depth + 1
\* An ExpressionStatement, a VariableDefinition or the operand of a return.
BeginExpression == Begin("expr", "eval", {}) /\ UNCHANGED depth
BeginIf         == Begin("if", "cond", {}) /\ UNCHANGED depth
BeginWhile      == Begin("while", "cond", {}) /\ UNCHANGED depth
BeginFor        == \E at \in {"init", "cond"} : Begin("for", at, {}) /\ UNCHANGED depth
BeginDoWhile    == Begin("dowhile", "body", {}) /\ UNCHANGED depth
BeginSwitch     == Begin("switch", "select", {}) /\ UNCHANGED depth
BeginTry        == \E given \in SUBSET {"catch", "finally"} :
                       Begin("try", "body", given) /\ UNCHANGED depth

Statement ==
    \/ BeginBlock \/ BeginExpression \/ BeginIf \/ BeginWhile \/ BeginFor
    \/ BeginDoWhile \/ BeginSwitch \/ BeginTry

----------------------------------------------------------------------------
(* Exceptions.  Handles is the catch clauses of the visit methods, of      *)
(* executeFunction and of parseAndExecute, frame by frame.                 *)

\* Faulty variant of Handles: a switch takes a continue as it takes a break.
SwitchTakesContinue(f) ==
    \/ f.kind \in Loops \cup {"switch"} /\ f.at = "body" /\ signal \in {"break", "continue"}
    \/ f.kind \in {"try", "call"} /\ f.at = "body"
    \/ f.kind = "program"

Handles(f) ==
    \/ f.kind \in Loops /\ f.at = "body" /\ signal \in {"break", "continue"}
    \/ f.kind = "switch" /\ f.at = "body" /\ signal = "break"
    \/ f.kind \in {"try", "call"} /\ f.at = "body"
    \/ f.kind = "program"

\* What a jump is for, whatever the handlers do: the nearest loop, or for a
\* break loop or switch, of the same function; a try block, the function and
\* the program take everything.
Takes(f, thrown) ==
    \/ f.kind = "program"
    \/ /\ f.at = "body"
       /\ \/ f.kind \in {"try", "call"}
          \/ thrown = "break" /\ f.kind \in Loops \cup {"switch"}
          \/ thrown = "continue" /\ f.kind \in Loops

Catcher(thrown) ==
    CHOOSE i \in DOMAIN frames :
        /\ Takes(frames[i], thrown)
        /\ \A j \in DOMAIN frames : Takes(frames[j], thrown) => j <= i

Raise(thrown) ==
    /\ signal' = thrown
    /\ target' = Catcher(thrown)
    /\ UNCHANGED <<frames, depth>>

\* BreakStatement, ContinueStatement.
Jump == AtStatement /\ \E thrown \in {"break", "continue"} : Raise(thrown)

\* ReturnStatement, the ReturnException that a failed call throws, or a
\* std::exception of an operator or of a built-in function.
ThrowFromExpression ==
    /\ Running
    /\ Top.at \in EvalPlaces \cup {"bind"}
    /\ \E thrown \in {"return", "error"} : Raise(thrown)

Caught == signal' = "none" /\ target' = 0

Unwind == Thrown /\ ~Handles(Top) /\ Leave /\ Quiet

AfterContinue ==
    CASE Top.kind = "for"     -> {"incr", "cond"}
      [] Top.kind = "while"   -> {"cond"}
      [] Top.kind = "dowhile" -> {"body"}      \* the condition is not evaluated

CatchInLoop ==
    /\ Thrown /\ Handles(Top) /\ Top.kind \in Loops
    /\ \/ signal = "break" /\ Leave
       \/ signal = "continue" /\ (\E at \in AfterContinue : GoTo(at)) /\ UNCHANGED depth
    /\ Caught

CatchInSwitch == Thrown /\ Handles(Top) /\ Top.kind = "switch" /\ Leave /\ Caught

\* catch (...): the catch block if there is one, else what follows the try.
CatchInTry ==
    /\ Thrown /\ Handles(Top) /\ Top.kind = "try"
    /\ IF "catch" \in Top.flags THEN GoTo("catch") /\ UNCHANGED depth
       ELSE IF "finally" \in Top.flags THEN GoTo("finally") /\ UNCHANGED depth
       ELSE Leave
    /\ Caught

\* executeFunction turns a return into a value and any other exception into
\* an error text; callFunction then leaves the scope.
CatchInCall == Thrown /\ Handles(Top) /\ Top.kind = "call" /\ Leave /\ Caught

CatchInProgram == Thrown /\ Handles(Top) /\ Top.kind = "program" /\ Leave /\ Caught

Exception ==
    \/ Jump \/ ThrowFromExpression \/ Unwind
    \/ CatchInLoop \/ CatchInSwitch \/ CatchInTry \/ CatchInCall \/ CatchInProgram

----------------------------------------------------------------------------
(* Expressions, and the calls in them.                                     *)

\* callFunction and the two callMethod functions: a scope, then the binding
\* of the arguments in it and the dispatch.
BeginCall ==
    /\ Running
    /\ Top.at \in EvalPlaces
    /\ Len(frames) < MaxFrames
    /\ frames' = Append(frames, Frame("call", "bind", {}))
    /\ depth' = depth + 1
    /\ Quiet

RunUserFunction == RunningIn("call", "bind") /\ GoTo("body") /\ UNCHANGED depth /\ Quiet

\* A built-in function returns, or there is no body to run.
ReturnFromNative == RunningIn("call", "bind") /\ Leave /\ Quiet

EndOfBody == RunningIn("call", "body") /\ Top.busy /\ Leave /\ Quiet

EndExpression == RunningIn("expr", "eval") /\ Leave /\ Quiet

Expression ==
    BeginCall \/ RunUserFunction \/ ReturnFromNative \/ EndOfBody \/ EndExpression

----------------------------------------------------------------------------
(* Going on within a statement, and its end.                               *)

ParseAndExecute ==
    /\ frames = <<>>
    /\ frames' = <<Frame("program", "body", {})>>
    /\ UNCHANGED depth
    /\ Quiet

EndProgram == RunningIn("program", "body") /\ Leave /\ Quiet
EndBlock   == RunningIn("block", "body") /\ Leave /\ Quiet

\* A branch is taken in a scope of its own, or there is none for the outcome.
ChooseBranch ==
    /\ RunningIn("if", "cond")
    /\ \/ GoTo("body") /\ depth' = depth + 1
       \/ Leave
    /\ Quiet

EndIf == RunningIn("if", "body") /\ Top.busy /\ Leave /\ Quiet

\* The condition of a loop: another round, or the end.
TestCondition ==
    /\ Running /\ Top.kind \in Loops /\ Top.at = "cond"
    /\ \/ GoTo("body") /\ UNCHANGED depth
       \/ Leave
    /\ Quiet

FinishInitialization == RunningIn("for", "init") /\ GoTo("cond") /\ UNCHANGED depth /\ Quiet
FinishIncrement      == RunningIn("for", "incr") /\ GoTo("cond") /\ UNCHANGED depth /\ Quiet

EndOfRound ==
    /\ Running /\ Top.kind \in Loops /\ Top.at = "body"
    /\ Top.kind = "while" \/ Top.busy
    /\ \E at \in (IF Top.kind = "for" THEN {"incr", "cond"} ELSE {"cond"}) : GoTo(at)
    /\ UNCHANGED depth
    /\ Quiet

\* Without a value the switch is abandoned.
Select ==
    /\ RunningIn("switch", "select")
    /\ \/ GoTo("label") /\ UNCHANGED depth
       \/ Leave
    /\ Quiet

RunCase(flags) ==
    frames' = [frames EXCEPT ![Len(frames)].at = "body", ![Len(frames)].flags = flags]

\* The next case that runs: default, if nothing matched or ran as default so
\* far; one that matches; one that does not, by falling through from a match.
NextCase ==
    /\ RunningIn("switch", "label")
    /\ \/ Top.flags = {} /\ RunCase({"default"})
       \/ RunCase(Top.flags \cup {"matched"})
       \/ "matched" \in Top.flags /\ RunCase(Top.flags)
    /\ UNCHANGED depth
    /\ Quiet

EndOfCase == RunningIn("switch", "body") /\ Top.busy /\ GoTo("label") /\ UNCHANGED depth /\ Quiet
EndSwitch == RunningIn("switch", "label") /\ Leave /\ Quiet

\* Faulty variant of ReachFinally: a catch block ends the statement.
SkipAfterCatch ==
    /\ RunningIn("try", "body") \/ RunningIn("try", "catch")
    /\ Top.busy
    /\ IF "finally" \in Top.flags /\ Top.at = "body"
       THEN GoTo("finally") /\ UNCHANGED depth
       ELSE Leave
    /\ Quiet

\* The try block or the catch block is done.
ReachFinally ==
    /\ RunningIn("try", "body") \/ RunningIn("try", "catch")
    /\ Top.busy
    /\ IF "finally" \in Top.flags THEN GoTo("finally") /\ UNCHANGED depth ELSE Leave
    /\ Quiet

EndFinally == RunningIn("try", "finally") /\ Top.busy /\ Leave /\ Quiet

Progress ==
    \/ ParseAndExecute \/ EndProgram \/ EndBlock \/ ChooseBranch \/ EndIf
    \/ TestCondition \/ FinishInitialization \/ FinishIncrement \/ EndOfRound
    \/ Select \/ NextCase \/ EndOfCase \/ EndSwitch \/ ReachFinally \/ EndFinally

Next == Statement \/ Exception \/ Expression \/ Progress

Spec == Init /\ [][Next]_vars

----------------------------------------------------------------------------
(* Properties.                                                             *)

\* Types and ranges of the variables.
TypeOK ==
    /\ frames \in Seq([kind : Kinds, at : BodyPlaces \cup EvalPlaces \cup {"bind"},
                       busy : BOOLEAN, flags : SUBSET Flags, base : Nat])
    /\ Len(frames) <= MaxFrames
    /\ depth \in 1..(BaseDepth + MaxFrames)
    /\ signal \in Signals \cup {"none"}
    /\ target \in 0..Len(frames)
    /\ frames = <<>> => signal = "none"

Own(f) == IF Scoped(f) THEN 1 ELSE 0

\* The scope stack is, at any moment, the base scopes and one scope for each
\* activation that has entered one: no path through break, continue, return,
\* an error, a catch or a failed call leaves one behind or drops one too many,
\* within a program and from one program to the next.
ScopesFollowFrames ==
    /\ \A i \in DOMAIN frames :
          frames[i].base = IF i = 1 THEN BaseDepth ELSE frames[i-1].base + Own(frames[i-1])
    /\ depth = IF frames = <<>> THEN BaseDepth ELSE Top.base + Own(Top)

\* Whichever way an activation ends, the scope stack is as high as when it
\* began (withScopeVoid, callFunction).
ScopesRestored == [][Len(frames') < Len(frames) => depth' = Top.base]_vars

\* An exception is taken by the frame it was for when it was thrown: a continue
\* goes past the switch it stands in, a break ends one loop or switch, and
\* neither leaves the function it stands in.
JumpLandsOnTarget ==
    [][signal # "none" /\ signal' = "none" => Len(frames) = target]_vars

\* A finally block is skipped for one reason alone: an exception that leaves
\* the catch block of its statement.
FinallySkippedOnlyByCatch ==
    [][/\ Len(frames') < Len(frames)
       /\ Top.kind = "try" /\ "finally" \in Top.flags /\ Top.at # "finally"
       => Top.at = "catch" /\ signal # "none"]_vars

=============================================================================
