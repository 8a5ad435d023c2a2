-------------------------------- MODULE Scope --------------------------------
(***************************************************************************)
(* Names, scopes and values of a running script: ScopeManager and          *)
(* ObjectRegistry (scope_manager.cpp, object_registry.cpp), the visits of  *)
(* definitions (definition_visits.cpp) and what expressions do to the      *)
(* values that scopes hold (expression.cpp, calculate.cpp).                *)
(*                                                                         *)
(* A value is a heap object: scopes and the arguments of running calls     *)
(* hold pointers to it, nothing counts them, and some operations delete    *)
(* it.  What a value contains is left out.  A value that nothing holds any *)
(* more is a leak: its name is used again, so that a script of any length  *)
(* runs on a few values.                                                   *)
(***************************************************************************)
EXTENDS Naturals, Sequences

CONSTANTS
    Names,          \* of variables
    Params,         \* the parameters of every function, a sequence of Names
    Functions,      \* names of functions
    Classes,        \* names of classes
    Bodies,         \* of function definitions
    Natives,        \* function objects made by others than the script
    Values,         \* heap objects
    Nothing,        \* the null pointer
    MaxFrames       \* bound on nested blocks, class bodies and calls

\* UserFunction objects: with a prototype only, and with a body.
Forward         == [owner |-> "user", body |-> Nothing]
UserFunction(b) == [owner |-> "user", body |-> b]
UserFunctions   == {Forward} \cup {UserFunction(b) : b \in Bodies}
FunctionObjects == UserFunctions \cup Natives

ASSUME ScopeAssumption ==
    /\ Params \in Seq(Names)
    /\ Nothing \notin Names \cup Functions \cup Classes \cup Values \cup FunctionObjects
    /\ Nothing \notin Bodies
    /\ Natives \cap UserFunctions = {}
    /\ MaxFrames \in Nat

VARIABLES
    scopes,     \* ScopeManager::scopes, the current scope last
    frames,     \* the visits of blocks, class bodies and calls that run
    freed,      \* values deleted while something holds them
    handed,     \* history: held values that were copied, passed or operated on
    fault       \* the undefined behaviour met, which ends what can be said

scopeVars == <<scopes, frames, freed, handed, fault>>

----------------------------------------------------------------------------
(* Scopes.                                                                 *)

NoNames == [n \in Names |-> Nothing]

\* class: the value of __class__ (or __struct__), once set never removed.
EmptyScope ==
    [vars |-> NoNames, funs |-> [f \in Functions |-> Nothing], class |-> Nothing]

\* The global scope and the one the constructor of Interpreter enters.
BaseScopes == <<EmptyScope, EmptyScope>>

Current(scs) == scs[Len(scs)]

\* exitScope, k times.
Popped(scs, k) == SubSeq(scs, 1, Len(scs) - k)

\* Places where variable n, or function f, is found; the last one counts.
VariableAt(n) == {i \in DOMAIN scopes : scopes[i].vars[n] # Nothing}
FunctionAt(scs, f) == {i \in DOMAIN scs : scs[i].funs[f] # Nothing}
Innermost(places) == CHOOSE i \in places : \A j \in places : j <= i

\* ScopeManager::lookupVariable and lookupFunction.
LookupVariable(n) ==
    IF VariableAt(n) = {} THEN Nothing ELSE scopes[Innermost(VariableAt(n))].vars[n]
LookupFunction(scs, f) ==
    IF FunctionAt(scs, f) = {} THEN Nothing ELSE scs[Innermost(FunctionAt(scs, f))].funs[f]

InClassContext(scs) == Current(scs).class # Nothing

\* defineVariable, outside the context of a class.
DefineVariable(scs, n, value) == [scs EXCEPT ![Len(scs)].vars[n] = value]

\* defineFunction: refused if the name is a function anywhere; in the context
\* of a class the function becomes a method of the type, and no scope changes.
DefineFunction(scs, f, object) ==
    IF LookupFunction(scs, f) # Nothing \/ InClassContext(scs)
    THEN scs
    ELSE [scs EXCEPT ![Len(scs)].funs[f] = object]

----------------------------------------------------------------------------
(* Values.                                                                 *)

Elements(s) == {s[i] : i \in DOMAIN s}

HeldBy(scs, frs) ==
    ( {scs[i].vars[n] : i \in DOMAIN scs, n \in Names}
      \cup UNION {Elements(frs[i].args) : i \in DOMAIN frs} ) \ {Nothing}

Unheld == Values \ HeldBy(scopes, frames)

\* The rest of a step that deletes the values gone and hands over given.
Free(gone, given) ==
    LET held == HeldBy(scopes', frames') IN
    /\ freed' = (freed \cup gone) \cap held
    /\ handed' = (handed \cup given) \cap held
    /\ fault' = IF gone \cap freed # {} THEN "double free" ELSE fault

Faulted(kind) == fault' = kind /\ UNCHANGED <<scopes, frames, freed, handed>>

----------------------------------------------------------------------------
(* Statements run at top level, in a block and in the body of a function;  *)
(* a class body has definitions only.                                      *)

Running == fault = "none"
InClassBody == frames # <<>> /\ frames[Len(frames)].kind = "class"
AtStatement == Running /\ ~InClassBody
Outer(frs, k) == SubSeq(frs, 1, Len(frs) - k)
CanNest == Len(frames) < MaxFrames
Frame(kind, args, dest) == [kind |-> kind, args |-> args, dest |-> dest]

Readable(n) == LookupVariable(n) # Nothing /\ LookupVariable(n) \notin freed

\* VariableExpression on a deleted value.
ReadFreed ==
    /\ Running
    /\ \E n \in Names : LookupVariable(n) \in freed
    /\ Faulted("use after free")

\* In the context of a class a variable becomes a member: the text of a setter
\* is made for it, "set_n(value:T)", and FunctionSignatureParser never gets past
\* the colon (see Signatures).
LetMember ==
    /\ Running /\ InClassContext(scopes)
    /\ Faulted("endless")

\* let n = <constant>
LetConstant(n) ==
    /\ Running /\ ~InClassContext(scopes)
    /\ \E value \in Unheld : scopes' = DefineVariable(scopes, n, value)
    /\ UNCHANGED frames
    /\ Free({}, {})

\* let n = m: VariableExpression yields the value that the scope of m holds.
LetVariable(n, m) ==
    /\ Running /\ ~InClassContext(scopes)
    /\ Readable(m)
    /\ scopes' = DefineVariable(scopes, n, LookupVariable(m))
    /\ UNCHANGED frames
    /\ Free({}, {LookupVariable(m)})

\* Faulty variant of Increment: the variable is updated where it is found.
IncrementInPlace(m) ==
    /\ AtStatement
    /\ Readable(m)
    /\ \E value \in Unheld :
          scopes' = [scopes EXCEPT ![Innermost(VariableAt(m))].vars[m] = value]
    /\ UNCHANGED frames
    /\ Free({LookupVariable(m)}, {})

\* m++, handleIncrementDecrement: updateVariable deletes the value and defines
\* the variable in the current scope, whichever scope m was found in.
Increment(m) ==
    /\ AtStatement
    /\ Readable(m)
    /\ \E value \in Unheld : scopes' = [scopes EXCEPT ![Len(scopes)].vars[m] = value]
    /\ UNCHANGED frames
    /\ Free({Current(scopes).vars[m]} \ {Nothing}, {})

\* The operand is deleted as if it were a temporary.
Consume(m) ==
    /\ AtStatement
    /\ Readable(m)
    /\ UNCHANGED <<scopes, frames>>
    /\ Free({LookupVariable(m)}, {LookupVariable(m)})

Negate(m)  == Consume(m)    \* executeUnaryOperation
IndexBy(m) == Consume(m)    \* IndexAccessExpression with an integer key

----------------------------------------------------------------------------
(* Blocks, classes and functions.                                          *)

EnterBlock ==
    /\ AtStatement /\ CanNest
    /\ scopes' = Append(scopes, EmptyScope)
    /\ frames' = Append(frames, Frame("block", <<>>, Nothing))
    /\ UNCHANGED <<freed, handed, fault>>

LeaveBlock ==
    /\ Running
    /\ frames # <<>> /\ frames[Len(frames)].kind = "block"
    /\ scopes' = Popped(scopes, 1)
    /\ frames' = Outer(frames, 1)
    /\ Free({}, {})

\* ClassDefinition: a new type, and __class__, in the current scope.
BeginClass(c) ==
    /\ AtStatement /\ CanNest
    /\ scopes' = [scopes EXCEPT ![Len(scopes)].class = c]
    /\ frames' = Append(frames, Frame("class", <<>>, Nothing))
    /\ Free({}, {})

EndClass ==
    /\ Running /\ InClassBody
    /\ frames' = Outer(frames, 1)
    /\ UNCHANGED <<scopes, freed, handed, fault>>

\* FunctionPrototype.
DeclareFunction(f) ==
    /\ Running
    /\ scopes' = DefineFunction(scopes, f, Forward)
    /\ UNCHANGED <<frames, freed, handed, fault>>

\* FunctionDefinition: the UserFunction that is found, declared or defined
\* before and in whatever scope, is given the body; else one is made, and a
\* native function of that name stays what it is.
FunctionDefinition(f, body) ==
    /\ Running
    /\ scopes' = IF LookupFunction(scopes, f) \in UserFunctions
                 THEN [scopes EXCEPT ![Innermost(FunctionAt(scopes, f))].funs[f] = UserFunction(body)]
                 ELSE DefineFunction(scopes, f, UserFunction(body))
    /\ UNCHANGED <<frames, freed, handed, fault>>

----------------------------------------------------------------------------
(* Calls.  An argument is a variable or a temporary; the result may be     *)
(* bound to a variable, dest.                                              *)

\* Arguments: at most two variables or temporaries.
ArgumentLists == {<<>>} \cup {<<a>> : a \in Names \cup {Nothing}}
                 \cup {<<a, b>> : a, b \in Names \cup {Nothing}}

\* The values that the arguments evaluate to: a variable yields the value its
\* scope holds, a temporary is a value of its own.
Evaluations(list) ==
    {args \in [DOMAIN list -> Values] :
        /\ \A i \in DOMAIN list :
              IF list[i] = Nothing THEN args[i] \in Unheld ELSE args[i] = LookupVariable(list[i])
        /\ \A i, j \in DOMAIN list : list[i] = Nothing /\ args[i] = args[j] => i = j}

PassedVariables(list, args) == {args[i] : i \in {j \in DOMAIN list : list[j] # Nothing}}

\* bindParameters: parameters without an argument stay unbound.
Bound(args) ==
    [EmptyScope EXCEPT !.vars = [n \in Names |->
        LET at == {i \in DOMAIN Params \cap DOMAIN args : Params[i] = n}
        IN  IF at = {} THEN Nothing ELSE args[Innermost(at)]]]

\* Faulty variant of Discarded: the result is deleted with the arguments.
DiscardedAll(args, result) == Elements(args)

\* CallExpression deletes its arguments, except one that is the result.
Discarded(args, result) == Elements(args) \ {result}

\* After the call: the scopes and frames of the caller are left, the arguments
\* go, and the result, if there is one, is bound.
FinishCall(scs, frs, args, given, result, dest) ==
    LET gone  == Discarded(args, result)
        binds == result # Nothing /\ dest # Nothing
        twice == \E i, j \in DOMAIN args : i # j /\ args[i] = args[j] /\ args[i] \in gone
    IN  IF twice \/ gone \cap freed # {} THEN Faulted("double free")
        ELSE IF binds /\ InClassContext(scs) THEN Faulted("endless")
        ELSE /\ scopes' = IF binds THEN DefineVariable(scs, dest, result) ELSE scs
             /\ frames' = frs
             /\ Free(gone, given \cup ({result} \cap HeldBy(scs, frs)))

\* callFunction of a user function: a scope for the arguments, and one for the
\* block that is its body.  Without a body there is nothing to run.
Call(f, list, dest) ==
    /\ AtStatement
    /\ LookupFunction(scopes, f) \in UserFunctions
    /\ \A i \in DOMAIN list : list[i] # Nothing => Readable(list[i])
    /\ \E args \in Evaluations(list) :
          IF LookupFunction(scopes, f) = Forward
          THEN FinishCall(scopes, frames, args, PassedVariables(list, args), Nothing, dest)
          ELSE /\ CanNest
               /\ scopes' = scopes \o <<Bound(args), EmptyScope>>
               /\ frames' = Append(frames, Frame("call", args, dest))
               /\ Free({}, PassedVariables(list, args))

Calls == {i \in DOMAIN frames : frames[i].kind = "call"}

\* The end of the body, or a return, of the innermost call: the blocks in it
\* are left too.  The result is nothing, a new value or the value of a variable.
Return ==
    /\ AtStatement
    /\ Calls # {}
    /\ LET call   == Innermost(Calls)
           scs    == Popped(scopes, 2 + Len(frames) - call)
           frs    == Outer(frames, 1 + Len(frames) - call)
           read   == {LookupVariable(n) : n \in {m \in Names : Readable(m)}}
       IN  \E result \in {Nothing} \cup Unheld \cup read :
              FinishCall(scs, frs, frames[call].args, {}, result, frames[call].dest)

----------------------------------------------------------------------------

\* The interpreter is made with the scopes start, and runs no statement yet.
ScopeInit(start) ==
    /\ scopes = start
    /\ frames = <<>>
    /\ freed = {}
    /\ handed = {}
    /\ fault = "none"

ScopeNext ==
    \/ ReadFreed \/ LetMember
    \/ \E n \in Names : LetConstant(n) \/ Increment(n) \/ Negate(n) \/ IndexBy(n)
    \/ \E n, m \in Names : LetVariable(n, m)
    \/ EnterBlock \/ LeaveBlock
    \/ (\E c \in Classes : BeginClass(c)) \/ EndClass
    \/ \E f \in Functions : DeclareFunction(f) \/ (\E body \in Bodies : FunctionDefinition(f, body))
    \/ \E f \in Functions, list \in ArgumentLists, dest \in Names \cup {Nothing} :
          Call(f, list, dest)
    \/ Return

----------------------------------------------------------------------------
(* What a script can rely on.                                              *)

\* The function f of scope i, which is the one a call finds, has a new body.
Redefined(i, f) ==
    /\ scopes[i].funs[f] \in UserFunctions
    /\ scopes'[i].funs[f] \in UserFunctions \ {Forward}
    /\ i = Innermost(FunctionAt(scopes, f))
    /\ Len(scopes') = Len(scopes)

\* The function bound to a name in a scope is never taken away while the scope
\* lasts, and a native one never replaced, whoever defines it, a script or a
\* plugin that is loaded again.  A function of the script is given a body, and
\* given another, where a call would find it, in one scope, and not while a
\* call or a block begins or ends.
FunctionsStay ==
    [][\A i \in DOMAIN scopes \cap DOMAIN scopes', f \in Functions :
          scopes[i].funs[f] \in {Nothing, scopes'[i].funs[f]} \/ Redefined(i, f)
      ]_scopeVars

\* Definitions and updates act on the current scope: no statement in an inner
\* scope, and no call, changes what a variable of an enclosing scope stands
\* for.  (An update of an outer variable makes a variable of the inner scope,
\* and is lost when it ends.)
OuterScopesUntouched ==
    [][\A i \in DOMAIN scopes \cap DOMAIN scopes' :
          i < Len(scopes) /\ i < Len(scopes') => scopes'[i].vars = scopes[i].vars
      ]_scopeVars

\* A variable is left with a deleted value only if that value was handed over
\* before: copied to another name, passed to a call, returned by one while it
\* was held, or operated on.  Definitions, updates, blocks and results of
\* calls alone never leave one.
DanglingOnlyIfHandedOver == freed \subseteq handed

=============================================================================
