------------------------------ MODULE ClassTypes ------------------------------
(***************************************************************************)
(* Types of a script and their methods: the visits of classes, structs,    *)
(* interfaces and functions (definition_visits.cpp), what ScopeManager     *)
(* makes of them (scope_manager.cpp), and the tables of ClassType and      *)
(* PrimitiveType.                                                          *)
(*                                                                         *)
(* Members are left out: see LetMember in Scope.  So are parents: a base   *)
(* class is passed to ClassType as the flag isPrimitive (definition_visits *)
(* .cpp:141), and no type ever has one.  The visibility of a method is     *)
(* kept by the code and asked by nothing.                                  *)
(***************************************************************************)
EXTENDS Signatures, SequencesExt

CONSTANTS
    TypeNames,
    Lower,              \* TypeNames -> TypeNames in lower case
    BuiltinTypes,       \* a sequence of what Builtin yields
    Signatures,         \* of the functions and methods that scripts define
    InterfaceMethods,   \* names that an interface asks for
    Arguments,          \* of calls, as the names of their types
    Natives,            \* functions that plugins defined, in the global scope
    None,
    MaxTypes, MaxMethods, MaxScopes

FunctionNames == {s.name : s \in Signatures} \cup Natives

VARIABLES
    types,          \* type objects, in the order in which they were made
    scopes,         \* ScopeManager::scopes
    body,           \* the class body that is visited
    verdicts,       \* history: the interfaces that classes were found to implement
    undefined       \* the keys that a table of methods was given have no order

typeVars == <<types, scopes, body, verdicts, undefined>>

----------------------------------------------------------------------------
(* Tables of methods.                                                      *)

\* A method: its own signature, and whether it has a body to run.
Method(signature, runs) == [signature |-> signature, runs |-> runs]

\* Parameter lists and arguments are sequences; the names of parameters are
\* ordered as strings are; and the parser gives the parameter "..." the type "any".
ASSUME ClassAssumption ==
    /\ \A s \in Signatures :
          /\ s.params \in Seq(ToSet(s.params))
          /\ \A i \in DOMAIN s.params :
                /\ s.params[i].name \in Int
                /\ s.params[i].rest => s.params[i].type = "any"
    /\ \A args \in Arguments : args \in Seq(ToSet(args))
    /\ BuiltinTypes \in Seq(ToSet(BuiltinTypes))
    /\ \A t \in DOMAIN BuiltinTypes : BuiltinTypes[t].kind = "builtin"
    /\ None \notin TypeNames /\ \A s \in Signatures, b \in BOOLEAN : None # Method(s, b)

NoTable == [entries |-> {}, listed |-> <<>>]

\* addUserMethod: the function under its signature, and the signature under its
\* name, also if it replaces another function.
Added(table, key, function) ==
    LET same == {e \in table.entries : SameKey(e.key, key)}
        kept == IF same = {} THEN key ELSE (CHOOSE e \in same : TRUE).key
    IN  [entries |-> (table.entries \ same) \cup {[key |-> kept, function |-> function]},
         listed |-> Append(table.listed, key)]

Listed(table) == {table.listed[i] : i \in DOMAIN table.listed}
Overloads(table, name) == {i \in DOMAIN table.listed : table.listed[i].name = name}
HasMethod(table, name) == Overloads(table, name) # {}

FindExact(table, signature) ==
    LET same == {e \in table.entries : SameKey(e.key, signature)}
    IN  IF same = {} THEN None ELSE (CHOOSE e \in same : TRUE).function

\* findUserMethod of a signature: without parameters any method of the name will
\* do, the first.
FindBySignature(table, signature) ==
    LET overloads == Overloads(table, signature.name)
    IN  IF FindExact(table, signature) = None /\ signature.params = <<>> /\ overloads # {}
        THEN FindExact(table, table.listed[Min(overloads)]) ELSE FindExact(table, signature)

\* findUserMethod of a class: the first of those with the highest score.
IsBest(table, name, args, i) ==
    LET Scored(j) == Score(table.listed[j], args)
    IN  /\ Scored(i) > -1
        /\ \A j \in Overloads(table, name) :
             Scored(j) <= Scored(i) /\ (j < i => Scored(j) < Scored(i))
FindBest(table, name, args) ==
    LET best == {i \in Overloads(table, name) : IsBest(table, name, args, i)}
    IN  IF best = {} THEN None ELSE FindBySignature(table, table.listed[CHOOSE i \in best : TRUE])

\* findUserMethod of a built-in type: the first that takes as many arguments.
FindFirst(table, name, args) ==
    LET fits == {i \in DOMAIN table.listed :
                    table.listed[i].name = name /\ CanAccept(table.listed[i], args)}
    IN  IF fits = {} THEN None ELSE FindExact(table, table.listed[Min(fits)])

----------------------------------------------------------------------------
(* Types and scopes.                                                       *)

\* required: the names of the methods of an interface; what it extends is kept
\* and never looked at.
Type(name, kind, methods, statics, required) ==
    [name |-> name, kind |-> kind, methods |-> methods, statics |-> statics,
     required |-> required]
Empty(name, kind, required) == Type(name, kind, NoTable, NoTable, required)

\* A built-in type registers native methods when it is made.
TableOfNatives(prototypes) ==
    FoldLeft(LAMBDA table, p :
               LET key == SignatureOfNative(p.name, p.params)
               IN  Added(table, key, Method(key, TRUE)),
             NoTable, prototypes)
Builtin(name, methods, statics) ==
    Type(name, "builtin", TableOfNatives(methods), TableOfNatives(statics), {})

EmptyScope ==
    [types |-> [n \in TypeNames |-> 0], functions |-> {},
     class |-> None, struct |-> None]

Here == scopes[Len(scopes)]

\* Built-in types are found in lower case also.
Globally(name) ==
    LET exact == {t \in DOMAIN BuiltinTypes : BuiltinTypes[t].name = name}
        alike == {t \in DOMAIN BuiltinTypes : Lower[BuiltinTypes[t].name] = Lower[name]}
    IN  IF exact # {} THEN Min(exact) ELSE IF alike # {} THEN Min(alike) ELSE 0

\* lookupType: the place in types, or 0.
LookupType(name) ==
    LET at == {i \in DOMAIN scopes : scopes[i].types[name] # 0}
    IN  IF at = {} THEN Globally(name) ELSE scopes[Max(at)].types[name]

\* lookupFunction; what a function outside a type is made of is in Scope.
IsFunction(f) == f \in Natives \/ \E i \in DOMAIN scopes : f \in scopes[i].functions

InTypeContext == Here.class # None \/ Here.struct # None
ContextType == LookupType(IF Here.class # None THEN Here.class ELSE Here.struct)

Defined == ~undefined
AtDefinition == Defined /\ body = None

\* defineType, in the current scope.
NewType(type, here) ==
    /\ Len(types) < MaxTypes
    /\ types' = Append(types, type)
    /\ scopes' = [scopes EXCEPT ![Len(scopes)] = [here EXCEPT !.types[type.name] = Len(types) + 1]]

\* Faulty variant of BeginClass: the context stays that of an earlier class.
BeginClassKeepingContext(name, implements) ==
    /\ AtDefinition
    /\ NewType(Empty(name, "class", {}),
               IF Here.class # None THEN Here ELSE [Here EXCEPT !.class = name])
    /\ body' = [type |-> Len(types) + 1, implements |-> implements]
    /\ UNCHANGED <<verdicts, undefined>>

BeginClass(name, implements) ==
    /\ AtDefinition
    /\ NewType(Empty(name, "class", {}), [Here EXCEPT !.class = name])
    /\ body' = [type |-> Len(types) + 1, implements |-> implements]
    /\ UNCHANGED <<verdicts, undefined>>

\* A class __class__ in this scope stays the context of the body of a struct.
BeginStruct(name) ==
    /\ AtDefinition
    /\ NewType(Empty(name, "struct", {}), [Here EXCEPT !.struct = name])
    /\ body' = [type |-> Len(types) + 1, implements |-> {}]
    /\ UNCHANGED <<verdicts, undefined>>

\* isImplementedBy: by name, whatever the parameters, and not those of the
\* interfaces that it extends.
Implements(class, interface) ==
    \A m \in types[interface].required : HasMethod(types[class].methods, m)

\* The end of the body: each interface is looked up again; a class that lacks a
\* method is reported, and stays.
EndBody ==
    /\ Defined /\ body # None
    /\ LET found == {i \in {LookupType(n) : n \in body.implements} \ {0} :
                        types[i].kind = "interface" /\ Implements(body.type, i)}
       IN  verdicts' = verdicts \cup {<<body.type, i>> : i \in found}
    /\ body' = None
    /\ UNCHANGED <<types, scopes, undefined>>

DefineInterface(name, required) ==
    /\ AtDefinition
    /\ NewType(Empty(name, "interface", required), Here)
    /\ UNCHANGED <<body, verdicts, undefined>>

EnterScope ==
    /\ AtDefinition /\ Len(scopes) < MaxScopes
    /\ scopes' = Append(scopes, EmptyScope)
    /\ UNCHANGED <<types, body, verdicts, undefined>>

LeaveScope ==
    /\ AtDefinition /\ Len(scopes) > 1
    /\ scopes' = Front(scopes)
    /\ UNCHANGED <<types, body, verdicts, undefined>>

----------------------------------------------------------------------------
(* Functions and methods.                                                  *)

MethodsOfScripts ==
    MapThenSumSet(LAMBDA t : Len(types[t].methods.listed), DOMAIN types \ DOMAIN BuiltinTypes)

\* registerAsClassMethod: the type that the context names, if it still is a class.
AddMethod(t, function) ==
    LET key == function.signature
        methods == types[t].methods
    IN  /\ t # 0 /\ types[t].kind \in {"class", "struct"}
        /\ MethodsOfScripts < MaxMethods
        /\ types' = [types EXCEPT ![t].methods = Added(methods, key, function)]
        /\ undefined' = ~WeakOrder(Listed(methods) \cup {key})
        /\ UNCHANGED <<scopes, body, verdicts>>

\* FunctionPrototype in the context of a class, unless there is a function of
\* the name; and FunctionDefinition: the method is made from its prototype, is
\* not found again among the functions of the scopes, and is left without body.
DefineMethod(signature) ==
    /\ Defined /\ InTypeContext
    /\ ~IsFunction(signature.name)
    /\ AddMethod(ContextType, Method(signature, FALSE))

\* FunctionPrototype and FunctionDefinition elsewhere.
DefineFunction(f) ==
    /\ Defined /\ ~InTypeContext
    /\ ~IsFunction(f)
    /\ scopes' = [scopes EXCEPT ![Len(scopes)].functions = @ \cup {f}]
    /\ UNCHANGED <<types, body, verdicts, undefined>>

----------------------------------------------------------------------------
(* Calls.                                                                  *)

\* Only built-in types have static methods.
Find(type, static, method, args) ==
    IF type = 0 THEN None
    ELSE CASE types[type].kind = "interface" -> None
           [] types[type].kind = "builtin" ->
                FindFirst(IF static THEN types[type].statics ELSE types[type].methods, method, args)
           [] OTHER -> IF static THEN None ELSE FindBest(types[type].methods, method, args)

\* MethodReference::call: a reference has no parameters, so that no argument is
\* bound by name, and the search among the variables of the call finds none.
Called(type, static, method, args) == Find(type, static, method, <<>>)

----------------------------------------------------------------------------

TypesInit ==
    /\ types = BuiltinTypes
    /\ scopes = <<EmptyScope>>
    /\ body = None
    /\ verdicts = {}
    /\ undefined = FALSE

TypesNext ==
    \/ \E n \in TypeNames, implements \in SUBSET TypeNames :
          n \notin implements /\ BeginClass(n, implements)
    \/ \E n \in TypeNames : BeginStruct(n)
    \/ \E n \in TypeNames, required \in SUBSET InterfaceMethods : DefineInterface(n, required)
    \/ EndBody \/ EnterScope \/ LeaveScope
    \/ \E s \in Signatures : DefineMethod(s)
    \/ \E f \in FunctionNames : DefineFunction(f)

TypesSpec == TypesInit /\ [][TypesNext]_typeVars

----------------------------------------------------------------------------
(* Correctness.                                                            *)

\* A function that may be called with the arguments, and has a parameter of just
\* its type for each.
Explicit(s, args) ==
    /\ CanAccept(s, args)
    /\ \A i \in DOMAIN args :
          /\ args[i] \notin {Null, "any"} /\ i <= Len(s.params)
          /\ ~s.params[i].rest /\ s.params[i].type = args[i]

\* Two lists of parameters differ first in the type of a parameter.
SameNames(p, q) ==
    /\ Len(p) = Len(q)
    /\ \A i \in DOMAIN p : (\A j \in 1 .. i - 1 : p[j] = q[j]) => p[i].name = q[i].name

\* A search by arguments finds a method for just their types, if there is one; or
\* the one that took its place in the table, whose parameters have the same names
\* up to the first of another type.
OverloadsMatch ==
    \A t \in DOMAIN types, m \in FunctionNames, args \in Arguments :
        LET table == types[t].methods
            meant == {s \in Listed(table) : s.name = m /\ Explicit(s, args)}
            found == FindBest(table, m, args)
        IN  types[t].kind # "builtin" /\ meant # {} /\ ~undefined =>
            /\ found # None
            /\ \E s \in meant : SameNames(found.signature.params, s.params)

\* A class found to implement an interface has a method for every name that the
\* interface asks for, which a search by name finds.
VerdictsTrue ==
    \A v \in verdicts : \A m \in types[v[2]].required :
        ~undefined => FindBySignature(types[v[1]].methods, Signature(m, <<>>)) # None

\* A method without parameters is found by every call through a reference.
ReferencesCall ==
    \A t \in DOMAIN types, m \in FunctionNames, args \in Arguments :
        LET table == types[t].methods
        IN  /\ types[t].kind # "builtin" /\ ~undefined
            /\ Signature(m, <<>>) \in Listed(table)
            => Called(t, FALSE, m, args) # None

\* Searches find what a class has, whatever was defined before: by arguments, by
\* the names of an interface that the class was found to implement, and through
\* references.
SearchesFind == OverloadsMatch /\ VerdictsTrue /\ ReferencesCall

\* While the body of a class is visited its methods go to its own type.
MethodsGoToTheirClass ==
    [][\A t \in DOMAIN types :
          /\ body # None /\ types[body.type].kind = "class"
          /\ types'[t].methods # types[t].methods
          => t = body.type]_typeVars
=============================================================================
