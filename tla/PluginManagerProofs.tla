------------------------ MODULE PluginManagerProofs ------------------------
(***************************************************************************)
(* Proofs about PluginManager, the environment a script runs in, for every *)
(* set of names, functions and plugins, any nesting and any number of      *)
(* loads.  First what the operators on scopes do, then the types, the two  *)
(* action properties and the invariant behind DanglingOnlyIfHandedOver.    *)
(***************************************************************************)
EXTENDS PluginManager, SequenceLemmas, SequenceTheorems, TLAPS

----------------------------------------------------------------------------
(* Lookups: the CHOOSE of the innermost scope, and of the first plugin.    *)

\* The scopes that a lookup walks through have a last one.
LEMMA InnermostOf ==
    ASSUME NEW n \in Nat, NEW places, places \subseteq 1..n, places # {}
    PROVE  Innermost(places) \in places /\ \A j \in places : j <= Innermost(places)
<1> DEFINE T == {x \in 0..n : n - x \in places}
<1>1. T \subseteq Nat
  OBVIOUS
<1>2. PICK p \in places : TRUE
  OBVIOUS
<1>3. n - p \in T
  <2>1. p \in 1..n /\ n - (n - p) = p /\ n - p \in 0..n
    OBVIOUS
  <2> QED BY <2>1
<1>4. PICK x \in T : \A y \in T : x <= y
  <2> HIDE DEF T
  <2> QED BY <1>1, <1>3, SmallestOf
<1>5. n - x \in places
  BY <1>4
<1>6. \A j \in places : j <= n - x
  <2>1. ASSUME NEW j \in places PROVE j <= n - x
    <3>1. j \in 1..n /\ n - (n - j) = j /\ n - j \in 0..n
      OBVIOUS
    <3>2. x <= n - j
      BY <1>4, <3>1
    <3> QED BY <3>1, <3>2, <1>4
  <2> QED BY <2>1
<1> QED BY <1>5, <1>6 DEF Innermost

----------------------------------------------------------------------------
(* What the operators on the stack of scopes and of frames do.             *)

ScopeTypes ==
    [vars : [Names -> Values \cup {Nothing}],
     funs : [Functions -> FunctionObjects \cup {Nothing}],
     class : Classes \cup {Nothing}]
FrameTypes ==
    [kind : {"block", "class", "call"}, args : Seq(Values), dest : Names \cup {Nothing}]

\* exitScope and the end of a visit: what is below stays as it is.
LEMMA PoppedKeeps ==
    ASSUME NEW S, NEW s \in Seq(S), NEW k \in Nat
    PROVE  /\ Popped(s, k) \in Seq(S)
           /\ Len(Popped(s, k)) = IF k <= Len(s) THEN Len(s) - k ELSE 0
           /\ \A i \in 1..Len(Popped(s, k)) : i \in 1..Len(s) /\ Popped(s, k)[i] = s[i]
<1>1. Len(s) \in Nat /\ \A i \in 1..Len(s) : s[i] \in S
  OBVIOUS
<1> DEFINE m == 1
           n == Len(s) - k
<1>2. m \in Int /\ n \in Int /\ \A i \in m..n : s[i] \in S
  BY <1>1
<1>3. /\ SubSeq(s, m, n) \in Seq(S)
      /\ Len(SubSeq(s, m, n)) = IF m <= n THEN n - m + 1 ELSE 0
      /\ \A i \in 1..(n - m + 1) : SubSeq(s, m, n)[i] = s[m + i - 1]
  <2> HIDE DEF m, n
  <2> QED BY <1>2, SubSeqProperties
<1>4. /\ SubSeq(s, 1, Len(s) - k) \in Seq(S)
      /\ Len(SubSeq(s, 1, Len(s) - k))
           = IF 1 <= Len(s) - k THEN (Len(s) - k) - 1 + 1 ELSE 0
      /\ \A i \in 1..((Len(s) - k) - 1 + 1) : SubSeq(s, 1, Len(s) - k)[i] = s[1 + i - 1]
  BY <1>3
<1>5. Len(SubSeq(s, 1, Len(s) - k)) = IF k <= Len(s) THEN Len(s) - k ELSE 0
  BY <1>1, <1>4
<1>6. ASSUME NEW i \in 1..Len(SubSeq(s, 1, Len(s) - k))
      PROVE  i \in 1..Len(s) /\ SubSeq(s, 1, Len(s) - k)[i] = s[i]
  <2>1. i \in 1..((Len(s) - k) - 1 + 1) /\ i \in 1..Len(s) /\ 1 + i - 1 = i
    BY <1>1, <1>5, <1>6
  <2> QED BY <1>4, <2>1
<1> QED BY <1>4, <1>5, <1>6 DEF Popped

\* The visits that end take their frames from the end, as scopes are popped.
LEMMA OuterIsPopped == \A s, k : Outer(s, k) = Popped(s, k)
  BY DEF Outer, Popped

\* A scope that has just been entered defines nothing.
LEMMA EmptyScopeType ==
    /\ EmptyScope \in ScopeTypes
    /\ \A n \in Names : EmptyScope.vars[n] = Nothing
  BY DEF EmptyScope, ScopeTypes, NoNames

\* setVariable writes one variable of the current scope.
LEMMA DefineVariableWrites ==
    ASSUME NEW scs \in Seq(ScopeTypes), NEW n \in Names, NEW value \in Values
    PROVE  LET new == DefineVariable(scs, n, value) IN
           /\ new \in Seq(ScopeTypes)
           /\ Len(new) = Len(scs)
           /\ \A i \in 1..Len(scs) :
                /\ new[i].funs = scs[i].funs
                /\ new[i].vars =
                     IF i = Len(scs) THEN [scs[i].vars EXCEPT ![n] = value] ELSE scs[i].vars
<1> DEFINE new == DefineVariable(scs, n, value)
           entry == [scs[Len(scs)] EXCEPT !.vars[n] = value]
<1>1. Len(scs) \in Nat /\ \A i \in 1..Len(scs) : scs[i] \in ScopeTypes
  OBVIOUS
<1>2. CASE Len(scs) = 0
  <2>1. DOMAIN new = {} /\ new = <<>>
    BY <1>2 DEF DefineVariable
  <2> QED BY <1>2, <2>1
<1>3. CASE Len(scs) # 0
  <2>1. Len(scs) \in 1..Len(scs)
    BY <1>1, <1>3
  <2>2. entry \in ScopeTypes
        /\ entry.funs = scs[Len(scs)].funs
        /\ entry.vars = [scs[Len(scs)].vars EXCEPT ![n] = value]
    BY <1>1, <2>1 DEF ScopeTypes
  <2>3. new = [scs EXCEPT ![Len(scs)] = entry]
    BY DEF DefineVariable
  <2> HIDE DEF new, entry
  <2>4. /\ new \in Seq(ScopeTypes)
        /\ Len(new) = Len(scs)
        /\ \A j \in 1..Len(scs) : new[j] = IF j = Len(scs) THEN entry ELSE scs[j]
    BY <2>1, <2>2, <2>3, ExceptSeq
  <2> QED BY <2>2, <2>4 DEF new
<1> QED BY <1>1, <1>2, <1>3

\* A name that lookupFunction does not find is a function in no scope, and one
\* that it finds is what the last such scope says.
LEMMA LookupFunctionFinds ==
    ASSUME NEW scs \in Seq(ScopeTypes), NEW f \in Functions
    PROVE  /\ LookupFunction(scs, f) = Nothing
                => \A i \in 1..Len(scs) : scs[i].funs[f] = Nothing
           /\ LookupFunction(scs, f) # Nothing
                => /\ Innermost(FunctionAt(scs, f)) \in 1..Len(scs)
                   /\ scs[Innermost(FunctionAt(scs, f))].funs[f] = LookupFunction(scs, f)
<1>1. Len(scs) \in Nat /\ DOMAIN scs = 1..Len(scs)
  OBVIOUS
<1>2. FunctionAt(scs, f) \subseteq 1..Len(scs)
  BY <1>1 DEF FunctionAt
<1>3. CASE FunctionAt(scs, f) = {}
  BY <1>1, <1>3 DEF FunctionAt, LookupFunction
<1>4. CASE FunctionAt(scs, f) # {}
  <2>1. Innermost(FunctionAt(scs, f)) \in FunctionAt(scs, f)
    BY <1>1, <1>2, <1>4, InnermostOf
  <2> QED BY <1>2, <1>4, <2>1 DEF FunctionAt, LookupFunction
<1> QED BY <1>3, <1>4

\* A variable that lookupVariable finds has the value of one of the scopes.
LEMMA LookupVariableFinds ==
    ASSUME scopes \in Seq(ScopeTypes), NEW n \in Names, LookupVariable(n) # Nothing
    PROVE  \E i \in 1..Len(scopes) :
              scopes[i].vars[n] = LookupVariable(n) /\ LookupVariable(n) \in Values
<1>1. Len(scopes) \in Nat /\ DOMAIN scopes = 1..Len(scopes)
      /\ \A i \in 1..Len(scopes) : scopes[i] \in ScopeTypes
  OBVIOUS
<1>2. VariableAt(n) \subseteq 1..Len(scopes) /\ VariableAt(n) # {}
  BY <1>1 DEF VariableAt, LookupVariable
<1>3. Innermost(VariableAt(n)) \in VariableAt(n)
  BY <1>1, <1>2, InnermostOf
<1>4. Innermost(VariableAt(n)) \in 1..Len(scopes)
      /\ LookupVariable(n) = scopes[Innermost(VariableAt(n))].vars[n]
  BY <1>2, <1>3 DEF LookupVariable
<1>5. LookupVariable(n) \in Values
  BY <1>1, <1>4 DEF ScopeTypes
<1> QED BY <1>4, <1>5

----------------------------------------------------------------------------
(* What a step may do to the scopes: the two action properties as          *)
(* relations between a stack of scopes and the next.                       *)

\* The step relation of FunctionsStay.
NewBody(scs, new, i, f) ==
    /\ scs[i].funs[f] \in UserFunctions
    /\ new[i].funs[f] \in UserFunctions \ {Forward}
    /\ i = Innermost(FunctionAt(scs, f))
    /\ Len(new) = Len(scs)
FunctionsKept(scs, new) ==
    \A i \in DOMAIN scs \cap DOMAIN new, f \in Functions :
       scs[i].funs[f] \in {Nothing, new[i].funs[f]} \/ NewBody(scs, new, i, f)

\* The step relation of OuterScopesUntouched.
OuterKept(scs, new) ==
    \A i \in DOMAIN scs \cap DOMAIN new :
       i < Len(scs) /\ i < Len(new) => new[i].vars = scs[i].vars

\* The variables of all scopes are what they were.
SameVars(scs, new) ==
    Len(new) = Len(scs) /\ \A i \in 1..Len(scs) : new[i].vars = scs[i].vars

\* A function is bound in the scope at place p.
WithFunction(scs, p, f, object) == [scs EXCEPT ![p].funs[f] = object]

\* Only that name of that scope stands for another function then.
LEMMA FunctionBound ==
    ASSUME NEW scs \in Seq(ScopeTypes), NEW p \in 1..Len(scs),
           NEW f \in Functions, NEW object \in FunctionObjects
    PROVE  /\ WithFunction(scs, p, f, object) \in Seq(ScopeTypes)
           /\ SameVars(scs, WithFunction(scs, p, f, object))
           /\ \A i \in 1..Len(scs), g \in Functions :
                WithFunction(scs, p, f, object)[i].funs[g]
                  = IF i = p /\ g = f THEN object ELSE scs[i].funs[g]
<1> DEFINE new == WithFunction(scs, p, f, object)
           entry == [scs[p] EXCEPT !.funs[f] = object]
<1>1. Len(scs) \in Nat /\ \A i \in 1..Len(scs) : scs[i] \in ScopeTypes
  OBVIOUS
<1>2. /\ entry \in ScopeTypes
      /\ entry.vars = scs[p].vars
      /\ entry.funs = [scs[p].funs EXCEPT ![f] = object]
  BY <1>1 DEF ScopeTypes
<1>3. new = [scs EXCEPT ![p] = entry]
  BY DEF WithFunction
<1> HIDE DEF new, entry
<1>4. /\ new \in Seq(ScopeTypes)
      /\ Len(new) = Len(scs)
      /\ \A j \in 1..Len(scs) : new[j] = IF j = p THEN entry ELSE scs[j]
  BY <1>2, <1>3, ExceptSeq
<1>5. SameVars(scs, new)
  BY <1>2, <1>4 DEF SameVars
<1>6. ASSUME NEW i \in 1..Len(scs), NEW g \in Functions
      PROVE  new[i].funs[g] = IF i = p /\ g = f THEN object ELSE scs[i].funs[g]
  <2>1. scs[i] \in ScopeTypes /\ scs[p] \in ScopeTypes
    BY <1>1
  <2> QED BY <2>1, <1>2, <1>4 DEF ScopeTypes
<1> QED BY <1>4, <1>5, <1>6 DEF new

\* defineFunction never replaces a function, and touches no variable.
LEMMA DefineFunctionKeeps ==
    ASSUME NEW scs \in Seq(ScopeTypes), NEW f \in Functions, NEW object \in FunctionObjects
    PROVE  LET new == DefineFunction(scs, f, object) IN
           /\ new \in Seq(ScopeTypes)
           /\ SameVars(scs, new)
           /\ FunctionsKept(scs, new)
<1> DEFINE new == DefineFunction(scs, f, object)
<1>1. Len(scs) \in Nat /\ DOMAIN scs = 1..Len(scs)
  OBVIOUS
<1>2. CASE new = scs
  BY <1>2, <1>1 DEF SameVars, FunctionsKept
<1>3. CASE /\ new = WithFunction(scs, Len(scs), f, object)
           /\ LookupFunction(scs, f) = Nothing
           /\ Len(scs) # 0
  <2>1. Len(scs) \in 1..Len(scs) /\ DOMAIN new = 1..Len(scs)
    BY <1>1, <1>3 DEF WithFunction
  <2> HIDE DEF new
  <2>2. /\ new \in Seq(ScopeTypes)
        /\ SameVars(scs, new)
        /\ \A i \in 1..Len(scs), g \in Functions :
             new[i].funs[g] = IF i = Len(scs) /\ g = f THEN object ELSE scs[i].funs[g]
    BY SMTT(30), <1>3, <2>1, FunctionBound
  <2>3. \A i \in 1..Len(scs) : scs[i].funs[f] = Nothing
    BY <1>3, LookupFunctionFinds
  <2>4. FunctionsKept(scs, new)
    BY <1>1, <2>1, <2>2, <2>3 DEF FunctionsKept
  <2> QED BY <2>2, <2>4 DEF new
<1>4. CASE new = WithFunction(scs, Len(scs), f, object) /\ Len(scs) = 0
  <2>1. new = <<>> /\ scs = <<>>
    BY <1>1, <1>4 DEF WithFunction
  <2> QED BY <2>1, <1>2
<1>5. \/ new = scs
      \/ new = WithFunction(scs, Len(scs), f, object) /\ LookupFunction(scs, f) = Nothing
  BY DEF DefineFunction, WithFunction
<1> QED BY <1>2, <1>3, <1>4, <1>5

\* FunctionDefinition gives a function of the script its body where it is found.
LEMMA BodyGiven ==
    ASSUME NEW scs \in Seq(ScopeTypes), NEW f \in Functions, NEW body \in Bodies,
           LookupFunction(scs, f) \in UserFunctions
    PROVE  LET new == [scs EXCEPT ![Innermost(FunctionAt(scs, f))].funs[f] = UserFunction(body)] IN
           /\ new \in Seq(ScopeTypes)
           /\ SameVars(scs, new)
           /\ FunctionsKept(scs, new)
<1> DEFINE p == Innermost(FunctionAt(scs, f))
           given == UserFunction(body)
           new == [scs EXCEPT ![p].funs[f] = given]
<1>1. Len(scs) \in Nat /\ DOMAIN scs = 1..Len(scs) /\ DOMAIN new = 1..Len(scs)
  OBVIOUS
<1>2. given \in FunctionObjects /\ given \in UserFunctions
  BY DEF FunctionObjects, UserFunctions
<1>3. given # Forward
  BY ScopeAssumption DEF UserFunction, Forward
<1>4. LookupFunction(scs, f) # Nothing
  BY ScopeAssumption DEF FunctionObjects
<1>5. p \in 1..Len(scs) /\ scs[p].funs[f] \in UserFunctions
  BY <1>4, LookupFunctionFinds
<1>6. new = WithFunction(scs, p, f, given)
  BY DEF WithFunction
<1>7. p = Innermost(FunctionAt(scs, f))
  OBVIOUS
<1> HIDE DEF p, new, given
<1>8. /\ new \in Seq(ScopeTypes)
      /\ SameVars(scs, new)
      /\ \A i \in 1..Len(scs), g \in Functions :
           new[i].funs[g] = IF i = p /\ g = f THEN given ELSE scs[i].funs[g]
  BY <1>2, <1>5, <1>6, FunctionBound
<1>9. FunctionsKept(scs, new)
  <2>1. NewBody(scs, new, p, f)
    BY <1>2, <1>3, <1>5, <1>7, <1>8 DEF NewBody, SameVars
  <2>2. ASSUME NEW i \in 1..Len(scs), NEW g \in Functions, i # p \/ g # f
        PROVE  scs[i].funs[g] = new[i].funs[g]
    BY <1>8, <2>2
  <2> QED BY <1>1, <2>1, <2>2 DEF FunctionsKept
<1> QED BY <1>8, <1>9 DEF p, new, given

\* The loads and the libraries that are open.
PluginTypes ==
    /\ loads \in 0..MaxLoads
    /\ loaded \in [PluginNames -> 0..MaxLoads]

\* registerAllPlugins binds what is not bound yet, to functions of the plugins.
LEMMA RegisterAllKeeps ==
    ASSUME NEW scs \in Seq(ScopeTypes), NEW from \in [PluginNames -> 0..MaxLoads]
    PROVE  LET new == RegisterAll(scs, from) IN
           /\ new \in Seq(ScopeTypes)
           /\ SameVars(scs, new)
           /\ FunctionsKept(scs, new)
<1> DEFINE new == RegisterAll(scs, from)
           bound == [f \in Functions |->
                       IF LookupFunction(scs, f) # Nothing \/ Providers(from, f) = {}
                       THEN scs[Len(scs)].funs[f]
                       ELSE Native(FirstProvider(from, f), from[FirstProvider(from, f)])]
           entry == [scs[Len(scs)] EXCEPT !.funs = bound]
<1>1. Len(scs) \in Nat /\ DOMAIN scs = 1..Len(scs)
      /\ \A i \in 1..Len(scs) : scs[i] \in ScopeTypes
  OBVIOUS
<1>2. CASE new = scs
  BY <1>2, <1>1 DEF SameVars, FunctionsKept
<1>3. ASSUME NEW f \in Functions, Providers(from, f) # {}
      PROVE  Native(FirstProvider(from, f), from[FirstProvider(from, f)]) \in Natives
  <2>1. Providers(from, f) \subseteq Nat /\ Providers(from, f) \subseteq DOMAIN Plugins
    BY PluginAssumption DEF Providers
  <2>2. PICK first \in Providers(from, f) : \A j \in Providers(from, f) : first <= j
    BY <1>3, <2>1, SmallestOf
  <2>3. (CHOOSE i \in Providers(from, f) : \A j \in Providers(from, f) : i <= j)
          \in Providers(from, f)
    BY <2>2
  <2>4. PICK i \in Providers(from, f) : FirstProvider(from, f) = Plugins[i]
    BY <2>3 DEF FirstProvider
  <2>5. FirstProvider(from, f) \in PluginNames /\ from[FirstProvider(from, f)] # 0
    BY <2>1, <2>4 DEF Providers, PluginNames, Elements
  <2>6. from[FirstProvider(from, f)] \in 1..MaxLoads
    BY <2>5, PluginAssumption
  <2> QED BY <2>5, <2>6, PluginAssumption DEF Native
<1>4. CASE Len(scs) # 0 /\ new = [scs EXCEPT ![Len(scs)] = entry]
  <2>1. Len(scs) \in 1..Len(scs) /\ scs[Len(scs)] \in ScopeTypes
    BY <1>1, <1>4
  <2>2. bound \in [Functions -> FunctionObjects \cup {Nothing}]
    <3>1. \A f \in Functions : bound[f] \in FunctionObjects \cup {Nothing}
      BY <1>3, <2>1 DEF ScopeTypes, FunctionObjects
    <3> QED BY <3>1
  <2>3. \A f \in Functions :
          scs[Len(scs)].funs[f] \in {Nothing, bound[f]}
    BY <2>1, LookupFunctionFinds
  <2> HIDE DEF bound
  <2>4. entry \in ScopeTypes /\ entry.vars = scs[Len(scs)].vars /\ entry.funs = bound
    BY <2>1, <2>2 DEF ScopeTypes
  <2> HIDE DEF entry, new
  <2>5. /\ new \in Seq(ScopeTypes)
        /\ Len(new) = Len(scs)
        /\ \A j \in 1..Len(scs) : new[j] = IF j = Len(scs) THEN entry ELSE scs[j]
    BY <1>4, <2>1, <2>4, ExceptSeq
  <2>6. SameVars(scs, new)
    BY <2>4, <2>5 DEF SameVars
  <2>7. FunctionsKept(scs, new)
    BY <1>1, <2>3, <2>4, <2>5 DEF FunctionsKept
  <2> QED BY <2>5, <2>6, <2>7 DEF new
<1>5. CASE Len(scs) = 0
  <2>1. new = <<>> /\ scs = <<>>
    BY <1>1, <1>5 DEF RegisterAll
  <2> QED BY <2>1, <1>2
<1>6. new = scs \/ new = [scs EXCEPT ![Len(scs)] = entry]
  BY DEF RegisterAll
<1> QED BY <1>2, <1>4, <1>5, <1>6

----------------------------------------------------------------------------
(* Who holds a value, and who holds it together with another.              *)

\* A value is held by a variable of a scope or by an argument of a call.
LEMMA HeldByMeans ==
    ASSUME NEW scs \in Seq(ScopeTypes), NEW frs \in Seq(FrameTypes), NEW v
    PROVE  /\ v \in HeldBy(scs, frs) => v \in Values
           /\ v \in HeldBy(scs, frs) <=>
                /\ v # Nothing
                /\ \/ \E i \in 1..Len(scs), n \in Names : scs[i].vars[n] = v
                   \/ \E a \in 1..Len(frs) : \E k \in 1..Len(frs[a].args) : frs[a].args[k] = v
<1>1. /\ DOMAIN scs = 1..Len(scs) /\ DOMAIN frs = 1..Len(frs)
      /\ \A i \in 1..Len(scs) : scs[i] \in ScopeTypes
      /\ \A a \in 1..Len(frs) : frs[a] \in FrameTypes
  OBVIOUS
<1>2. ASSUME NEW a \in 1..Len(frs)
      PROVE  /\ frs[a].args \in Seq(Values)
             /\ DOMAIN frs[a].args = 1..Len(frs[a].args)
             /\ \A k \in 1..Len(frs[a].args) : frs[a].args[k] \in Values
  <2>1. frs[a].args \in Seq(Values)
    BY <1>1 DEF FrameTypes
  <2> QED BY <2>1
<1>3. ASSUME NEW i \in 1..Len(scs), NEW n \in Names
      PROVE  scs[i].vars[n] \in Values \cup {Nothing}
  BY <1>1 DEF ScopeTypes
<1>4. v \in HeldBy(scs, frs) <=>
                /\ v # Nothing
                /\ \/ \E i \in 1..Len(scs), n \in Names : scs[i].vars[n] = v
                   \/ \E a \in 1..Len(frs) : \E k \in 1..Len(frs[a].args) : frs[a].args[k] = v
  <2> DEFINE byScopes == {scs[i].vars[n] : i \in DOMAIN scs, n \in Names}
             byCalls == UNION {Elements(frs[a].args) : a \in DOMAIN frs}
  <2>1. v \in HeldBy(scs, frs) <=> v # Nothing /\ (v \in byScopes \/ v \in byCalls)
    BY DEF HeldBy
  <2>2. v \in byScopes <=> \E i \in 1..Len(scs), n \in Names : scs[i].vars[n] = v
    BY <1>1
  <2>3. v \in byCalls <=>
          \E a \in 1..Len(frs) : \E k \in 1..Len(frs[a].args) : frs[a].args[k] = v
    <3>1. v \in byCalls <=> \E a \in 1..Len(frs) : v \in Elements(frs[a].args)
      BY <1>1
    <3>2. \A a \in 1..Len(frs) :
            v \in Elements(frs[a].args) <=> \E k \in 1..Len(frs[a].args) : frs[a].args[k] = v
      BY <1>2 DEF Elements
    <3> QED BY <3>1, <3>2
  <2> HIDE DEF byScopes, byCalls
  <2> QED BY <2>1, <2>2, <2>3
<1>5. v \in HeldBy(scs, frs) => v \in Values
  BY <1>2, <1>3, <1>4
<1> QED BY <1>4, <1>5

\* How many scopes the visit of a block, a class body or a call enters.
Width == [class |-> 0, block |-> 1, call |-> 2]

\* The scopes that frame a entered are those from base[a] + 1 to base[a + 1].
\* The last two conjuncts follow from the third by induction over frames.
Layout(scs, frs, base) ==
    /\ base \in [1..(Len(frs) + 1) -> Nat]
    /\ base[1] = 2
    /\ \A a \in 1..Len(frs) : base[a + 1] = base[a] + Width[frs[a].kind]
    /\ base[Len(frs) + 1] = Len(scs)
    /\ \A a, b \in 1..(Len(frs) + 1) : a <= b => base[a] <= base[b]
    /\ \A a, b \in 1..(Len(frs) + 1) :
          a <= b /\ (\A l \in a..(b - 1) : frs[l].kind = "block") => base[b] = base[a] + (b - a)

\* Two variables that stand for the same value: it is known.
VariablesShare(scs, known) ==
    \A i, j \in 1..Len(scs), n, m \in Names :
       /\ scs[i].vars[n] # Nothing
       /\ scs[i].vars[n] = scs[j].vars[m]
       /\ i # j \/ n # m
       => scs[i].vars[n] \in known

\* Two arguments of running calls.
ArgumentsShare(frs, known) ==
    \A a, b \in 1..Len(frs) : \A k \in 1..Len(frs[a].args), l \in 1..Len(frs[b].args) :
       frs[a].args[k] = frs[b].args[l] /\ (a # b \/ k # l) => frs[a].args[k] \in known

\* A variable and an argument, except an argument and the parameter that it is
\* bound to: the scope of the parameters is the first that the call enters.
BoundShare(scs, frs, base, known) ==
    \A i \in 1..Len(scs), n \in Names, a \in 1..Len(frs) : \A k \in 1..Len(frs[a].args) :
       scs[i].vars[n] = frs[a].args[k]
       => \/ frs[a].args[k] \in known
          \/ frs[a].kind = "call" /\ i = base[a] + 1

Sound(scs, frs, known) ==
    \E base :
       /\ Layout(scs, frs, base)
       /\ VariablesShare(scs, known)
       /\ ArgumentsShare(frs, known)
       /\ BoundShare(scs, frs, base, known)

\* A step that changes no variable and no frame keeps it.
LEMMA SoundSame ==
    ASSUME NEW scs, NEW frs, NEW known, NEW new,
           SameVars(scs, new), Sound(scs, frs, known)
    PROVE  Sound(new, frs, known)
<1>1. PICK base :
       /\ Layout(scs, frs, base)
       /\ VariablesShare(scs, known)
       /\ ArgumentsShare(frs, known)
       /\ BoundShare(scs, frs, base, known)
  BY DEF Sound
<1>2. Layout(new, frs, base)
  BY <1>1 DEF Layout, SameVars
<1>3. VariablesShare(new, known)
  BY <1>1 DEF VariablesShare, SameVars
<1>4. BoundShare(new, frs, base, known)
  BY <1>1 DEF BoundShare, SameVars
<1> QED BY <1>1, <1>2, <1>3, <1>4 DEF Sound

\* More may be known, and what nobody holds need not be.
LEMMA SoundKnown ==
    ASSUME NEW scs \in Seq(ScopeTypes), NEW frs \in Seq(FrameTypes), NEW known, NEW more,
           Sound(scs, frs, known), known \cap HeldBy(scs, frs) \subseteq more
    PROVE  Sound(scs, frs, more)
<1>1. PICK base :
       /\ Layout(scs, frs, base)
       /\ VariablesShare(scs, known)
       /\ ArgumentsShare(frs, known)
       /\ BoundShare(scs, frs, base, known)
  BY DEF Sound
<1>2. ASSUME NEW i \in 1..Len(scs), NEW n \in Names, scs[i].vars[n] # Nothing,
             scs[i].vars[n] \in known
      PROVE  scs[i].vars[n] \in more
  BY <1>2, HeldByMeans
<1>3. ASSUME NEW a \in 1..Len(frs), NEW k \in 1..Len(frs[a].args), frs[a].args[k] \in known
      PROVE  frs[a].args[k] \in more
  <2>0. frs[a] \in FrameTypes
    OBVIOUS
  <2>1. frs[a].args \in Seq(Values)
    BY <2>0 DEF FrameTypes
  <2>2. frs[a].args[k] # Nothing
    BY <2>1, ScopeAssumption
  <2> QED BY <1>3, <2>2, HeldByMeans
<1>4. VariablesShare(scs, more)
  BY <1>1, <1>2 DEF VariablesShare
<1>5. ArgumentsShare(frs, more)
  BY <1>1, <1>3 DEF ArgumentsShare
<1>6. BoundShare(scs, frs, base, more)
  BY <1>1, <1>3 DEF BoundShare
<1> QED BY <1>1, <1>4, <1>5, <1>6 DEF Sound

\* A variable of the current scope is given a value that nobody holds, or one
\* that is known.
LEMMA SoundWrite ==
    ASSUME NEW scs \in Seq(ScopeTypes), NEW frs \in Seq(FrameTypes), NEW known,
           NEW n \in Names, NEW value \in Values,
           Sound(scs, frs, known), value \in known \/ value \notin HeldBy(scs, frs)
    PROVE  Sound(DefineVariable(scs, n, value), frs, known)
<1> DEFINE new == DefineVariable(scs, n, value)
<1>1. PICK base :
       /\ Layout(scs, frs, base)
       /\ VariablesShare(scs, known)
       /\ ArgumentsShare(frs, known)
       /\ BoundShare(scs, frs, base, known)
  BY DEF Sound
<1>2. /\ Len(new) = Len(scs)
      /\ \A i \in 1..Len(scs) :
           new[i].vars = IF i = Len(scs) THEN [scs[i].vars EXCEPT ![n] = value] ELSE scs[i].vars
  BY DefineVariableWrites
<1> HIDE DEF new
<1>3. \A i \in 1..Len(scs), m \in Names :
         new[i].vars[m] = IF i = Len(scs) /\ m = n THEN value ELSE scs[i].vars[m]
  <2>1. \A i \in 1..Len(scs) : scs[i] \in ScopeTypes
    OBVIOUS
  <2> QED BY <1>2, <2>1 DEF ScopeTypes
<1>4. value # Nothing
  BY ScopeAssumption
<1>5. \A i \in 1..Len(scs), m \in Names : scs[i].vars[m] = value => value \in known
  BY <1>4, HeldByMeans
<1>6. \A a \in 1..Len(frs) : \A k \in 1..Len(frs[a].args) :
         frs[a].args[k] = value => value \in known
  BY <1>4, HeldByMeans
<1>7. Layout(new, frs, base)
  BY <1>1, <1>2 DEF Layout
<1>8. VariablesShare(new, known)
  BY <1>1, <1>2, <1>3, <1>5 DEF VariablesShare
<1>9. BoundShare(new, frs, base, known)
  BY <1>1, <1>2, <1>3, <1>6 DEF BoundShare
<1> QED BY <1>1, <1>7, <1>8, <1>9 DEF Sound, new

\* The layout when a frame is pushed, and when some are taken off.
Longer(base, frs, length) ==
    [a \in 1..(Len(frs) + 2) |-> IF a = Len(frs) + 2 THEN length ELSE base[a]]
Shorter(base, frs, k) == [a \in 1..(Len(frs) - k + 1) |-> base[a]]

\* The activations stand over the scopes as before, with one scope more,
LEMMA LayoutPushed ==
    ASSUME NEW scs \in Seq(ScopeTypes), NEW frs \in Seq(FrameTypes), NEW base,
           NEW frame \in FrameTypes, NEW new \in Seq(ScopeTypes),
           Layout(scs, frs, base), Len(new) = Len(scs) + Width[frame.kind]
    PROVE  Layout(new, Append(frs, frame), Longer(base, frs, Len(new)))
<1> DEFINE longer == Longer(base, frs, Len(new))
           N == Len(frs)
           pushed == Append(frs, frame)
<1>1. /\ N \in Nat /\ Len(scs) \in Nat /\ Len(new) \in Nat
      /\ Len(pushed) = N + 1
      /\ \A a \in 1..N : pushed[a] = frs[a]
      /\ pushed[N + 1] = frame
  OBVIOUS
<1>2. /\ base \in [1..(N + 1) -> Nat]
      /\ base[1] = 2
      /\ \A a \in 1..N : base[a + 1] = base[a] + Width[frs[a].kind]
      /\ base[N + 1] = Len(scs)
      /\ \A a, b \in 1..(N + 1) : a <= b => base[a] <= base[b]
      /\ \A a, b \in 1..(N + 1) :
            a <= b /\ (\A l \in a..(b - 1) : frs[l].kind = "block") => base[b] = base[a] + (b - a)
  BY DEF Layout
<1>3. /\ longer \in [1..(N + 2) -> Nat]
      /\ \A a \in 1..(N + 1) : longer[a] = base[a]
      /\ longer[N + 2] = Len(new)
  BY <1>1, <1>2 DEF Longer
<1>4. Width[frame.kind] \in Nat /\ (frame.kind = "block" => Width[frame.kind] = 1)
  BY DEF FrameTypes, Width
<1> HIDE DEF longer, pushed, N
<1>5. \A a \in 1..(N + 1) : longer[a + 1] = longer[a] + Width[pushed[a].kind]
  <2>1. ASSUME NEW a \in 1..(N + 1) PROVE longer[a + 1] = longer[a] + Width[pushed[a].kind]
    <3>1. CASE a = N + 1
      <4>1. a + 1 = N + 2
        BY <1>1, <3>1
      <4> QED BY <3>1, <4>1, <1>1, <1>2, <1>3
    <3>2. CASE a \in 1..N
      <4>1. a + 1 \in 1..(N + 1)
        BY <1>1, <3>2
      <4> QED BY <3>2, <4>1, <1>1, <1>2, <1>3
    <3> QED BY <1>1, <3>1, <3>2
  <2> QED BY <2>1
<1>6. \A a, b \in 1..(N + 2) : a <= b => longer[a] <= longer[b]
  <2>1. ASSUME NEW a \in 1..(N + 1) PROVE longer[a] <= Len(new) /\ longer[a] \in Nat
    <3>1. N + 1 \in 1..(N + 1) /\ a <= N + 1
      BY <1>1
    <3>2. base[a] <= base[N + 1] /\ base[a] \in Nat
      BY <1>2, <3>1
    <3>3. longer[a] = base[a]
      BY <1>3
    <3>4. base[N + 1] = Len(scs)
      BY <1>2
    <3>5. Len(scs) <= Len(new)
      BY <1>1, <1>4
    <3>6. base[a] <= Len(scs)
      BY <3>2, <3>4
    <3> QED BY <1>1, <3>2, <3>3, <3>5, <3>6
  <2>2. \A a \in 1..(N + 2) : a \in 1..(N + 1) \/ a = N + 2
    BY <1>1
  <2>3. ASSUME NEW a \in 1..(N + 2), NEW b \in 1..(N + 2), a <= b PROVE longer[a] <= longer[b]
    <3>1. CASE b = N + 2
      BY <1>1, <1>3, <2>1, <2>2, <3>1
    <3>2. CASE b \in 1..(N + 1)
      <4>1. a \in 1..(N + 1)
        BY <1>1, <2>3, <3>2
      <4> QED BY <1>2, <1>3, <2>3, <3>2, <4>1
    <3> QED BY <2>2, <3>1, <3>2
  <2> QED BY <2>3
<1>7. ASSUME NEW a \in 1..(N + 2), NEW b \in 1..(N + 2), a <= b,
             \A l \in a..(b - 1) : pushed[l].kind = "block"
      PROVE  longer[b] = longer[a] + (b - a)
  <2>1. CASE b \in 1..(N + 1)
    <3>1. a \in 1..(N + 1)
      BY <1>1, <1>7, <2>1
    <3>2. \A l \in a..(b - 1) : l \in 1..N
      BY <1>1, <2>1, <3>1
    <3>3. \A l \in a..(b - 1) : frs[l].kind = "block"
      BY <1>1, <1>7, <3>2
    <3> QED BY <1>2, <1>3, <1>7, <2>1, <3>1, <3>3
  <2>2. CASE a = N + 2
    BY <1>1, <1>3, <1>7, <2>2
  <2>3. CASE b = N + 2 /\ a \in 1..(N + 1)
    <3>1. \A l \in a..N : l \in 1..N /\ l \in a..(b - 1)
      BY <1>1, <2>3
    <3>2. \A l \in a..N : frs[l].kind = "block"
      BY <1>1, <1>7, <3>1
    <3>3. N + 1 \in 1..(N + 1) /\ a <= N + 1 /\ (N + 1) - 1 = N
      BY <1>1, <2>3
    <3>4. base[N + 1] = base[a] + ((N + 1) - a)
      BY <1>2, <2>3, <3>2, <3>3
    <3>5. N + 1 \in a..(b - 1)
      BY <1>1, <2>3
    <3>6. frame.kind = "block"
      BY <1>1, <1>7, <3>5
    <3>7. base[a] \in Nat
      BY <1>2, <2>3
    <3> QED BY SMTT(30), <1>1, <1>2, <1>3, <1>4, <2>3, <3>4, <3>6, <3>7
  <2>4. \A c \in 1..(N + 2) : c \in 1..(N + 1) \/ c = N + 2
    BY <1>1
  <2> QED BY <2>1, <2>2, <2>3, <2>4
<1>8. 1 \in 1..(N + 1) /\ (N + 1) + 1 = N + 2
  BY <1>1
<1>9. Layout(new, pushed, longer)
  BY <1>1, <1>2, <1>3, <1>5, <1>6, <1>7, <1>8 DEF Layout
<1> QED BY <1>9 DEF longer, pushed

\* or with the top one gone.
LEMMA LayoutPopped ==
    ASSUME NEW scs \in Seq(ScopeTypes), NEW frs \in Seq(FrameTypes), NEW base,
           NEW k \in 0..Len(frs), NEW new \in Seq(ScopeTypes),
           Layout(scs, frs, base), Len(new) = base[Len(frs) - k + 1]
    PROVE  Layout(new, Outer(frs, k), Shorter(base, frs, k))
<1> DEFINE N == Len(frs) - k
           outer == Outer(frs, k)
           shorter == Shorter(base, frs, k)
<1>1. /\ N \in Nat /\ N <= Len(frs) /\ Len(frs) \in Nat
      /\ Len(outer) = N
      /\ \A a \in 1..N : outer[a] = frs[a]
  <2>1. k \in Nat /\ Len(frs) \in Nat /\ k <= Len(frs)
    OBVIOUS
  <2>2. outer = Popped(frs, k)
    BY OuterIsPopped
  <2>3. /\ Len(outer) = IF k <= Len(frs) THEN Len(frs) - k ELSE 0
        /\ \A a \in 1..Len(outer) : outer[a] = frs[a]
    BY <2>1, <2>2, PoppedKeeps
  <2> QED BY <2>1, <2>3
<1>2. /\ shorter = [a \in 1..(N + 1) |-> base[a]]
      /\ \A a \in 1..(N + 1) : a \in 1..(Len(frs) + 1)
  BY <1>1 DEF Shorter
<1> HIDE DEF N, outer, shorter
<1>3. /\ shorter \in [1..(N + 1) -> Nat]
      /\ \A a \in 1..(N + 1) : shorter[a] = base[a]
      /\ Len(new) = base[N + 1]
  BY <1>2 DEF Layout, N
<1>4. 1 \in 1..(N + 1) /\ N + 1 \in 1..(N + 1)
      /\ \A a \in 1..N : a \in 1..(N + 1) /\ a + 1 \in 1..(N + 1) /\ a \in 1..Len(frs)
  BY <1>1
<1>5. \A a \in 1..N : shorter[a + 1] = shorter[a] + Width[outer[a].kind]
  BY <1>1, <1>3, <1>4 DEF Layout
<1>6. \A a, b \in 1..(N + 1) : a <= b => shorter[a] <= shorter[b]
  BY <1>2, <1>3 DEF Layout
<1>7. ASSUME NEW a \in 1..(N + 1), NEW b \in 1..(N + 1), a <= b,
             \A l \in a..(b - 1) : outer[l].kind = "block"
      PROVE  shorter[b] = shorter[a] + (b - a)
  <2>1. \A l \in a..(b - 1) : l \in 1..N
    BY <1>1
  <2>2. \A l \in a..(b - 1) : frs[l].kind = "block"
    BY <1>1, <1>7, <2>1
  <2>3. base[b] = base[a] + (b - a)
    BY <1>2, <1>7, <2>2 DEF Layout
  <2> QED BY <1>3, <2>3
<1>8. Layout(new, outer, shorter)
  BY <1>1, <1>3, <1>4, <1>5, <1>6, <1>7 DEF Layout
<1> QED BY <1>8 DEF outer, shorter

\* A visit that begins: its new scopes define nothing, except that the first
\* scope of a call has the arguments as parameters.
LEMMA SoundPushed ==
    ASSUME NEW scs \in Seq(ScopeTypes), NEW frs \in Seq(FrameTypes), NEW known,
           NEW frame \in FrameTypes, NEW new \in Seq(ScopeTypes),
           Sound(scs, frs, known),
           Len(new) = Len(scs) + Width[frame.kind],
           \A i \in 1..Len(scs) : new[i].vars = scs[i].vars,
           \A i \in 1..Len(new), n \in Names :
              \/ i <= Len(scs)
              \/ new[i].vars[n] = Nothing
              \/ /\ i = Len(scs) + 1
                 /\ frame.kind = "call"
                 /\ \E k \in 1..Len(frame.args) : new[i].vars[n] = frame.args[k],
           \A i \in 1..Len(new), n, m \in Names :
              \/ i <= Len(scs) \/ n = m \/ new[i].vars[n] = Nothing
              \/ new[i].vars[n] # new[i].vars[m]
              \/ new[i].vars[n] \in known,
           \A k \in 1..Len(frame.args) :
              \/ frame.args[k] \in known
              \/ /\ frame.args[k] \notin HeldBy(scs, frs)
                 /\ \A l \in 1..Len(frame.args) : frame.args[l] = frame.args[k] => l = k
    PROVE  Sound(new, Append(frs, frame), known)
<1> DEFINE N == Len(frs)
           L == Len(scs)
           pushed == Append(frs, frame)
<1>1. PICK base :
       /\ Layout(scs, frs, base)
       /\ VariablesShare(scs, known)
       /\ ArgumentsShare(frs, known)
       /\ BoundShare(scs, frs, base, known)
  BY DEF Sound
<1> DEFINE longer == Longer(base, frs, Len(new))
<1>2. /\ N \in Nat /\ L \in Nat /\ Len(new) \in Nat
      /\ Len(pushed) = N + 1
      /\ \A a \in 1..N : pushed[a] = frs[a]
      /\ pushed[N + 1] = frame
  OBVIOUS
<1>3. Layout(new, pushed, longer)
  BY <1>1, LayoutPushed
<1>4. \A a \in 1..(N + 1) : longer[a] = base[a]
  BY <1>2 DEF Longer
<1>5. base[N + 1] = L /\ longer[N + 1] = L
  BY <1>1, <1>2, <1>4 DEF Layout
<1>6. /\ frame.args \in Seq(Values)
      /\ \A k \in 1..Len(frame.args) : frame.args[k] \in Values /\ frame.args[k] # Nothing
  <2>1. frame.args \in Seq(Values)
    BY DEF FrameTypes
  <2>2. Nothing \notin Values
    BY ScopeAssumption
  <2> QED BY <2>1, <2>2
<1>7. \A i \in 1..L, n \in Names, k \in 1..Len(frame.args) :
         scs[i].vars[n] = frame.args[k] => frame.args[k] \in known
  BY <1>6, HeldByMeans
<1>8. \A a \in 1..N, k \in 1..Len(frame.args) : \A l \in 1..Len(frs[a].args) :
         frs[a].args[l] = frame.args[k] => frame.args[k] \in known
  BY <1>6, HeldByMeans
<1> HIDE DEF N, L, pushed, longer
<1>9. \A a \in 1..(N + 1) : a \in 1..N \/ a = N + 1
  BY <1>2
<1>10. \A i \in 1..Len(new) : i \in 1..L \/ i > L
  BY <1>2
<1>11. ArgumentsShare(pushed, known)
  <2>1. ASSUME NEW a \in 1..(N + 1), NEW b \in 1..(N + 1),
               NEW k \in 1..Len(pushed[a].args), NEW l \in 1..Len(pushed[b].args),
               pushed[a].args[k] = pushed[b].args[l], a # b \/ k # l
        PROVE  pushed[a].args[k] \in known
    <3>1. CASE a = N + 1 /\ b = N + 1
      BY <1>2, <2>1, <3>1
    <3>2. CASE a = N + 1 /\ b \in 1..N
      BY <1>2, <1>8, <2>1, <3>2
    <3>3. CASE a \in 1..N /\ b = N + 1
      <4>1. pushed[a] = frs[a] /\ pushed[b] = frame
        BY <1>2, <3>3
      <4>2. k \in 1..Len(frs[a].args) /\ l \in 1..Len(frame.args)
            /\ frs[a].args[k] = frame.args[l]
        BY <2>1, <4>1
      <4>3. frame.args[l] \in known
        BY <1>8, <3>3, <4>2
      <4> QED BY <4>1, <4>2, <4>3
    <3>4. CASE a \in 1..N /\ b \in 1..N
      <4>1. pushed[a] = frs[a] /\ pushed[b] = frs[b]
        BY <1>2, <3>4
      <4>2. k \in 1..Len(frs[a].args) /\ l \in 1..Len(frs[b].args)
            /\ frs[a].args[k] = frs[b].args[l]
        BY <2>1, <4>1
      <4>3. frs[a].args[k] \in known
        BY <1>1, <2>1, <3>4, <4>2 DEF ArgumentsShare, N
      <4> QED BY <4>1, <4>3
    <3> QED BY <1>9, <3>1, <3>2, <3>3, <3>4
  <2>2. Len(pushed) = N + 1
    BY <1>2
  <2>3. ASSUME NEW a \in 1..Len(pushed), NEW b \in 1..Len(pushed)
        PROVE  \A k \in 1..Len(pushed[a].args), l \in 1..Len(pushed[b].args) :
                  pushed[a].args[k] = pushed[b].args[l] /\ (a # b \/ k # l)
                  => pushed[a].args[k] \in known
    BY <2>1, <2>2
  <2> QED BY <2>3 DEF ArgumentsShare
<1>12. ASSUME NEW i \in 1..Len(new), i > L, NEW n \in Names, new[i].vars[n] # Nothing
       PROVE  /\ i = L + 1
              /\ frame.kind = "call"
              /\ \E k \in 1..Len(frame.args) : new[i].vars[n] = frame.args[k]
  <2>1. ~(i <= Len(scs))
    BY <1>2, <1>12 DEF L
  <2> QED BY <1>12, <2>1 DEF L
<1>13. VariablesShare(new, known)
  <2>1. ASSUME NEW i \in 1..Len(new), NEW j \in 1..Len(new), NEW n \in Names, NEW m \in Names,
               new[i].vars[n] # Nothing, new[i].vars[n] = new[j].vars[m], i # j \/ n # m
        PROVE  new[i].vars[n] \in known
    <3>1. CASE i \in 1..L /\ j \in 1..L
      BY SMTT(30), <1>1, <2>1, <3>1 DEF VariablesShare, L
    <3>2. CASE i > L /\ j \in 1..L
      <4>1. PICK k \in 1..Len(frame.args) : new[i].vars[n] = frame.args[k]
        BY <1>12, <2>1, <3>2
      <4>2. scs[j].vars[m] = frame.args[k]
        BY <2>1, <3>2, <4>1 DEF L
      <4>3. frame.args[k] \in known
        BY <1>7, <3>2, <4>2
      <4> QED BY <4>1, <4>3
    <3>3. CASE i \in 1..L /\ j > L
      <4>1. PICK k \in 1..Len(frame.args) : new[j].vars[m] = frame.args[k]
        BY <1>12, <2>1, <3>3
      <4>2. scs[i].vars[n] = frame.args[k]
        BY <2>1, <3>3, <4>1 DEF L
      <4>3. frame.args[k] \in known
        BY <1>7, <3>3, <4>2
      <4> QED BY <2>1, <4>1, <4>3
    <3>4. CASE i > L /\ j > L
      <4>1. i = j /\ n # m /\ ~(i <= Len(scs))
        BY <1>2, <1>12, <2>1, <3>4 DEF L
      <4> QED BY <2>1, <4>1
    <3> QED BY <1>10, <3>1, <3>2, <3>3, <3>4
  <2> QED BY <2>1 DEF VariablesShare
<1>14. BoundShare(new, pushed, longer, known)
  <2>1. ASSUME NEW i \in 1..Len(new), NEW n \in Names, NEW a \in 1..(N + 1),
               NEW k \in 1..Len(pushed[a].args), new[i].vars[n] = pushed[a].args[k],
               pushed[a].args[k] \notin known
        PROVE  pushed[a].kind = "call" /\ i = longer[a] + 1
    <3>1. CASE i \in 1..L /\ a \in 1..N
      <4>1. longer[a] = base[a]
        BY <1>4, <1>2, <3>1
      <4> QED BY SMTT(30), <1>1, <1>2, <2>1, <3>1, <4>1 DEF BoundShare, L, N
    <3>2. CASE i \in 1..L /\ a = N + 1
      BY SMTT(30), <1>2, <1>7, <2>1, <3>2 DEF L
    <3>3. CASE i > L /\ a = N + 1
      BY SMTT(30), <1>2, <1>5, <1>6, <1>12, <2>1, <3>3
    <3>4. CASE i > L /\ a \in 1..N
      <4>1. frs[a] \in FrameTypes
        BY <3>4 DEF N
      <4>2. frs[a].args \in Seq(Values) /\ Nothing \notin Values
        BY <4>1, ScopeAssumption DEF FrameTypes
      <4>3. frs[a].args[k] # Nothing /\ new[i].vars[n] = frs[a].args[k]
        BY <1>2, <2>1, <3>4, <4>2
      <4>4. PICK l \in 1..Len(frame.args) : new[i].vars[n] = frame.args[l]
        BY <1>12, <2>1, <3>4, <4>3
      <4>5. pushed[a] = frs[a] /\ k \in 1..Len(frs[a].args) /\ frs[a].args[k] = frame.args[l]
        BY <1>2, <3>4, <4>3, <4>4
      <4>6. frame.args[l] \in known
        BY <1>8, <3>4, <4>5
      <4> QED BY <2>1, <4>5, <4>6
    <3> QED BY <1>9, <1>10, <3>1, <3>2, <3>3, <3>4
  <2> QED BY <1>2, <2>1 DEF BoundShare
<1>15. Sound(new, pushed, known)
  BY <1>3, <1>11, <1>13, <1>14 DEF Sound
<1> QED BY <1>15 DEF pushed

\* A block or a class body has no arguments.
LEMMA SoundEntered ==
    ASSUME NEW scs \in Seq(ScopeTypes), NEW frs \in Seq(FrameTypes), NEW known,
           NEW frame \in FrameTypes, NEW new \in Seq(ScopeTypes),
           Sound(scs, frs, known), frame.args = <<>>,
           Len(new) = Len(scs) + Width[frame.kind],
           \A i \in 1..Len(scs) : new[i].vars = scs[i].vars,
           \A i \in 1..Len(new), n \in Names : i <= Len(scs) \/ new[i].vars[n] = Nothing
    PROVE  Sound(new, Append(frs, frame), known)
<1>1. \A i \in 1..Len(new), n \in Names :
              \/ i <= Len(scs)
              \/ new[i].vars[n] = Nothing
              \/ /\ i = Len(scs) + 1
                 /\ frame.kind = "call"
                 /\ \E k \in 1..Len(frame.args) : new[i].vars[n] = frame.args[k]
  OBVIOUS
<1>2. \A i \in 1..Len(new), n, m \in Names :
              \/ i <= Len(scs) \/ n = m \/ new[i].vars[n] = Nothing
              \/ new[i].vars[n] # new[i].vars[m]
              \/ new[i].vars[n] \in known
  OBVIOUS
<1>3. \A k \in 1..Len(frame.args) :
              \/ frame.args[k] \in known
              \/ /\ frame.args[k] \notin HeldBy(scs, frs)
                 /\ \A l \in 1..Len(frame.args) : frame.args[l] = frame.args[k] => l = k
  <2>1. Len(frame.args) = 0
    OBVIOUS
  <2> QED BY <2>1
<1> QED BY <1>1, <1>2, <1>3, SoundPushed, Zenon

\* The visits that end, with the scopes they entered: what is left is as before.
LEMMA SoundPopped ==
    ASSUME NEW scs \in Seq(ScopeTypes), NEW frs \in Seq(FrameTypes), NEW known,
           NEW k \in 0..Len(frs), NEW depth \in Nat, NEW base,
           Layout(scs, frs, base), base[Len(frs) - k + 1] = Len(scs) - depth,
           VariablesShare(scs, known), ArgumentsShare(frs, known),
           BoundShare(scs, frs, base, known)
    PROVE  Sound(Popped(scs, depth), Outer(frs, k), known)
<1> DEFINE left == Popped(scs, depth)
           outer == Outer(frs, k)
           shorter == Shorter(base, frs, k)
<1>1. k \in Nat /\ k <= Len(frs) /\ Len(frs) \in Nat /\ Len(scs) \in Nat
      /\ Len(frs) - k + 1 \in 1..(Len(frs) + 1)
  OBVIOUS
<1>2. base[Len(frs) - k + 1] \in Nat
  BY <1>1 DEF Layout
<1>3. /\ left \in Seq(ScopeTypes)
      /\ Len(left) = Len(scs) - depth
      /\ \A i \in 1..Len(left) : i \in 1..Len(scs) /\ left[i] = scs[i]
  BY <1>1, <1>2, PoppedKeeps
<1>4. /\ Len(outer) = Len(frs) - k
      /\ \A a \in 1..Len(outer) : a \in 1..Len(frs) /\ outer[a] = frs[a]
  BY <1>1, PoppedKeeps, OuterIsPopped
<1> HIDE DEF left, outer
<1>5. Layout(left, outer, shorter)
  BY <1>3, LayoutPopped DEF outer
<1>6. \A a \in 1..Len(outer) : shorter[a] = base[a]
  BY <1>1, <1>4 DEF Shorter
<1> HIDE DEF shorter
<1>7. VariablesShare(left, known)
  BY SMTT(30), <1>3 DEF VariablesShare
<1>8. ArgumentsShare(outer, known)
  BY <1>4 DEF ArgumentsShare
<1>9. BoundShare(left, outer, shorter, known)
  <2>1. ASSUME NEW i \in 1..Len(left), NEW n \in Names, NEW a \in 1..Len(outer),
               NEW l \in 1..Len(outer[a].args), left[i].vars[n] = outer[a].args[l],
               outer[a].args[l] \notin known
        PROVE  outer[a].kind = "call" /\ i = shorter[a] + 1
    <3>1. left[i] = scs[i] /\ outer[a] = frs[a] /\ shorter[a] = base[a]
          /\ i \in 1..Len(scs) /\ a \in 1..Len(frs) /\ l \in 1..Len(frs[a].args)
      BY <1>3, <1>4, <1>6
    <3> QED BY SMTT(30), <2>1, <3>1 DEF BoundShare
  <2> QED BY <2>1 DEF BoundShare
<1>10. Sound(left, outer, known)
  BY <1>5, <1>7, <1>8, <1>9 DEF Sound
<1> QED BY <1>10 DEF left, outer

----------------------------------------------------------------------------
(* The inductive invariant and the steps.                                  *)

Faults == {"none", "use after free", "double free", "endless", "unloaded"}

TypeInv ==
    /\ scopes \in Seq(ScopeTypes)
    /\ frames \in Seq(FrameTypes)
    /\ freed \subseteq Values
    /\ handed \subseteq Values
    /\ fault \in Faults
    /\ PluginTypes

\* A class body has definitions only: no visit begins in one.
ClassOnTop(frs) == \A a \in 1..Len(frs) : frs[a].kind = "class" => a = Len(frs)

\* A value that two hold, other than an argument and its parameter, was handed
\* over: whoever deletes one of its places leaves the other with a known value.
SharingInv == Sound(scopes, frames, handed)

EnvironmentInv ==
    TypeInv /\ ClassOnTop(frames) /\ SharingInv /\ DanglingOnlyIfHandedOver

\* What a step of the script comes to.
StepOK ==
    /\ scopes' \in Seq(ScopeTypes)
    /\ frames' \in Seq(FrameTypes)
    /\ freed' \subseteq Values /\ handed' \subseteq Values
    /\ fault' \in Faults
    /\ ClassOnTop(frames')
    /\ Sound(scopes', frames', handed')
    /\ freed' \subseteq handed'
    /\ FunctionsKept(scopes, scopes')
    /\ OuterKept(scopes, scopes')

\* Scopes that are those of before, or the outer ones of them, and perhaps a
\* variable of the innermost of those is written.
LEMMA OuterKeptByWrite ==
    ASSUME NEW scs \in Seq(ScopeTypes), NEW left \in Seq(ScopeTypes),
           Len(left) <= Len(scs), \A i \in 1..Len(left) : left[i] = scs[i]
    PROVE  /\ FunctionsKept(scs, left) /\ OuterKept(scs, left)
           /\ \A n \in Names, value \in Values :
                /\ FunctionsKept(scs, DefineVariable(left, n, value))
                /\ OuterKept(scs, DefineVariable(left, n, value))
<1>1. /\ Len(scs) \in Nat /\ Len(left) \in Nat
      /\ DOMAIN scs = 1..Len(scs) /\ DOMAIN left = 1..Len(left)
  OBVIOUS
<1>2. FunctionsKept(scs, left) /\ OuterKept(scs, left)
  BY <1>1 DEF FunctionsKept, OuterKept
<1>3. ASSUME NEW n \in Names, NEW value \in Values
      PROVE  /\ FunctionsKept(scs, DefineVariable(left, n, value))
             /\ OuterKept(scs, DefineVariable(left, n, value))
  <2> DEFINE new == DefineVariable(left, n, value)
  <2>1. /\ new \in Seq(ScopeTypes)
        /\ Len(new) = Len(left)
        /\ \A i \in 1..Len(left) :
             /\ new[i].funs = left[i].funs
             /\ new[i].vars =
                  IF i = Len(left) THEN [left[i].vars EXCEPT ![n] = value] ELSE left[i].vars
    BY DefineVariableWrites
  <2> HIDE DEF new
  <2>2. DOMAIN new = 1..Len(left)
    BY <2>1
  <2>3. \A i \in 1..Len(left) :
             /\ new[i].funs = scs[i].funs
             /\ i # Len(left) => new[i].vars = scs[i].vars
    BY <2>1
  <2>4. FunctionsKept(scs, new)
    BY <1>1, <2>2, <2>3 DEF FunctionsKept
  <2>5. OuterKept(scs, new)
    <3>1. ASSUME NEW i \in DOMAIN scs \cap DOMAIN new, i < Len(scs), i < Len(new)
          PROVE  new[i].vars = scs[i].vars
      <4>1. i \in 1..Len(left)
        BY <2>2, <3>1
      <4>2. Len(new) = Len(left)
        BY <2>1
      <4>3. i # Len(left)
        BY <1>1, <3>1, <4>1, <4>2
      <4> QED BY <2>3, <4>1, <4>3
    <3> QED BY <3>1 DEF OuterKept
  <2> QED BY <2>4, <2>5 DEF new
<1> QED BY <1>2, <1>3

\* A step that changes no variable, no frame and no value.
LEMMA QuietStep ==
    ASSUME EnvironmentInv, scopes' \in Seq(ScopeTypes), SameVars(scopes, scopes'),
           FunctionsKept(scopes, scopes'), frames' = frames, freed' = freed, handed' = handed,
           fault' \in Faults
    PROVE  StepOK
<1>1. Sound(scopes', frames', handed')
  BY SoundSame DEF EnvironmentInv, SharingInv
<1>2. OuterKept(scopes, scopes')
  <2>1. DOMAIN scopes = 1..Len(scopes)
    BY DEF EnvironmentInv, TypeInv
  <2> QED BY <2>1 DEF SameVars, OuterKept
<1> QED BY <1>1, <1>2 DEF EnvironmentInv, TypeInv, StepOK, DanglingOnlyIfHandedOver

\* What cannot be said any more changes nothing.
LEMMA FaultedStep ==
    ASSUME EnvironmentInv, NEW kind \in Faults, Faulted(kind)
    PROVE  StepOK
<1>1. /\ scopes \in Seq(ScopeTypes) /\ DOMAIN scopes = 1..Len(scopes)
      /\ scopes' = scopes /\ frames' = frames /\ freed' = freed /\ handed' = handed
      /\ fault' \in Faults
  BY DEF EnvironmentInv, TypeInv, Faulted
<1>2. SameVars(scopes, scopes') /\ FunctionsKept(scopes, scopes')
  BY <1>1 DEF SameVars, FunctionsKept
<1> QED BY <1>1, <1>2, QuietStep

\* A step that deletes values and hands values over, whatever else it does.
LEMMA FreeStep ==
    ASSUME EnvironmentInv, scopes' \in Seq(ScopeTypes), frames' \in Seq(FrameTypes),
           NEW gone, NEW given, Free(gone, given),
           Sound(scopes', frames', handed \cup given),
           gone \cap HeldBy(scopes', frames') \subseteq handed \cup given,
           ClassOnTop(frames'),
           FunctionsKept(scopes, scopes'), OuterKept(scopes, scopes')
    PROVE  StepOK
<1> DEFINE held == HeldBy(scopes', frames')
<1>1. held \subseteq Values
  BY HeldByMeans
<1>2. /\ freed' = (freed \cup gone) \cap held
      /\ handed' = (handed \cup given) \cap held
      /\ fault' \in Faults
  BY DEF Free, EnvironmentInv, TypeInv, Faults
<1>3. freed' \subseteq Values /\ handed' \subseteq Values
  BY <1>1, <1>2
<1>4. freed \subseteq handed
  BY DEF EnvironmentInv, DanglingOnlyIfHandedOver
<1>5. freed' \subseteq handed'
  BY <1>2, <1>4
<1>6. Sound(scopes', frames', handed')
  <2>1. (handed \cup given) \cap HeldBy(scopes', frames') \subseteq handed'
    BY <1>2
  <2> QED BY <2>1, SoundKnown
<1> QED BY <1>2, <1>3, <1>5, <1>6 DEF StepOK

\* The end of a call, for the scopes and frames that are left.
LEMMA FinishCallStep ==
    ASSUME EnvironmentInv, NEW scs \in Seq(ScopeTypes), NEW frs \in Seq(FrameTypes),
           NEW args \in Seq(Values), NEW given, NEW result \in Values \cup {Nothing},
           NEW dest \in Names \cup {Nothing},
           FinishCall(scs, frs, args, given, result, dest),
           Len(scs) <= Len(scopes), \A i \in 1..Len(scs) : scs[i] = scopes[i],
           ClassOnTop(frs), Sound(scs, frs, handed \cup given),
           \A v \in Elements(args) \ {result} : v \in HeldBy(scs, frs) => v \in handed \cup given
    PROVE  StepOK
<1> DEFINE gone == Discarded(args, result)
           binds == result # Nothing /\ dest # Nothing
           more == given \cup ({result} \cap HeldBy(scs, frs))
<1>1. CASE \E kind \in Faults : Faulted(kind)
  BY <1>1, FaultedStep
<1>2. CASE /\ scopes' = IF binds THEN DefineVariable(scs, dest, result) ELSE scs
           /\ frames' = frs
           /\ Free(gone, more)
  <2>1. scopes \in Seq(ScopeTypes)
    BY DEF EnvironmentInv, TypeInv
  <2>2. Sound(scs, frs, handed \cup more)
    <3>1. (handed \cup given) \cap HeldBy(scs, frs) \subseteq handed \cup more
      OBVIOUS
    <3> HIDE DEF more
    <3> QED BY <3>1, SoundKnown
  <2> HIDE DEF more
  <2>3. CASE binds
    <3>1. dest \in Names /\ result \in Values
      BY <2>3
    <3>2. result \in handed \cup more \/ result \notin HeldBy(scs, frs)
      BY DEF more
    <3>3. Sound(scopes', frames', handed \cup more)
      BY <1>2, <2>2, <2>3, <3>1, <3>2, SoundWrite
    <3>4. scopes' \in Seq(ScopeTypes) /\ frames' \in Seq(FrameTypes)
      BY <1>2, <2>3, <3>1, DefineVariableWrites
    <3>5. FunctionsKept(scopes, scopes') /\ OuterKept(scopes, scopes')
      BY <1>2, <2>1, <2>3, <3>1, OuterKeptByWrite
    <3>6. ASSUME NEW v \in gone, v \in HeldBy(scopes', frames') PROVE v \in handed \cup more
      <4>1. v \in Elements(args) /\ v # result
        BY <3>6 DEF Discarded
      <4>2. \A i \in 1..Len(scs) : scs[i] \in ScopeTypes
        OBVIOUS
      <4>3. /\ Len(scopes') = Len(scs)
            /\ \A i \in 1..Len(scs) :
                 scopes'[i].vars = IF i = Len(scs) THEN [scs[i].vars EXCEPT ![dest] = result]
                                   ELSE scs[i].vars
        BY <1>2, <2>3, <3>1, DefineVariableWrites
      <4>4. ASSUME NEW i \in 1..Len(scs), NEW n \in Names, scopes'[i].vars[n] = v
            PROVE  scs[i].vars[n] = v
        <5>1. scs[i].vars \in [Names -> Values \cup {Nothing}]
          BY <4>2 DEF ScopeTypes
        <5> QED BY <4>1, <4>3, <4>4, <5>1
      <4>5. v \in HeldBy(scs, frs)
        BY SMTT(30), <1>2, <3>4, <3>6, <4>3, <4>4, HeldByMeans
      <4> QED BY <4>1, <4>5 DEF more
    <3> QED BY <1>2, <3>3, <3>4, <3>5, <3>6, FreeStep
  <2>4. CASE ~binds
    <3>1. scopes' = scs /\ frames' = frs
      BY <1>2, <2>4
    <3>2. FunctionsKept(scopes, scopes') /\ OuterKept(scopes, scopes')
      BY <2>1, <3>1, OuterKeptByWrite
    <3>3. gone \cap HeldBy(scopes', frames') \subseteq handed \cup more
      BY <3>1 DEF Discarded, more
    <3> QED BY <1>2, <2>2, <3>1, <3>2, <3>3, FreeStep
  <2> QED BY <2>3, <2>4
<1>3. "double free" \in Faults /\ "endless" \in Faults
  BY DEF Faults
<1> QED BY <1>1, <1>2, <1>3 DEF FinishCall

----------------------------------------------------------------------------
(* Definitions and updates.                                                *)

\* Everybody knows more when something is handed over.
LEMMA SoundMore ==
    ASSUME EnvironmentInv, NEW given
    PROVE  Sound(scopes, frames, handed \cup given)
<1>1. handed \cap HeldBy(scopes, frames) \subseteq handed \cup given
  OBVIOUS
<1> QED BY <1>1, SoundKnown DEF EnvironmentInv, TypeInv, SharingInv

\* A value that a variable stands for is held, and is a value.
LEMMA ReadableIsValue ==
    ASSUME EnvironmentInv, NEW n \in Names, LookupVariable(n) # Nothing
    PROVE  LookupVariable(n) \in Values
  BY LookupVariableFinds DEF EnvironmentInv, TypeInv

\* A variable of the current scope is written, and nothing is deleted that is
\* still held and not known.
LEMMA WriteStep ==
    ASSUME EnvironmentInv, NEW n \in Names, NEW value \in Values, NEW gone, NEW given,
           scopes' = DefineVariable(scopes, n, value), frames' = frames, Free(gone, given),
           value \in given \/ value \in Unheld,
           gone \cap HeldBy(scopes', frames') \subseteq handed \cup given
    PROVE  StepOK
<1>1. scopes \in Seq(ScopeTypes) /\ frames \in Seq(FrameTypes) /\ ClassOnTop(frames)
  BY DEF EnvironmentInv, TypeInv
<1>2. Sound(scopes', frames', handed \cup given)
  BY <1>1, SoundMore, SoundWrite DEF Unheld
<1>3. scopes' \in Seq(ScopeTypes)
  BY <1>1, DefineVariableWrites
<1>4. FunctionsKept(scopes, scopes') /\ OuterKept(scopes, scopes')
  BY <1>1, OuterKeptByWrite
<1> QED BY <1>1, <1>2, <1>3, <1>4, FreeStep

\* Each statement of a script keeps the invariant and touches only its own scope.
LEMMA LetConstantStep ==
    ASSUME EnvironmentInv, NEW n \in Names, LetConstant(n)
    PROVE  StepOK
<1>1. PICK value \in Unheld : scopes' = DefineVariable(scopes, n, value)
  BY DEF LetConstant
<1>2. value \in Values /\ frames' = frames /\ Free({}, {})
  BY <1>1 DEF LetConstant, Unheld
<1> QED BY <1>1, <1>2, WriteStep

\* let n = m shares the value of m, which counts as handed over.
LEMMA LetVariableStep ==
    ASSUME EnvironmentInv, NEW n \in Names, NEW m \in Names, LetVariable(n, m)
    PROVE  StepOK
<1> DEFINE value == LookupVariable(m)
<1>1. /\ scopes' = DefineVariable(scopes, n, value) /\ frames' = frames
      /\ Free({}, {value}) /\ value # Nothing
  BY DEF LetVariable, Readable
<1>2. value \in Values
  BY <1>1, ReadableIsValue
<1> HIDE DEF value
<1> QED BY <1>1, <1>2, WriteStep

\* The scope of the parameters of a call is not the current one, nor the last
\* one left when the call ends.
LEMMA ParametersAreBelow ==
    ASSUME NEW scs \in Seq(ScopeTypes), NEW frs \in Seq(FrameTypes), NEW base,
           Layout(scs, frs, base), NEW a \in 1..Len(frs), frs[a].kind = "call"
    PROVE  base[a] + 2 <= Len(scs) /\ base[a] \in Nat /\ base[a + 1] = base[a] + 2
<1>1. /\ Len(frs) \in Nat /\ a \in 1..(Len(frs) + 1) /\ a + 1 \in 1..(Len(frs) + 1)
      /\ Len(frs) + 1 \in 1..(Len(frs) + 1) /\ a + 1 <= Len(frs) + 1
  OBVIOUS
<1>2. base[a] \in Nat /\ base[a + 1] = base[a] + 2
  <2>1. base[a] \in Nat
    BY <1>1 DEF Layout
  <2>2. base[a + 1] = base[a] + Width[frs[a].kind]
    BY DEF Layout
  <2>3. Width["call"] = 2
    BY DEF Width
  <2> QED BY <2>1, <2>2, <2>3
<1>3. base[a + 1] <= base[Len(frs) + 1] /\ base[Len(frs) + 1] = Len(scs)
  BY <1>1 DEF Layout
<1> QED BY <1>2, <1>3

\* The value that an update deletes is held by the variable alone, or known.
LEMMA IncrementStep ==
    ASSUME EnvironmentInv, NEW m \in Names, Increment(m)
    PROVE  StepOK
<1> DEFINE L == Len(scopes)
           gone == {Current(scopes).vars[m]} \ {Nothing}
<1>1. /\ scopes \in Seq(ScopeTypes) /\ frames \in Seq(FrameTypes)
      /\ L \in Nat /\ Len(frames) \in Nat
      /\ \A i \in 1..L : scopes[i] \in ScopeTypes
  BY DEF EnvironmentInv, TypeInv
<1>2. PICK value \in Unheld : scopes' = DefineVariable(scopes, m, value)
  <2>1. \E value \in Unheld : scopes' = [scopes EXCEPT ![Len(scopes)].vars[m] = value]
    BY Zenon DEF Increment
  <2> QED BY <2>1 DEF DefineVariable
<1>3. value \in Values /\ frames' = frames /\ Free(gone, {})
  BY <1>2 DEF Increment, Unheld
<1>4. PICK base :
       /\ Layout(scopes, frames, base)
       /\ VariablesShare(scopes, handed)
       /\ ArgumentsShare(frames, handed)
       /\ BoundShare(scopes, frames, base, handed)
  BY DEF EnvironmentInv, SharingInv, Sound
<1>5. L \in 1..L
  <2>1. 1 \in 1..(Len(frames) + 1) /\ Len(frames) + 1 \in 1..(Len(frames) + 1)
        /\ 1 <= Len(frames) + 1
    BY <1>1
  <2>2. base[1] = 2 /\ base[1] <= base[Len(frames) + 1] /\ base[Len(frames) + 1] = L
    BY <1>4, <2>1 DEF Layout
  <2> QED BY <1>1, <2>2
<1>6. ASSUME NEW v \in gone, v \in HeldBy(scopes', frames')
      PROVE  v \in handed
  <2>1. v = scopes[L].vars[m] /\ v # Nothing
    BY <1>6 DEF Current
  <2>2. v # value
    BY <1>1, <1>2, <1>5, <2>1, HeldByMeans DEF Unheld
  <2>3. scopes' \in Seq(ScopeTypes)
        /\ Len(scopes') = L
        /\ \A i \in 1..L :
             scopes'[i].vars = IF i = L THEN [scopes[i].vars EXCEPT ![m] = value]
                               ELSE scopes[i].vars
    BY <1>1, <1>2, <1>3, DefineVariableWrites
  <2>4. CASE \E i \in 1..L, n \in Names : scopes'[i].vars[n] = v
    <3>1. PICK i \in 1..L, n \in Names : scopes'[i].vars[n] = v
      BY <2>4
    <3>2. scopes[i].vars \in [Names -> Values \cup {Nothing}]
      BY <1>1 DEF ScopeTypes
    <3>3. scopes[i].vars[n] = v /\ (i # L \/ n # m)
      BY <2>2, <2>3, <3>1, <3>2
    <3> QED BY <1>4, <1>5, <2>1, <3>3 DEF VariablesShare
  <2>5. CASE \E a \in 1..Len(frames) : \E k \in 1..Len(frames[a].args) : frames[a].args[k] = v
    <3>1. PICK a \in 1..Len(frames) : \E k \in 1..Len(frames[a].args) : frames[a].args[k] = v
      BY <2>5
    <3>2. v \in handed \/ (frames[a].kind = "call" /\ L = base[a] + 1)
      BY <1>4, <1>5, <2>1, <3>1 DEF BoundShare
    <3>3. ~(frames[a].kind = "call" /\ L = base[a] + 1)
      BY <1>1, <1>4, ParametersAreBelow
    <3> QED BY <3>2, <3>3
  <2> QED BY <1>1, <1>3, <1>6, <2>3, <2>4, <2>5, HeldByMeans
<1> HIDE DEF gone
<1> QED BY <1>2, <1>3, <1>6, WriteStep

\* An expression that deletes its operands.
LEMMA ConsumeStep ==
    ASSUME EnvironmentInv, NEW m \in Names, Consume(m)
    PROVE  StepOK
<1> DEFINE gone == {LookupVariable(m)}
<1>1. scopes' = scopes /\ frames' = frames /\ Free(gone, gone)
  BY DEF Consume
<1>2. scopes \in Seq(ScopeTypes) /\ frames \in Seq(FrameTypes) /\ ClassOnTop(frames)
  BY DEF EnvironmentInv, TypeInv
<1>3. Sound(scopes', frames', handed \cup gone)
  BY <1>1, SoundMore
<1>4. FunctionsKept(scopes, scopes') /\ OuterKept(scopes, scopes')
  BY <1>1, <1>2, OuterKeptByWrite
<1> HIDE DEF gone
<1> QED BY <1>1, <1>2, <1>3, <1>4, FreeStep

----------------------------------------------------------------------------
(* Blocks, classes and functions.                                          *)

\* A visit that begins puts its frame on top of frames without a class body.
LEMMA ClassStaysOnTop ==
    ASSUME EnvironmentInv, ~InClassBody, NEW frame \in FrameTypes
    PROVE  Append(frames, frame) \in Seq(FrameTypes) /\ ClassOnTop(Append(frames, frame))
<1>1. frames \in Seq(FrameTypes) /\ Len(frames) \in Nat /\ ClassOnTop(frames)
  BY DEF EnvironmentInv, TypeInv
<1>2. \A a \in 1..Len(frames) : frames[a].kind # "class"
  <2>1. ASSUME NEW a \in 1..Len(frames), frames[a].kind = "class" PROVE FALSE
    <3>1. a = Len(frames) /\ frames # <<>>
      BY <1>1, <2>1 DEF ClassOnTop
    <3> QED BY <2>1, <3>1 DEF InClassBody
  <2> QED BY <2>1
<1> QED BY <1>1, <1>2 DEF ClassOnTop

\* The frames that remain when visits end are without a class body.
LEMMA NoClassBelow ==
    ASSUME EnvironmentInv, NEW k \in 1..Len(frames)
    PROVE  /\ Outer(frames, k) \in Seq(FrameTypes)
           /\ ClassOnTop(Outer(frames, k))
           /\ Len(Outer(frames, k)) = Len(frames) - k
           /\ \A a \in 1..Len(Outer(frames, k)) : Outer(frames, k)[a] = frames[a]
<1>1. frames \in Seq(FrameTypes) /\ Len(frames) \in Nat /\ ClassOnTop(frames)
      /\ k \in Nat /\ k <= Len(frames) /\ k >= 1
  BY DEF EnvironmentInv, TypeInv
<1> DEFINE outer == Outer(frames, k)
<1>2. /\ outer \in Seq(FrameTypes)
      /\ Len(outer) = Len(frames) - k
      /\ \A a \in 1..Len(outer) : a \in 1..Len(frames) /\ outer[a] = frames[a]
  BY <1>1, PoppedKeeps, OuterIsPopped
<1> HIDE DEF outer
<1>3. ClassOnTop(outer)
  BY <1>1, <1>2 DEF ClassOnTop
<1> QED BY <1>2, <1>3 DEF outer

\* A block begins,
LEMMA EnterBlockStep ==
    ASSUME EnvironmentInv, EnterBlock
    PROVE  StepOK
<1> DEFINE frame == Frame("block", <<>>, Nothing)
<1>1. /\ scopes \in Seq(ScopeTypes) /\ frames \in Seq(FrameTypes) /\ Len(scopes) \in Nat
      /\ scopes' = Append(scopes, EmptyScope) /\ frames' = Append(frames, frame)
      /\ freed' = freed /\ handed' = handed /\ fault' = fault
      /\ ~InClassBody
  BY DEF EnvironmentInv, TypeInv, EnterBlock, AtStatement
<1>2. frame \in FrameTypes /\ frame.kind = "block" /\ frame.args = <<>>
  BY DEF FrameTypes, Frame
<1>3. /\ scopes' \in Seq(ScopeTypes) /\ Len(scopes') = Len(scopes) + 1
      /\ \A i \in 1..Len(scopes) : scopes'[i] = scopes[i]
      /\ scopes'[Len(scopes) + 1] = EmptyScope
  BY <1>1, EmptyScopeType
<1> HIDE DEF frame
<1>4. Width[frame.kind] = 1
  BY <1>2 DEF Width
<1>5. \A i \in 1..Len(scopes'), n \in Names : i <= Len(scopes) \/ scopes'[i].vars[n] = Nothing
  BY <1>1, <1>3, EmptyScopeType
<1>6. Sound(scopes', frames', handed')
  <2>1. Sound(scopes, frames, handed)
    BY DEF EnvironmentInv, SharingInv
  <2> QED BY <1>1, <1>2, <1>3, <1>4, <1>5, <2>1, SoundEntered
<1>7. FunctionsKept(scopes, scopes') /\ OuterKept(scopes, scopes')
  <2>1. DOMAIN scopes = 1..Len(scopes)
    BY <1>1
  <2> QED BY <1>3, <2>1 DEF FunctionsKept, OuterKept
<1>8. frames' \in Seq(FrameTypes) /\ ClassOnTop(frames')
  BY <1>1, <1>2, ClassStaysOnTop
<1> QED BY <1>1, <1>3, <1>6, <1>7, <1>8
        DEF StepOK, EnvironmentInv, TypeInv, DanglingOnlyIfHandedOver

\* and ends with the scope it entered.
LEMMA LeaveBlockStep ==
    ASSUME EnvironmentInv, LeaveBlock
    PROVE  StepOK
<1>1. /\ scopes \in Seq(ScopeTypes) /\ frames \in Seq(FrameTypes)
      /\ Len(scopes) \in Nat /\ Len(frames) \in Nat \ {0}
      /\ frames[Len(frames)].kind = "block"
      /\ scopes' = Popped(scopes, 1) /\ frames' = Outer(frames, 1) /\ Free({}, {})
  BY DEF EnvironmentInv, TypeInv, LeaveBlock
<1>2. PICK base :
       /\ Layout(scopes, frames, base)
       /\ VariablesShare(scopes, handed \cup {})
       /\ ArgumentsShare(frames, handed \cup {})
       /\ BoundShare(scopes, frames, base, handed \cup {})
  BY SoundMore DEF Sound
<1>3. base[Len(frames) - 1 + 1] = Len(scopes) - 1
  <2>1. Len(frames) \in 1..(Len(frames) + 1) /\ Len(frames) \in 1..Len(frames)
        /\ Len(frames) - 1 + 1 = Len(frames)
    BY <1>1
  <2>2. base[Len(frames)] \in Nat
    BY <1>2, <2>1 DEF Layout
  <2>3. base[Len(frames) + 1] = base[Len(frames)] + 1 /\ base[Len(frames) + 1] = Len(scopes)
    BY <1>1, <1>2, <2>1 DEF Layout, Width
  <2> QED BY <2>1, <2>2, <2>3
<1>4. 1 \in 0..Len(frames) /\ 1 \in 1..Len(frames) /\ 1 \in Nat
  BY <1>1
<1>5. Sound(scopes', frames', handed \cup {})
  BY <1>1, <1>2, <1>3, <1>4, SoundPopped
<1>6. /\ scopes' \in Seq(ScopeTypes) /\ Len(scopes') <= Len(scopes)
      /\ \A i \in 1..Len(scopes') : scopes'[i] = scopes[i]
  BY <1>1, <1>4, PoppedKeeps
<1>7. FunctionsKept(scopes, scopes') /\ OuterKept(scopes, scopes')
  BY <1>1, <1>6, OuterKeptByWrite
<1>8. frames' \in Seq(FrameTypes) /\ ClassOnTop(frames')
  BY <1>1, <1>4, NoClassBelow
<1> QED BY <1>5, <1>6, <1>7, <1>8, <1>1, FreeStep

\* A class body begins,
LEMMA BeginClassStep ==
    ASSUME EnvironmentInv, NEW c \in Classes, BeginClass(c)
    PROVE  StepOK
<1> DEFINE frame == Frame("class", <<>>, Nothing)
           entry == [scopes[Len(scopes)] EXCEPT !.class = c]
<1>1. /\ scopes \in Seq(ScopeTypes) /\ frames \in Seq(FrameTypes) /\ Len(scopes) \in Nat
      /\ scopes' = [scopes EXCEPT ![Len(scopes)] = entry] /\ frames' = Append(frames, frame)
      /\ Free({}, {})
      /\ ~InClassBody
      /\ \A i \in 1..Len(scopes) : scopes[i] \in ScopeTypes
      /\ DOMAIN scopes = 1..Len(scopes)
  BY DEF EnvironmentInv, TypeInv, BeginClass, AtStatement
<1>2. frame \in FrameTypes /\ frame.kind = "class" /\ frame.args = <<>>
  BY DEF FrameTypes, Frame
<1>3. /\ scopes' \in Seq(ScopeTypes) /\ Len(scopes') = Len(scopes)
      /\ DOMAIN scopes' = 1..Len(scopes)
      /\ \A i \in 1..Len(scopes) :
           scopes'[i].vars = scopes[i].vars /\ scopes'[i].funs = scopes[i].funs
  <2>1. CASE Len(scopes) = 0
    <3>1. scopes = <<>> /\ scopes' = <<>>
      BY <1>1, <2>1
    <3> QED BY <3>1, <2>1
  <2>2. CASE Len(scopes) \in 1..Len(scopes)
    <3>1. /\ entry \in ScopeTypes /\ entry.vars = scopes[Len(scopes)].vars
          /\ entry.funs = scopes[Len(scopes)].funs
      BY <1>1, <2>2 DEF ScopeTypes
    <3> HIDE DEF entry
    <3>2. /\ scopes' \in Seq(ScopeTypes)
          /\ Len(scopes') = Len(scopes)
          /\ \A j \in 1..Len(scopes) :
               scopes'[j] = IF j = Len(scopes) THEN entry ELSE scopes[j]
      BY <1>1, <2>2, <3>1, ExceptSeq
    <3> QED BY <3>1, <3>2
  <2> QED BY <1>1, <2>1, <2>2
<1> HIDE DEF frame, entry
<1>4. Width[frame.kind] = 0
  BY <1>2 DEF Width
<1>5. \A i \in 1..Len(scopes'), n \in Names : i <= Len(scopes) \/ scopes'[i].vars[n] = Nothing
  <2>1. Len(scopes') = Len(scopes) /\ Len(scopes) \in Nat
    BY <1>1, <1>3
  <2> QED BY <2>1
<1>6. Sound(scopes', frames', handed \cup {})
  <2>1. Sound(scopes, frames, handed \cup {})
    BY SoundMore
  <2>0. /\ frames' = Append(frames, frame) /\ Len(scopes) \in Nat
        /\ scopes \in Seq(ScopeTypes) /\ frames \in Seq(FrameTypes)
    BY <1>1, Zenon
  <2>2. Len(scopes') = Len(scopes) + Width[frame.kind]
    BY <1>3, <1>4, <2>0
  <2>3. \A i \in 1..Len(scopes) : scopes'[i].vars = scopes[i].vars
    BY <1>3
  <2> QED BY <1>2, <1>3, <1>5, <2>0, <2>1, <2>2, <2>3, SoundEntered
<1>7. FunctionsKept(scopes, scopes') /\ OuterKept(scopes, scopes')
  BY <1>1, <1>3 DEF FunctionsKept, OuterKept
<1>8. frames' \in Seq(FrameTypes) /\ ClassOnTop(frames')
  BY <1>1, <1>2, ClassStaysOnTop
<1> QED BY <1>1, <1>3, <1>6, <1>7, <1>8, FreeStep

\* and ends.
LEMMA EndClassStep ==
    ASSUME EnvironmentInv, EndClass
    PROVE  StepOK
<1>1. /\ scopes \in Seq(ScopeTypes) /\ frames \in Seq(FrameTypes)
      /\ Len(scopes) \in Nat /\ Len(frames) \in Nat \ {0}
      /\ frames[Len(frames)].kind = "class"
      /\ frames' = Outer(frames, 1)
      /\ scopes' = scopes /\ freed' = freed /\ handed' = handed /\ fault' = fault
  BY DEF EnvironmentInv, TypeInv, EndClass, InClassBody
<1>2. PICK base :
       /\ Layout(scopes, frames, base)
       /\ VariablesShare(scopes, handed)
       /\ ArgumentsShare(frames, handed)
       /\ BoundShare(scopes, frames, base, handed)
  BY DEF EnvironmentInv, SharingInv, Sound
<1>3. base[Len(frames) - 1 + 1] = Len(scopes) - 0
  <2>1. Len(frames) \in 1..(Len(frames) + 1) /\ Len(frames) \in 1..Len(frames)
        /\ Len(frames) - 1 + 1 = Len(frames)
    BY <1>1
  <2>2. base[Len(frames)] \in Nat
    BY <1>2, <2>1 DEF Layout
  <2>3. base[Len(frames) + 1] = base[Len(frames)] + 0 /\ base[Len(frames) + 1] = Len(scopes)
    BY SMTT(30), <1>1, <1>2, <2>1 DEF Layout, Width
  <2> QED BY <1>1, <2>1, <2>2, <2>3
<1>4. 1 \in 0..Len(frames) /\ 1 \in 1..Len(frames) /\ 0 \in Nat
  BY <1>1
<1>5. Sound(Popped(scopes, 0), frames', handed)
  BY <1>1, <1>2, <1>3, <1>4, SoundPopped
<1>6. Popped(scopes, 0) = scopes
  <2>1. /\ Popped(scopes, 0) \in Seq(ScopeTypes) /\ Len(Popped(scopes, 0)) = Len(scopes)
        /\ \A i \in 1..Len(Popped(scopes, 0)) : Popped(scopes, 0)[i] = scopes[i]
    BY <1>1, <1>4, PoppedKeeps
  <2> QED BY <1>1, <2>1, SeqEqual
<1>7. FunctionsKept(scopes, scopes') /\ OuterKept(scopes, scopes')
  BY <1>1, OuterKeptByWrite
<1>8. frames' \in Seq(FrameTypes) /\ ClassOnTop(frames')
  BY <1>1, <1>4, NoClassBelow
<1>9. Sound(scopes', frames', handed')
  BY <1>1, <1>5, <1>6
<1> QED BY <1>1, <1>7, <1>8, <1>9
        DEF StepOK, EnvironmentInv, TypeInv, DanglingOnlyIfHandedOver

\* A function is declared,
LEMMA DeclareFunctionStep ==
    ASSUME EnvironmentInv, NEW f \in Functions, DeclareFunction(f)
    PROVE  StepOK
<1>1. /\ scopes \in Seq(ScopeTypes) /\ Forward \in FunctionObjects
      /\ scopes' = DefineFunction(scopes, f, Forward)
      /\ frames' = frames /\ freed' = freed /\ handed' = handed /\ fault' \in Faults
  BY DEF EnvironmentInv, TypeInv, DeclareFunction, FunctionObjects, UserFunctions
<1> QED BY <1>1, DefineFunctionKeeps, QuietStep

\* or defined.
LEMMA FunctionDefinitionStep ==
    ASSUME EnvironmentInv, NEW f \in Functions, NEW body \in Bodies, FunctionDefinition(f, body)
    PROVE  StepOK
<1>1. /\ scopes \in Seq(ScopeTypes) /\ UserFunction(body) \in FunctionObjects
      /\ frames' = frames /\ freed' = freed /\ handed' = handed /\ fault' \in Faults
  BY DEF EnvironmentInv, TypeInv, FunctionDefinition, FunctionObjects, UserFunctions
<1>2. CASE LookupFunction(scopes, f) \in UserFunctions
  <2>1. scopes' = [scopes EXCEPT ![Innermost(FunctionAt(scopes, f))].funs[f] = UserFunction(body)]
    BY <1>2 DEF FunctionDefinition
  <2> QED BY <1>1, <1>2, <2>1, BodyGiven, QuietStep
<1>3. CASE LookupFunction(scopes, f) \notin UserFunctions
  <2>1. scopes' = DefineFunction(scopes, f, UserFunction(body))
    BY <1>3 DEF FunctionDefinition
  <2> QED BY <1>1, <2>1, DefineFunctionKeeps, QuietStep
<1> QED BY <1>2, <1>3

----------------------------------------------------------------------------
(* Calls.                                                                  *)

\* The arguments of a call: each is a value that a variable stands for, which
\* the call hands over, or a temporary that nobody else holds.
LEMMA EvaluationsMean ==
    ASSUME EnvironmentInv, NEW list \in ArgumentLists, NEW args \in Evaluations(list)
    PROVE  /\ args \in Seq(Values)
           /\ \A k \in 1..Len(args) :
                \/ args[k] \in PassedVariables(list, args)
                \/ /\ args[k] \notin HeldBy(scopes, frames)
                   /\ \A l \in 1..Len(args) : args[l] = args[k] => l = k
<1>1. PICK n \in Nat : DOMAIN list = 1..n
  <2>1. CASE list = <<>>
    BY <2>1
  <2>2. CASE \E a \in Names \cup {Nothing} : list = <<a>>
    <3>1. DOMAIN list = 1..1
      BY <2>2
    <3> QED BY <3>1
  <2>3. CASE \E a, b \in Names \cup {Nothing} : list = <<a, b>>
    <3>1. DOMAIN list = 1..2
      BY <2>3
    <3> QED BY <3>1
  <2> QED BY <2>1, <2>2, <2>3 DEF ArgumentLists
<1>2. /\ args \in [DOMAIN list -> Values]
      /\ \A i \in DOMAIN list :
            IF list[i] = Nothing THEN args[i] \in Unheld ELSE args[i] = LookupVariable(list[i])
      /\ \A i, j \in DOMAIN list : list[i] = Nothing /\ args[i] = args[j] => i = j
  BY DEF Evaluations
<1>3. args \in [1..n -> Values]
  BY <1>1, <1>2
<1>4. args \in Seq(Values) /\ Len(args) = n
  BY <1>3
<1>5. ASSUME NEW k \in 1..Len(args)
      PROVE  \/ args[k] \in PassedVariables(list, args)
             \/ /\ args[k] \notin HeldBy(scopes, frames)
                /\ \A l \in 1..Len(args) : args[l] = args[k] => l = k
  <2>1. k \in DOMAIN list /\ \A l \in 1..Len(args) : l \in DOMAIN list
    BY <1>1, <1>4
  <2>2. CASE list[k] = Nothing
    BY <1>2, <2>1, <2>2 DEF Unheld
  <2>3. CASE list[k] # Nothing
    BY <2>1, <2>3 DEF PassedVariables
  <2> QED BY <2>2, <2>3
<1> QED BY <1>4, <1>5

\* A parameter stands for the last argument given for it, or for nothing.
LEMMA BoundMeans ==
    ASSUME NEW args \in Seq(Values)
    PROVE  /\ Bound(args) \in ScopeTypes
           /\ \A n \in Names :
                \/ Bound(args).vars[n] = Nothing
                \/ \E k \in 1..Len(args) :
                      k \in 1..Len(Params) /\ Params[k] = n /\ Bound(args).vars[n] = args[k]
<1> DEFINE At(n) == {i \in DOMAIN Params \cap DOMAIN args : Params[i] = n}
           given == [n \in Names |->
                      IF At(n) = {} THEN Nothing ELSE args[Innermost(At(n))]]
<1>1. /\ Len(args) \in Nat /\ DOMAIN args = 1..Len(args)
      /\ DOMAIN Params = 1..Len(Params)
      /\ \A k \in 1..Len(args) : args[k] \in Values
  BY ScopeAssumption
<1>2. ASSUME NEW n \in Names
      PROVE  \/ given[n] = Nothing
             \/ \E k \in 1..Len(args) :
                   k \in 1..Len(Params) /\ Params[k] = n /\ given[n] = args[k]
  <2>1. CASE At(n) = {}
    BY <2>1
  <2>2. CASE At(n) # {}
    <3>1. At(n) \subseteq 1..Len(args)
      BY <1>1
    <3>2. Innermost(At(n)) \in At(n)
      <4> HIDE DEF At
      <4> QED BY <1>1, <2>2, <3>1, InnermostOf
    <3>3. given[n] = args[Innermost(At(n))]
      BY <2>2
    <3> QED BY <1>1, <3>2, <3>3
  <2> QED BY <2>1, <2>2
<1>3. Bound(args) = [EmptyScope EXCEPT !.vars = given]
  BY DEF Bound
<1> HIDE DEF given
<1>4. given \in [Names -> Values \cup {Nothing}]
  <2>1. \A n \in Names : given[n] \in Values \cup {Nothing}
    BY <1>1, <1>2
  <2> QED BY <2>1 DEF given
<1>5. Bound(args) \in ScopeTypes /\ Bound(args).vars = given
  BY <1>3, <1>4, EmptyScopeType DEF ScopeTypes
<1> QED BY <1>2, <1>5

\* A function with a body: the arguments are bound, and its block entered.
LEMMA BeginCallStep ==
    ASSUME EnvironmentInv, ~InClassBody, NEW args \in Seq(Values), NEW passed,
           NEW dest \in Names \cup {Nothing},
           \A k \in 1..Len(args) :
              \/ args[k] \in passed
              \/ /\ args[k] \notin HeldBy(scopes, frames)
                 /\ \A l \in 1..Len(args) : args[l] = args[k] => l = k,
           scopes' = scopes \o <<Bound(args), EmptyScope>>,
           frames' = Append(frames, Frame("call", args, dest)),
           Free({}, passed)
    PROVE  StepOK
<1> DEFINE frame == Frame("call", args, dest)
           known == handed \cup passed
           L == Len(scopes)
           entered == <<Bound(args), EmptyScope>>
<1>1. /\ scopes \in Seq(ScopeTypes) /\ frames \in Seq(FrameTypes) /\ L \in Nat
      /\ DOMAIN scopes = 1..L
  BY DEF EnvironmentInv, TypeInv
<1>2. frame \in FrameTypes /\ frame.kind = "call" /\ frame.args = args
  BY DEF FrameTypes, Frame
<1>3. /\ scopes' \in Seq(ScopeTypes) /\ Len(scopes') = L + 2
      /\ \A i \in 1..L : scopes'[i] = scopes[i]
      /\ scopes'[L + 1] = Bound(args) /\ scopes'[L + 2] = EmptyScope
  <2>1. entered \in Seq(ScopeTypes) /\ Len(entered) = 2
        /\ entered[1] = Bound(args) /\ entered[2] = EmptyScope
    BY BoundMeans, EmptyScopeType
  <2> HIDE DEF entered
  <2>2. scopes' = scopes \o entered
    BY DEF entered
  <2> QED BY <1>1, <2>1, <2>2
<1> HIDE DEF frame
<1>4. Len(scopes') = L + Width[frame.kind]
  <2>1. Width["call"] = 2
    BY DEF Width
  <2>2. Len(scopes') = L + 2 /\ frame.kind = "call"
    BY <1>2, <1>3, Zenon
  <2> QED BY <2>1, <2>2
<1>5. \A i \in 1..Len(scopes') : i <= L \/ i = L + 1 \/ i = L + 2
  <2>1. Len(scopes') = L + 2 /\ L \in Nat
    BY <1>1, <1>3, Zenon
  <2> HIDE DEF L
  <2> QED BY <2>1
<1>6. \A n \in Names : EmptyScope.vars[n] = Nothing
  BY EmptyScopeType
<1>7. \A k, l \in 1..Len(args) : args[k] = args[l] /\ k # l => args[k] \in known
  <2>1. ASSUME NEW k \in 1..Len(args), NEW l \in 1..Len(args), args[k] = args[l], k # l
        PROVE  args[k] \in passed
    BY <2>1
  <2> QED BY <2>1
<1>8. \A i \in 1..Len(scopes'), n \in Names :
              \/ i <= L
              \/ scopes'[i].vars[n] = Nothing
              \/ /\ i = L + 1
                 /\ frame.kind = "call"
                 /\ \E k \in 1..Len(frame.args) : scopes'[i].vars[n] = frame.args[k]
  <2>1. ASSUME NEW i \in 1..Len(scopes'), NEW n \in Names, ~(i <= L),
               scopes'[i].vars[n] # Nothing
        PROVE  i = L + 1 /\ \E k \in 1..Len(args) : scopes'[i].vars[n] = args[k]
    <3>1. i = L + 1
      BY <1>3, <1>5, <1>6, <2>1
    <3> QED BY <1>3, <2>1, <3>1, BoundMeans
  <2> QED BY <1>2, <2>1
<1>9. \A i \in 1..Len(scopes'), n, m \in Names :
              \/ i <= L \/ n = m \/ scopes'[i].vars[n] = Nothing
              \/ scopes'[i].vars[n] # scopes'[i].vars[m]
              \/ scopes'[i].vars[n] \in known
  <2>1. ASSUME NEW i \in 1..Len(scopes'), NEW n \in Names, NEW m \in Names,
               ~(i <= L), n # m, scopes'[i].vars[n] # Nothing,
               scopes'[i].vars[n] = scopes'[i].vars[m]
        PROVE  scopes'[i].vars[n] \in known
    <3>1. i = L + 1
      BY <1>3, <1>5, <1>6, <2>1
    <3>2. scopes'[i] = Bound(args)
      BY <1>3, <3>1
    <3>3. PICK k \in 1..Len(args) : Params[k] = n /\ scopes'[i].vars[n] = args[k]
      BY <2>1, <3>2, BoundMeans
    <3>4. PICK l \in 1..Len(args) : Params[l] = m /\ scopes'[i].vars[m] = args[l]
      BY <2>1, <3>2, BoundMeans
    <3> QED BY <1>7, <2>1, <3>3, <3>4
  <2> QED BY <2>1
<1>10. \A k \in 1..Len(frame.args) :
              \/ frame.args[k] \in known
              \/ /\ frame.args[k] \notin HeldBy(scopes, frames)
                 /\ \A l \in 1..Len(frame.args) : frame.args[l] = frame.args[k] => l = k
  BY <1>2
<1>11. Sound(scopes', frames', known)
  <2>1. Sound(scopes, frames, known)
    BY SoundMore
  <2>2. frames' = Append(frames, frame)
    BY DEF frame
  <2>3. \A i \in 1..Len(scopes) : scopes'[i].vars = scopes[i].vars
    BY <1>3
  <2>4. scopes' \in Seq(ScopeTypes)
    BY <1>3
  <2> HIDE DEF known
  <2>5. Sound(scopes', Append(frames, frame), known)
    BY <1>1, <1>2, <1>4, <1>8, <1>9, <1>10, <2>1, <2>3, <2>4, SoundPushed, Zenon
  <2> QED BY <2>2, <2>5
<1>12. FunctionsKept(scopes, scopes') /\ OuterKept(scopes, scopes')
  BY <1>1, <1>3 DEF FunctionsKept, OuterKept
<1>13. frames' \in Seq(FrameTypes) /\ ClassOnTop(frames')
  BY <1>2, ClassStaysOnTop DEF frame
<1> QED BY <1>3, <1>11, <1>12, <1>13, FreeStep

\* A call that ends at once: of a function without a body, or of a plugin.
LEMMA ImmediateCallStep ==
    ASSUME EnvironmentInv, NEW list \in ArgumentLists, NEW args \in Evaluations(list),
           NEW result \in Values \cup {Nothing}, NEW dest \in Names \cup {Nothing},
           FinishCall(scopes, frames, args, PassedVariables(list, args), result, dest)
    PROVE  StepOK
<1> DEFINE given == PassedVariables(list, args)
<1>1. scopes \in Seq(ScopeTypes) /\ frames \in Seq(FrameTypes) /\ ClassOnTop(frames)
  BY DEF EnvironmentInv, TypeInv
<1>2. /\ args \in Seq(Values)
      /\ \A k \in 1..Len(args) : args[k] \in given \/ args[k] \notin HeldBy(scopes, frames)
  BY EvaluationsMean
<1> HIDE DEF given
<1>3. \A v \in Elements(args) \ {result} : v \in HeldBy(scopes, frames) => v \in handed \cup given
  <2>1. DOMAIN args = 1..Len(args)
    BY <1>2
  <2> QED BY <1>2, <2>1 DEF Elements
<1>4. Sound(scopes, frames, handed \cup given)
  BY SoundMore
<1>5. FinishCall(scopes, frames, args, given, result, dest)
  BY DEF given
<1>6. Len(scopes) <= Len(scopes) /\ \A i \in 1..Len(scopes) : scopes[i] = scopes[i]
  BY <1>1
<1> QED BY <1>1, <1>2, <1>3, <1>4, <1>5, <1>6, FinishCallStep

\* A call puts an activation and its scope on top.
LEMMA CallStep ==
    ASSUME EnvironmentInv, NEW f \in Functions, NEW list \in ArgumentLists,
           NEW dest \in Names \cup {Nothing}, Call(f, list, dest)
    PROVE  StepOK
<1>1. PICK args \in Evaluations(list) :
         IF LookupFunction(scopes, f) = Forward
         THEN FinishCall(scopes, frames, args, PassedVariables(list, args), Nothing, dest)
         ELSE /\ CanNest
              /\ scopes' = scopes \o <<Bound(args), EmptyScope>>
              /\ frames' = Append(frames, Frame("call", args, dest))
              /\ Free({}, PassedVariables(list, args))
  BY Zenon DEF Call
<1>2. ~InClassBody
  BY DEF Call, AtStatement
<1>3. CASE LookupFunction(scopes, f) = Forward
  BY <1>1, <1>3, ImmediateCallStep
<1>4. CASE LookupFunction(scopes, f) # Forward
  <2>1. /\ args \in Seq(Values)
        /\ \A k \in 1..Len(args) :
             \/ args[k] \in PassedVariables(list, args)
             \/ /\ args[k] \notin HeldBy(scopes, frames)
                /\ \A l \in 1..Len(args) : args[l] = args[k] => l = k
    BY EvaluationsMean
  <2>2. /\ scopes' = scopes \o <<Bound(args), EmptyScope>>
        /\ frames' = Append(frames, Frame("call", args, dest))
        /\ Free({}, PassedVariables(list, args))
    BY <1>1, <1>4, Zenon
  <2> QED BY <1>2, <2>1, <2>2, BeginCallStep
<1> QED BY <1>3, <1>4

\* A return leaves the blocks of the innermost call, its two scopes, and the
\* call.  The arguments that it deletes are known if anybody else holds them:
\* the one other place that may hold an unknown one is its parameter, which is
\* gone with the scope.
LEMMA ReturnStep ==
    ASSUME EnvironmentInv, Return
    PROVE  StepOK
<1> DEFINE N == Len(frames)
           call == Innermost(Calls)
           k == 1 + N - call
           depth == 2 + N - call
           scs == Popped(scopes, depth)
           frs == Outer(frames, k)
           args == frames[call].args
           dest == frames[call].dest
           read == {LookupVariable(n) : n \in {m \in Names : Readable(m)}}
<1>1. /\ scopes \in Seq(ScopeTypes) /\ frames \in Seq(FrameTypes)
      /\ Len(scopes) \in Nat /\ N \in Nat /\ DOMAIN frames = 1..N
      /\ ClassOnTop(frames)
  BY DEF EnvironmentInv, TypeInv
<1>2. Calls # {} /\ ~InClassBody
  BY DEF Return, AtStatement
<1>3. call \in Calls /\ \A a \in Calls : a <= call
  BY <1>1, <1>2, InnermostOf DEF Calls
<1>4. PICK result \in {Nothing} \cup Unheld \cup read :
         FinishCall(scs, frs, args, {}, result, dest)
  BY Zenon DEF Return
<1>5. result \in Values \cup {Nothing}
  BY ReadableIsValue DEF Unheld, Readable
<1> HIDE DEF N, call, read
<1>6. call \in 1..N /\ frames[call].kind = "call" /\ frames[call] \in FrameTypes
  BY <1>1, <1>3 DEF Calls, N
<1>7. ASSUME NEW a \in (call + 1)..N PROVE frames[a].kind = "block"
  <2>1. a \in 1..N /\ ~(a <= call)
    BY <1>1, <1>6
  <2>2. frames[a] \in FrameTypes
    BY <1>1, <2>1 DEF N
  <2>3. frames[a].kind # "call"
    BY <1>1, <1>3, <2>1 DEF Calls
  <2>4. frames[a].kind # "class"
    <3>1. SUFFICES ASSUME frames[a].kind = "class" PROVE FALSE
      OBVIOUS
    <3>2. a = Len(frames)
      BY <1>1, <2>1, <3>1 DEF ClassOnTop, N
    <3>3. frames # <<>>
      <4>1. Len(frames) # 0
        BY <1>1, <2>1 DEF N
      <4> QED BY <4>1
    <3> QED BY <1>2, <3>1, <3>2, <3>3 DEF InClassBody
  <2> QED BY <2>2, <2>3, <2>4 DEF FrameTypes
<1>8. PICK base :
       /\ Layout(scopes, frames, base)
       /\ VariablesShare(scopes, handed)
       /\ ArgumentsShare(frames, handed)
       /\ BoundShare(scopes, frames, base, handed)
  BY DEF EnvironmentInv, SharingInv, Sound
<1>9. base[call] \in Nat /\ base[call + 1] = base[call] + 2
  BY <1>1, <1>6, <1>8, ParametersAreBelow DEF N
<1>10. base[call] = Len(scopes) - depth
  <2>1. /\ call + 1 \in 1..(N + 1) /\ N + 1 \in 1..(N + 1) /\ call + 1 <= N + 1
        /\ (N + 1) - 1 = N
    BY <1>1, <1>6
  <2>2. \A l \in (call + 1)..((N + 1) - 1) : frames[l].kind = "block"
    BY <1>7, <2>1
  <2>3. base[N + 1] = base[call + 1] + ((N + 1) - (call + 1))
    BY <1>8, <2>1, <2>2 DEF Layout, N
  <2>4. base[N + 1] = Len(scopes)
    BY <1>8 DEF Layout, N
  <2> QED BY <1>1, <1>6, <1>9, <2>3, <2>4
<1>11. k \in 0..N /\ k \in 1..N /\ depth \in Nat /\ N - k + 1 = call
       /\ Len(scopes) - depth >= 0
  BY <1>1, <1>6, <1>9, <1>10
<1> HIDE DEF k, depth
<1>12. /\ scs \in Seq(ScopeTypes) /\ Len(scs) = base[call]
       /\ Len(scs) <= Len(scopes)
       /\ \A i \in 1..Len(scs) : i \in 1..Len(scopes) /\ scs[i] = scopes[i]
  BY <1>1, <1>9, <1>10, <1>11, PoppedKeeps
<1>13. /\ frs \in Seq(FrameTypes) /\ ClassOnTop(frs) /\ Len(frs) = N - k
       /\ \A a \in 1..Len(frs) : frs[a] = frames[a]
  BY <1>11, NoClassBelow DEF N
<1>14. Sound(scs, frs, handed)
  <2>1. k \in 0..Len(frames) /\ base[Len(frames) - k + 1] = Len(scopes) - depth
    BY <1>10, <1>11 DEF N
  <2> QED BY <1>1, <1>8, <1>11, <2>1, SoundPopped
<1> HIDE DEF scs, frs
<1>15. args \in Seq(Values) /\ dest \in Names \cup {Nothing} /\ DOMAIN args = 1..Len(args)
  <2>1. args \in Seq(Values) /\ dest \in Names \cup {Nothing}
    BY <1>6 DEF FrameTypes
  <2> QED BY <2>1
<1>16. ASSUME NEW v \in Elements(args) \ {result}, v \in HeldBy(scs, frs)
       PROVE  v \in handed \cup {}
  <2>1. PICK l \in 1..Len(frames[call].args) : frames[call].args[l] = v
    BY <1>15, <1>16 DEF Elements
  <2>2. v # Nothing
    BY <1>12, <1>13, <1>16, HeldByMeans
  <2>3. call \in 1..Len(frames)
    BY <1>6 DEF N
  <2>4. CASE \E i \in 1..Len(scs), n \in Names : scs[i].vars[n] = v
    <3>1. PICK i \in 1..Len(scs), n \in Names : scs[i].vars[n] = v
      BY <2>4
    <3>2. i \in 1..Len(scopes) /\ scopes[i].vars[n] = frames[call].args[l]
      BY <1>12, <2>1, <3>1
    <3>3. i # base[call] + 1
      BY <1>9, <1>12, <3>1
    <3>4. frames[call].args[l] \in handed
      BY <1>8, <2>3, <3>2, <3>3 DEF BoundShare
    <3> QED BY <2>1, <3>4
  <2>5. CASE \E a \in 1..Len(frs) : \E j \in 1..Len(frs[a].args) : frs[a].args[j] = v
    <3>1. PICK a \in 1..Len(frs) : \E j \in 1..Len(frs[a].args) : frs[a].args[j] = v
      BY <2>5
    <3>2. PICK j \in 1..Len(frs[a].args) : frs[a].args[j] = v
      BY <3>1
    <3>3. a \in 1..Len(frames) /\ a # call
      BY <1>1, <1>6, <1>11, <1>13 DEF N
    <3>4. frs[a] = frames[a]
      BY <1>13
    <3>5. frames[a].args[j] = frames[call].args[l] /\ j \in 1..Len(frames[a].args)
      BY <2>1, <3>2, <3>4
    <3>6. frames[a].args[j] \in handed
      BY <1>8, <2>3, <3>3, <3>5 DEF ArgumentsShare
    <3> QED BY <2>1, <3>5, <3>6
  <2> QED BY <1>12, <1>13, <1>16, <2>4, <2>5, HeldByMeans
<1>17. Sound(scs, frs, handed \cup {})
  <2>1. handed \cup {} = handed
    OBVIOUS
  <2> QED BY <1>14, <2>1
<1> HIDE DEF args, dest
<1>18. \A i \in 1..Len(scs) : scs[i] = scopes[i]
  BY <1>12
<1> QED BY <1>4, <1>5, <1>12, <1>13, <1>15, <1>16, <1>17, <1>18, FinishCallStep

----------------------------------------------------------------------------
(* Plugins, and every step.                                                *)

\* Every statement together.
LEMMA ScopeStep ==
    ASSUME EnvironmentInv, ScopeNext
    PROVE  StepOK
<1>1. CASE ReadFreed \/ LetMember
  <2>1. "use after free" \in Faults /\ "endless" \in Faults
    BY DEF Faults
  <2> QED BY <1>1, <2>1, FaultedStep DEF ReadFreed, LetMember
<1>2. CASE \E n \in Names : LetConstant(n) \/ Increment(n) \/ Negate(n) \/ IndexBy(n)
  BY <1>2, LetConstantStep, IncrementStep, ConsumeStep DEF Negate, IndexBy
<1>3. CASE \E n, m \in Names : LetVariable(n, m)
  BY <1>3, LetVariableStep
<1>4. CASE EnterBlock \/ LeaveBlock
  BY <1>4, EnterBlockStep, LeaveBlockStep
<1>5. CASE (\E c \in Classes : BeginClass(c)) \/ EndClass
  BY <1>5, BeginClassStep, EndClassStep
<1>6. CASE \E f \in Functions :
            DeclareFunction(f) \/ (\E body \in Bodies : FunctionDefinition(f, body))
  BY <1>6, DeclareFunctionStep, FunctionDefinitionStep
<1>7. CASE \E f \in Functions, list \in ArgumentLists, dest \in Names \cup {Nothing} :
              Call(f, list, dest)
  BY <1>7, CallStep
<1>8. CASE Return
  BY <1>8, ReturnStep
<1> QED BY <1>1, <1>2, <1>3, <1>4, <1>5, <1>6, <1>7, <1>8 DEF ScopeNext

\* A plugin defines its functions where no function stands yet.
LEMMA LoadPluginStep ==
    ASSUME EnvironmentInv, NEW p \in PluginNames, LoadPlugin(p)
    PROVE  StepOK /\ PluginTypes'
<1>1. /\ loads \in 0..MaxLoads /\ loaded \in [PluginNames -> 0..MaxLoads]
      /\ MaxLoads \in Nat
      /\ scopes \in Seq(ScopeTypes)
  BY PluginAssumption DEF EnvironmentInv, TypeInv, PluginTypes
<1>2. /\ loads < MaxLoads /\ loads' = loads + 1 /\ loaded' = [loaded EXCEPT ![p] = loads + 1]
      /\ scopes' = RegisterAll(scopes, loaded')
      /\ frames' = frames /\ freed' = freed /\ handed' = handed /\ fault' = fault
  BY DEF LoadPlugin
<1>3. loads' \in 0..MaxLoads /\ loaded' \in [PluginNames -> 0..MaxLoads]
  BY <1>1, <1>2
<1>4. /\ scopes' \in Seq(ScopeTypes) /\ SameVars(scopes, scopes')
      /\ FunctionsKept(scopes, scopes')
  BY <1>1, <1>2, <1>3, RegisterAllKeeps
<1>5. fault' \in Faults
  BY <1>2 DEF EnvironmentInv, TypeInv
<1>6. StepOK
  BY <1>2, <1>4, <1>5, QuietStep
<1> QED BY <1>3, <1>6 DEF PluginTypes

\* Nothing happens.
LEMMA UnchangedStep ==
    ASSUME EnvironmentInv, UNCHANGED scopeVars
    PROVE  StepOK
<1>1. /\ scopes \in Seq(ScopeTypes) /\ DOMAIN scopes = 1..Len(scopes)
      /\ scopes' = scopes /\ frames' = frames /\ freed' = freed /\ handed' = handed
      /\ fault' \in Faults
  BY DEF EnvironmentInv, TypeInv, scopeVars
<1>2. SameVars(scopes, scopes') /\ FunctionsKept(scopes, scopes')
  BY <1>1 DEF SameVars, FunctionsKept
<1> QED BY <1>1, <1>2, QuietStep

\* A native function returns a value or none.
LEMMA CallPluginStep ==
    ASSUME EnvironmentInv, NEW f \in Functions, NEW list \in ArgumentLists,
           NEW dest \in Names \cup {Nothing}, CallPlugin(f, list, dest)
    PROVE  StepOK
<1>1. PICK args \in Evaluations(list) : \E result \in {Nothing} \cup (Unheld \ Elements(args)) :
         FinishCall(scopes, frames, args, PassedVariables(list, args), result, dest)
  BY Zenon DEF CallPlugin
<1>2. PICK result \in {Nothing} \cup (Unheld \ Elements(args)) :
         FinishCall(scopes, frames, args, PassedVariables(list, args), result, dest)
  BY <1>1
<1>3. result \in Values \cup {Nothing}
  BY DEF Unheld
<1> QED BY <1>2, <1>3, ImmediateCallStep

\* Every step of script and host.
LEMMA EveryStep ==
    ASSUME EnvironmentInv, [Next]_vars
    PROVE  StepOK /\ PluginTypes'
<1>1. PluginTypes
  BY DEF EnvironmentInv, TypeInv
<1>2. CASE UNCHANGED pluginVars /\ StepOK
  BY <1>1, <1>2 DEF pluginVars, PluginTypes
<1>3. CASE ScopeNext /\ UNCHANGED pluginVars
  BY <1>2, <1>3, ScopeStep
<1>4. CASE \E p \in PluginNames : LoadPlugin(p)
  BY <1>4, LoadPluginStep
<1>5. ASSUME NEW p \in PluginNames, UnloadPlugin(p) PROVE StepOK /\ PluginTypes'
  <2>1. /\ loads' = loads /\ loaded' = [loaded EXCEPT ![p] = 0] /\ UNCHANGED scopeVars
        /\ MaxLoads \in Nat
    BY <1>5, PluginAssumption DEF UnloadPlugin
  <2>2. PluginTypes'
    BY <1>1, <2>1 DEF PluginTypes
  <2> QED BY <2>1, <2>2, UnchangedStep
<1>6. CASE \E f \in Functions, list \in ArgumentLists, dest \in Names \cup {Nothing} :
              CallPlugin(f, list, dest)
  BY <1>2, <1>6, CallPluginStep DEF CallPlugin
<1>7. ASSUME NEW f \in Functions, CallUnloaded(f) PROVE StepOK /\ PluginTypes'
  <2>1. Faulted("unloaded") /\ "unloaded" \in Faults /\ UNCHANGED pluginVars
    BY <1>7 DEF CallUnloaded, Faults
  <2> QED BY <1>2, <2>1, FaultedStep
<1>8. CASE UNCHANGED vars
  <2>1. UNCHANGED scopeVars /\ UNCHANGED pluginVars
    BY <1>8 DEF vars
  <2> QED BY <1>2, <2>1, UnchangedStep
<1> QED BY <1>3, <1>4, <1>5, <1>6, <1>7, <1>8 DEF Next

----------------------------------------------------------------------------
(* The beginning, and the theorems.                                        *)

\* The two scopes that the interpreter begins with hold no value.
LEMMA BeginsSound ==
    ASSUME Init
    PROVE  EnvironmentInv
<1>1. PICK found \in SUBSET PluginNames :
         /\ loaded = [p \in PluginNames |-> IF p \in found THEN 1 ELSE 0]
         /\ ScopeInit(RegisterAll(BaseScopes, loaded))
         /\ loads = IF found = {} THEN 0 ELSE 1
  BY Zenon DEF Init
<1>2. MaxLoads \in Nat \ {0}
  BY PluginAssumption
<1>3. PluginTypes
  BY <1>1, <1>2 DEF PluginTypes
<1>4. /\ scopes = RegisterAll(BaseScopes, loaded) /\ frames = <<>>
      /\ freed = {} /\ handed = {} /\ fault = "none"
  BY <1>1 DEF ScopeInit
<1>5. /\ BaseScopes \in Seq(ScopeTypes) /\ Len(BaseScopes) = 2
      /\ \A i \in 1..2 : BaseScopes[i] = EmptyScope
  BY EmptyScopeType DEF BaseScopes
<1>6. scopes \in Seq(ScopeTypes) /\ SameVars(BaseScopes, scopes)
  BY <1>3, <1>4, <1>5, RegisterAllKeeps DEF PluginTypes
<1>7. frames \in Seq(FrameTypes) /\ Len(frames) = 0
  BY <1>4
<1>8. TypeInv /\ ClassOnTop(frames) /\ DanglingOnlyIfHandedOver
  BY <1>3, <1>4, <1>6, <1>7 DEF TypeInv, ClassOnTop, DanglingOnlyIfHandedOver, Faults
<1>9. Sound(scopes, frames, handed)
  <2>1. Len(scopes) = 2 /\ \A i \in 1..2, n \in Names : scopes[i].vars[n] = Nothing
    BY <1>5, <1>6, EmptyScopeType DEF SameVars
  <2> DEFINE base == [a \in 1..1 |-> 2]
  <2>2. Layout(scopes, frames, base)
    <3>1. /\ base \in [1..(Len(frames) + 1) -> Nat] /\ base[1] = 2
          /\ base[Len(frames) + 1] = Len(scopes)
          /\ \A a \in 1..(Len(frames) + 1) : a = 1
      BY <1>7, <2>1
    <3> HIDE DEF base
    <3> QED BY <1>7, <3>1 DEF Layout
  <2>3. VariablesShare(scopes, handed) /\ ArgumentsShare(frames, handed)
        /\ BoundShare(scopes, frames, base, handed)
    BY <1>7, <2>1 DEF VariablesShare, ArgumentsShare, BoundShare
  <2> QED BY <2>2, <2>3 DEF Sound
<1> QED BY <1>8, <1>9 DEF EnvironmentInv, SharingInv

\* The invariant holds throughout, and with it every step is a good one.
LEMMA EnvironmentCorrect == Spec => [](EnvironmentInv)
<1>1. ASSUME EnvironmentInv, [Next]_vars PROVE EnvironmentInv'
  BY <1>1, EveryStep DEF StepOK, EnvironmentInv, TypeInv, SharingInv, DanglingOnlyIfHandedOver
<1> QED BY <1>1, BeginsSound, PTL DEF Spec

\* Scopes, frames, values and libraries have their types, for scripts of any
\* nesting: every lookup, registration and binding of arguments yields one.
THEOREM TypesCorrect == Spec => []TypeInv
<1>1. EnvironmentInv => TypeInv
  BY DEF EnvironmentInv
<1> QED BY <1>1, EnvironmentCorrect, PTL

\* A deleted value that a variable still stands for was handed over before:
\* updateVariable and the end of a call delete nothing that anybody else
\* holds, unless it was copied, passed, returned while held, or operated on.
THEOREM DanglingCorrect == Spec => []DanglingOnlyIfHandedOver
<1>1. EnvironmentInv => DanglingOnlyIfHandedOver
  BY DEF EnvironmentInv
<1> QED BY <1>1, EnvironmentCorrect, PTL

\* defineFunction, a function definition and the registration of the plugins
\* never take a function away.  They replace no native one, whichever plugins
\* are unloaded and loaded again, and one of the script only by giving the
\* function that a call finds another body.
THEOREM FunctionsCorrect == Spec => FunctionsStay
<1>1. FunctionsKept(scopes, scopes') =>
        \A i \in DOMAIN scopes \cap DOMAIN scopes', f \in Functions :
          scopes[i].funs[f] \in {Nothing, scopes'[i].funs[f]} \/ Redefined(i, f)
  BY DEF FunctionsKept, NewBody, Redefined
<1>2. EnvironmentInv /\ [Next]_vars =>
        [\A i \in DOMAIN scopes \cap DOMAIN scopes', f \in Functions :
          scopes[i].funs[f] \in {Nothing, scopes'[i].funs[f]} \/ Redefined(i, f)]_scopeVars
  BY <1>1, EveryStep DEF StepOK
<1> QED BY <1>2, EnvironmentCorrect, PTL DEF Spec, FunctionsStay

\* No definition, update or call in an inner scope changes what a variable of
\* an enclosing scope stands for.
THEOREM OuterScopesCorrect == Spec => OuterScopesUntouched
<1>1. EnvironmentInv /\ [Next]_vars =>
        [\A i \in DOMAIN scopes \cap DOMAIN scopes' :
          i < Len(scopes) /\ i < Len(scopes') => scopes'[i].vars = scopes[i].vars]_scopeVars
  BY EveryStep DEF StepOK, OuterKept
<1> QED BY <1>1, EnvironmentCorrect, PTL DEF Spec, OuterScopesUntouched

=============================================================================
