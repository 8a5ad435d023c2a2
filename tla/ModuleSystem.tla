----------------------------- MODULE ModuleSystem -----------------------------
(***************************************************************************)
(* ModuleLoader, NamespaceManager and ModuleSystem (module_system.cpp).    *)
(*                                                                         *)
(* An import loads a module, makes a namespace for it and parses its file; *)
(* nothing runs the program or looks for the imports in it: dependencies   *)
(* and symbols are there only if C++ code with access to the loader or the *)
(* namespace adds them.  globalScope_ is never set: the namespace "" has   *)
(* no scope.  A Scope that neither a namespace nor a module refers to has  *)
(* leaked and its name is used again; what importing leaks is left out, as *)
(* is the program that a module keeps and nothing reads.                   *)
(***************************************************************************)
EXTENDS Naturals, Sequences, FiniteSets

CONSTANTS
    Names,          \* of modules, as imports write them
    Files,          \* that exist at first
    Locked,         \* those that cannot be opened
    Dirs,           \* search paths
    DefaultDirs,    \* the first of them, a sequence
    Aliases,        \* of namespaces
    Symbols,
    SymbolValues,
    Scopes,         \* Scope objects
    Nothing,
    MaxDependencies \* bound on the dependencies of all modules together

\* The directory that was searched, or Nothing, and whether .txt is added.
Paths == [dir : Dirs \cup {Nothing}, name : Names, txt : BOOLEAN]
Modules == [path : Paths, scope : Scopes \cup {Nothing}, dependencies : Seq(Names)]
Namespaces == Names \cup Aliases

ASSUME ModuleAssumption ==
    /\ Files \subseteq Paths
    /\ Locked \subseteq Paths
    /\ DefaultDirs \in Seq(Dirs)
    /\ IsFiniteSet(Names)
    /\ Nothing \notin Paths \cup Modules
    \* the namespace that is always there; the parser takes no empty name
    /\ "" \notin Namespaces
    /\ MaxDependencies \in Nat

VARIABLES
    disk,           \* the files that exist
    searchPaths,
    moduleCache,
    namespaces,     \* NamespaceManager::namespaces_, without ""
    symbols,        \* the variables of each Scope
    verdict         \* the last call of resolveDependencies, and its outcome

moduleVars == <<disk, searchPaths, moduleCache, namespaces, symbols, verdict>>

NoSymbols == [s \in Symbols |-> Nothing]
NoVerdict == <<Nothing, "none">>

ModuleInit ==
    /\ disk = Files
    /\ searchPaths = DefaultDirs
    /\ moduleCache = [n \in Names |-> Nothing]
    /\ namespaces = [n \in Namespaces |-> Nothing]
    /\ symbols = [s \in Scopes |-> NoSymbols]
    /\ verdict = NoVerdict

----------------------------------------------------------------------------
(* ModuleLoader.                                                           *)

\* The name as it is, then in each search path, there with .txt too.
Candidates(n) ==
    LET inPath(k) == [dir |-> searchPaths[(k + 1) \div 2], name |-> n, txt |-> k % 2 = 0]
    IN  <<[dir |-> Nothing, name |-> n, txt |-> FALSE]>>
        \o [k \in 1 .. 2 * Len(searchPaths) |-> inPath(k)]
ResolveModulePath(n) ==
    LET found == {i \in DOMAIN Candidates(n) : Candidates(n)[i] \in disk}
    IN  IF found = {} THEN Nothing
        ELSE Candidates(n)[CHOOSE i \in found : \A j \in found : i <= j]

IsCached(cache, n) == cache[n] # Nothing

\* parseModuleInfo opens the file that is found first; no other is tried.
ModuleFile(n) ==
    IF ResolveModulePath(n) \in Locked THEN Nothing ELSE ResolveModulePath(n)
Loadable(n) == IsCached(moduleCache, n) \/ ModuleFile(n) # Nothing

\* The cache behind loadModule of each name, where it succeeds.
Loaded(cache, n) ==
    IF IsCached(cache, n) \/ ModuleFile(n) = Nothing THEN cache
    ELSE [cache EXCEPT ![n] = [path |-> ModuleFile(n), scope |-> Nothing,
                               dependencies |-> <<>>]]

LoadModule(n) ==
    /\ ~IsCached(moduleCache, n) /\ Loadable(n)
    /\ moduleCache' = Loaded(moduleCache, n)
    /\ UNCHANGED <<disk, searchPaths, namespaces, symbols, verdict>>

Dependencies ==
    UNION {{<<n, i>> : i \in DOMAIN moduleCache[n].dependencies} :
             n \in {m \in Names : IsCached(moduleCache, m)}}
AddDependency(n, d) ==
    /\ IsCached(moduleCache, n)
    /\ Cardinality(Dependencies) < MaxDependencies
    /\ moduleCache' = [moduleCache EXCEPT ![n].dependencies = Append(@, d)]
    /\ verdict' = NoVerdict
    /\ UNCHANGED <<disk, searchPaths, namespaces, symbols>>

\* Faulty variant of CircularVia: each dependency overwrites the last outcome.
CircularViaLast(rest) == IF rest = <<>> THEN "no" ELSE rest[Len(rest)]

\* The first dependency, in order, whose outcome is not "no" decides.
CircularVia(rest) ==
    IF \A i \in DOMAIN rest : rest[i] = "no" THEN "no"
    ELSE rest[CHOOSE i \in DOMAIN rest :
                rest[i] # "no" /\ \A j \in 1 .. i - 1 : rest[j] = "no"]

\* hasCircularDependency: the search goes down the dependencies in order and
\* remembers nothing (loadingModules_ is always empty): on a path longer than
\* the cache it goes round a cycle without the target, and does not return.
HasCircularDependency(n, target) ==
    LET outcomes(m, below) ==
          [i \in DOMAIN moduleCache[m].dependencies |->
             LET dep == moduleCache[m].dependencies[i]
             IN  IF dep = target THEN "yes" ELSE below[dep]]
        search[left \in 0 .. Cardinality(Names)] ==
          [m \in Names |->
             IF ~IsCached(moduleCache, m) THEN "no"
             ELSE IF left = 0 THEN "endless"
             ELSE CircularVia(outcomes(m, search[left - 1]))]
    IN  search[Cardinality(Names)][n]

\* resolveDependencies: the dependencies up to the first that cannot be loaded
\* are loaded and stay cached.
ResolveDependencies(n) ==
    /\ IsCached(moduleCache, n)
    /\ LET deps     == moduleCache[n].dependencies
           circular == HasCircularDependency(n, n)
           failed   == {i \in DOMAIN deps : ~Loadable(deps[i])}
           reached  == {i \in DOMAIN deps : \A j \in 1 .. i : j \notin failed}
           wanted   == {deps[i] : i \in reached}
       IN  /\ moduleCache' =
                IF circular # "no" THEN moduleCache
                ELSE [m \in Names |-> IF m \in wanted THEN Loaded(moduleCache, m)[m] ELSE moduleCache[m]]
           /\ verdict' = <<n, CASE circular = "yes" -> "circular"
                               [] circular = "endless" -> "endless"
                               [] circular = "no" /\ failed # {} -> "failed"
                               [] circular = "no" /\ failed = {} -> "resolved">>
    /\ UNCHANGED <<disk, searchPaths, namespaces, symbols>>

\* Modules live on where somebody else holds them; nobody does.
ClearCache ==
    /\ moduleCache' = [n \in Names |-> Nothing]
    /\ verdict' = NoVerdict
    /\ UNCHANGED <<disk, searchPaths, namespaces, symbols>>

AddSearchPath(d) ==
    /\ \A i \in DOMAIN searchPaths : searchPaths[i] # d
    /\ searchPaths' = Append(searchPaths, d)
    /\ UNCHANGED <<disk, moduleCache, namespaces, symbols, verdict>>

----------------------------------------------------------------------------
(* NamespaceManager.                                                       *)

\* Faulty variant of Created: the new scope replaces the old.
CreatedAnew(spaces, n, scope) == [spaces EXCEPT ![n] = scope]
\* createNamespace: an existing namespace keeps its scope.
Created(spaces, n, scope) ==
    IF spaces[n] = Nothing THEN [spaces EXCEPT ![n] = scope] ELSE spaces

RemoveNamespace(n) ==
    /\ namespaces[n] # Nothing
    /\ namespaces' = [namespaces EXCEPT ![n] = Nothing]
    /\ UNCHANGED <<disk, searchPaths, moduleCache, symbols, verdict>>

\* getTargetScope.
TargetScope(spaces, n) == IF n \in Namespaces THEN spaces[n] ELSE Nothing

\* importSymbol: the two scopes share the value.
Imported(spaces, syms, s, from, to, alias) ==
    LET source == TargetScope(spaces, from)
        target == TargetScope(spaces, to)
    IN  IF source = Nothing \/ target = Nothing THEN syms
        ELSE IF syms[source][s] = Nothing THEN syms
        ELSE [syms EXCEPT ![target][alias] = syms[source][s]]

ImportSymbol(s, from, to, alias) ==
    /\ symbols' = Imported(namespaces, symbols, s, from, to, alias)
    /\ symbols' # symbols
    /\ UNCHANGED <<disk, searchPaths, moduleCache, namespaces, verdict>>

\* C++ code that holds a namespace defines a symbol in it.
Define(n, s, v) ==
    /\ namespaces[n] # Nothing
    /\ symbols' = [symbols EXCEPT ![namespaces[n]][s] = v]
    /\ UNCHANGED <<disk, searchPaths, moduleCache, namespaces, verdict>>

----------------------------------------------------------------------------
(* ModuleSystem: the four kinds of import.                                 *)

InUse == {namespaces[n] : n \in Namespaces}
         \cup {moduleCache[n].scope : n \in {m \in Names : IsCached(moduleCache, m)}}

\* loadModule, new Scope, createNamespace, parse.  The parser may throw, with
\* the module cached and the namespace made.  The module gets the new scope,
\* whether or not the namespace got it.
Import(n, space, scope, parsed) ==
    /\ Loadable(n)
    /\ scope \in Scopes \ InUse
    /\ namespaces' = Created(namespaces, space, scope)
    /\ moduleCache' =
         LET cache == Loaded(moduleCache, n)
         IN  IF parsed THEN [cache EXCEPT ![n].scope = scope] ELSE cache
    /\ UNCHANGED <<disk, searchPaths, verdict>>

HandleDefaultImport(n, scope, parsed) ==
    /\ Import(n, n, scope, parsed)
    /\ symbols' = [symbols EXCEPT ![scope] = NoSymbols]
\* importAllSymbols copies nothing: its loop is commented out.
HandleWildcardImport(n, scope, parsed) == HandleDefaultImport(n, scope, parsed)
HandleNamespaceImport(n, alias, scope, parsed) ==
    /\ Import(n, alias, scope, parsed)
    /\ symbols' = [symbols EXCEPT ![scope] = NoSymbols]

\* handleSelectiveImport imports each item into "", which has no scope.
HandleSelectiveImport(n, s, alias, scope, parsed) ==
    /\ Import(n, n, scope, parsed)
    /\ symbols' = LET fresh == [symbols EXCEPT ![scope] = NoSymbols]
                  IN  IF parsed THEN Imported(namespaces', fresh, s, n, "", alias) ELSE fresh

\* A file is removed.
ChangeDisk ==
    /\ \E f \in disk : disk' = disk \ {f}
    /\ UNCHANGED <<searchPaths, moduleCache, namespaces, symbols, verdict>>

ProcessImport(n, scope, parsed) ==
    \/ HandleDefaultImport(n, scope, parsed) \/ HandleWildcardImport(n, scope, parsed)
    \/ \E alias \in Aliases : HandleNamespaceImport(n, alias, scope, parsed)
    \/ \E s, alias \in Symbols : HandleSelectiveImport(n, s, alias, scope, parsed)

ModuleNext ==
    \/ \E n \in Names, scope \in Scopes, parsed \in BOOLEAN : ProcessImport(n, scope, parsed)
    \/ \E n \in Names : LoadModule(n) \/ ResolveDependencies(n)
    \/ \E n, d \in Names : AddDependency(n, d)
    \/ \E d \in Dirs : AddSearchPath(d)
    \/ \E n \in Namespaces, s \in Symbols :
          \/ \E v \in SymbolValues : Define(n, s, v)
          \/ \E to \in Namespaces, alias \in Symbols : ImportSymbol(s, n, to, alias)
    \/ \E n \in Namespaces : RemoveNamespace(n)
    \/ ClearCache \/ ChangeDisk

ModuleSpec == ModuleInit /\ [][ModuleNext]_moduleVars

----------------------------------------------------------------------------

Depends(n) ==
    IF IsCached(moduleCache, n)
    THEN {moduleCache[n].dependencies[i] : i \in DOMAIN moduleCache[n].dependencies} ELSE {}
Reached(n) ==
    LET within[k \in 0 .. Cardinality(Names)] ==
          IF k = 0 THEN Depends(n)
          ELSE LET before == within[k - 1] IN before \cup UNION {Depends(m) : m \in before}
    IN  within[Cardinality(Names)]

\* The search agrees with the relation it searches: what resolveDependencies
\* reports as circular depends on itself, what it resolves or fails to load does
\* not, all that it resolves depends on is cached, and it does not return only
\* where a module it depends on depends on itself.
VerdictsAgree ==
    LET n == verdict[1]
    IN  verdict # NoVerdict =>
          CASE verdict[2] = "circular" -> n \in Reached(n)
            [] verdict[2] = "resolved" ->
                 n \notin Reached(n) /\ \A d \in Depends(n) : IsCached(moduleCache, d)
            [] verdict[2] = "failed"   -> n \notin Reached(n)
            [] verdict[2] = "endless"  -> \E m \in Reached(n) : m \in Reached(m)

\* An import that makes a namespace leaves every other namespace its scope and
\* the symbols found in it, however often modules are imported, dropped from the
\* cache and imported again.
NamespacesKeepSymbols ==
    [][\A n \in Namespaces :
         (\E m \in Namespaces : namespaces'[m] \notin {Nothing, namespaces[m]})
         /\ namespaces[n] # Nothing =>
           /\ namespaces'[n] = namespaces[n]
           /\ symbols'[namespaces'[n]] = symbols[namespaces[n]]]_moduleVars

=============================================================================
