---------------------------- MODULE PluginManager ----------------------------
(***************************************************************************)
(* The environment a script runs in: Scope, and the plugins that bring the *)
(* native functions (plugin_manager.cpp, plugin.cpp, the constructor of    *)
(* Interpreter).  The host loads and unloads plugins between scripts; the  *)
(* functions of a plugin are bound in the scope that is current then, and  *)
(* a script calls them as it calls its own.                                *)
(***************************************************************************)
EXTENDS Scope

CONSTANTS
    Plugins,        \* names of plugins, in the order of PluginManager::plugins
    Provides,       \* the functions that each plugin brings
    MaxLoads        \* bound on calls of loadPlugin by the host

VARIABLES
    loaded,         \* per plugin, which load its library is from, 0 if none
    loads           \* number of loads so far

pluginVars == <<loaded, loads>>
vars == <<scopeVars, pluginVars>>

PluginNames == Elements(Plugins)

\* The functions of a plugin point into its library: those of an earlier load
\* are other objects than those of a later one.
ASSUME PluginAssumption ==
    /\ MaxLoads \in Nat \ {0}
    /\ Plugins \in Seq(STRING)
    /\ Provides \in [PluginNames -> SUBSET Functions]
    /\ Natives = [owner : PluginNames, load : 1..MaxLoads]

Native(p, from) == [owner |-> p, load |-> from]

----------------------------------------------------------------------------
(* registerAllPlugins: defineFunction for every function of every plugin,  *)
(* in order.  A name that is a function already is refused, so the first   *)
(* plugin that provides it wins, and in the context of a class nothing is  *)
(* bound.                                                                  *)

Providers(from, f) ==
    {i \in DOMAIN Plugins : from[Plugins[i]] # 0 /\ f \in Provides[Plugins[i]]}

\* The provider that the registration in order keeps.
FirstProvider(from, f) ==
    Plugins[CHOOSE i \in Providers(from, f) : \A j \in Providers(from, f) : i <= j]

\* Faulty variant of RegisterAll: the functions found are bound again.
RegisterOver(scs, from) ==
    IF InClassContext(scs) THEN scs
    ELSE [scs EXCEPT ![Len(scs)].funs = [f \in Functions |->
            IF Providers(from, f) = {} THEN @[f]
            ELSE Native(FirstProvider(from, f), from[FirstProvider(from, f)])]]

RegisterAll(scs, from) ==
    IF InClassContext(scs) THEN scs
    ELSE [scs EXCEPT ![Len(scs)].funs = [f \in Functions |->
            IF LookupFunction(scs, f) # Nothing \/ Providers(from, f) = {} THEN @[f]
            ELSE Native(FirstProvider(from, f), from[FirstProvider(from, f)])]]

----------------------------------------------------------------------------

\* Host calls come between scripts.
HostCalls == Running /\ frames = <<>>

\* loadPlugin, for a library whose name is not loaded yet; one that fails to
\* load, or is loaded already, changes nothing.
LoadPlugin(p) ==
    /\ HostCalls
    /\ loads < MaxLoads
    /\ loaded[p] = 0
    /\ loads' = loads + 1
    /\ loaded' = [loaded EXCEPT ![p] = loads + 1]
    /\ scopes' = RegisterAll(scopes, loaded')
    /\ UNCHANGED <<frames, freed, handed, fault>>

\* unloadPlugin closes the library; the scopes keep the functions.
UnloadPlugin(p) ==
    /\ HostCalls
    /\ loaded[p] # 0
    /\ loaded' = [loaded EXCEPT ![p] = 0]
    /\ UNCHANGED <<loads, scopeVars>>

InLibrary(object) == loaded[object.owner] = object.load

\* callFunction of a native function: one that yields a value yields a new one.
CallPlugin(f, list, dest) ==
    /\ AtStatement
    /\ LookupFunction(scopes, f) \in Natives
    /\ InLibrary(LookupFunction(scopes, f))
    /\ \A i \in DOMAIN list : list[i] # Nothing => Readable(list[i])
    /\ \E args \in Evaluations(list) :
       \E result \in {Nothing} \cup (Unheld \ Elements(args)) :
          FinishCall(scopes, frames, args, PassedVariables(list, args), result, dest)
    /\ UNCHANGED pluginVars

\* The code of the function is no longer there.
CallUnloaded(f) ==
    /\ AtStatement
    /\ LookupFunction(scopes, f) \in Natives
    /\ ~InLibrary(LookupFunction(scopes, f))
    /\ Faulted("unloaded")
    /\ UNCHANGED pluginVars

----------------------------------------------------------------------------

\* The constructor loads the plugins of the default directory, if it is found,
\* and registers them in the scope it entered.
Init ==
    /\ \E found \in SUBSET PluginNames :
          /\ loaded = [p \in PluginNames |-> IF p \in found THEN 1 ELSE 0]
          /\ ScopeInit(RegisterAll(BaseScopes, loaded))
          /\ loads = IF found = {} THEN 0 ELSE 1

Next ==
    \/ ScopeNext /\ UNCHANGED pluginVars
    \/ \E p \in PluginNames : LoadPlugin(p) \/ UnloadPlugin(p)
    \/ \E f \in Functions, list \in ArgumentLists, dest \in Names \cup {Nothing} :
          CallPlugin(f, list, dest)
    \/ \E f \in Functions : CallUnloaded(f)

Spec == Init /\ [][Next]_vars
=============================================================================
