--------------------------- MODULE MCPluginManager ---------------------------
(* Instance of PluginManager: every script over two variables, of which one *)
(* is also the parameter, one function that two plugins provide too, and    *)
(* one class.                                                               *)
EXTENDS PluginManager, TLC

CONSTANT x

MCNames == {x}
MCParams == <<x>>
MCFunctions == {"f"}
MCClasses == {"C"}
MCPlugins == <<"core", "extra">>
MCProvides == [p \in {"core", "extra"} |-> {"f"}]
MCNatives == [owner : {"core", "extra"}, load : 1..MaxLoads]

\* Values and bodies differ in their identity alone.
Symmetry == Permutations(Values) \cup Permutations(Bodies)
=============================================================================
