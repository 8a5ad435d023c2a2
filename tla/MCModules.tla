------------------------------ MODULE MCModules ------------------------------
(* Instance of the services that stand beside the interpreter.  They share  *)
(* no state and never call each other: each is explored while the others    *)
(* are as constructed.                                                      *)
EXTENDS CoroutineScheduler, ModuleSystem, MemoryManager, TLC

CONSTANTS a, b, m1, m2, here, std, s1, s2, a1, a2, p1, p2

MCCoroutines == {a, b}
MCPriority == (a :> 1) @@ (b :> 2)
MCDefaultDirs == <<here>>
\* m2 is only where no default path leads, and a file that cannot be opened
\* is found before that of m1.
MCLocked == {[dir |-> here, name |-> m1, txt |-> FALSE]}
MCFiles == {[dir |-> here, name |-> m1, txt |-> TRUE], [dir |-> std, name |-> m2, txt |-> FALSE]}
             \cup MCLocked

MCInit == Init /\ ModuleInit /\ MemoryInit
MCNext ==
    \/ ModuleInit /\ MemoryInit /\ Next /\ UNCHANGED <<moduleVars, memoryVars>>
    \/ Init /\ MemoryInit /\ ModuleNext /\ UNCHANGED <<vars, memoryVars>>
    \/ Init /\ ModuleInit /\ MemoryNext /\ UNCHANGED <<vars, moduleVars>>
MCSpec == MCInit /\ [][MCNext]_<<vars, moduleVars, memoryVars>>

Symmetry == Permutations({s1, s2}) \cup Permutations({a1, a2}) \cup Permutations({p1, p2})
=============================================================================
