--------------------------- MODULE MCAsyncRuntime ---------------------------
(* AsyncRuntime on small instances.                                        *)
EXTENDS AsyncRuntime, TLC

CONSTANTS c1

MCThreads == {c1} \cup (1..MaxThreads)
============================================================================
