--------------------------- MODULE TaskLifecycle ---------------------------
(***************************************************************************)
(* What every task runner of the interpreter promises its callers, seen    *)
(* from outside: a task is accepted or refused once, starts once, and once *)
(* finished never changes again.  ThreadPool and AsyncRuntime implement    *)
(* it; each maps its queues, flags and worker program counters to status.  *)
(***************************************************************************)
EXTENDS FiniteSets, Naturals

CONSTANTS Tasks,   \* the submissions the callers make
          Limit    \* how many tasks may be executing at once

VARIABLE status

Executing == {t \in Tasks : status[t] = "running"}

Move(t, from, to) ==
    /\ status[t] = from
    /\ status' = [status EXCEPT ![t] = to]

Accept(t) == Move(t, "new", "queued")

Refuse(t) == Move(t, "new", "refused")

Start(t) ==
    /\ Cardinality(Executing) < Limit
    /\ Move(t, "queued", "running")

Finish(t) == Move(t, "running", "done")

Init == status = [t \in Tasks |-> "new"]

Next == \E t \in Tasks : Accept(t) \/ Refuse(t) \/ Start(t) \/ Finish(t)

Spec == Init /\ [][Next]_status
============================================================================
