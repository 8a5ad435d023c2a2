------------------------- MODULE CoroutineScheduler -------------------------
(***************************************************************************)
(* InterpreterCore::CoroutineScheduler and Coroutine (concurrency.cpp).    *)
(*                                                                         *)
(* One scheduler thread runs coroutines to their end, one at a time;       *)
(* clients schedule, cancel and suspend them, and the owner starts, stops, *)
(* pauses and configures the scheduler.  Coroutine::state has no lock:     *)
(* resume, cancel and suspend test it in one step and set it in another.   *)
(* The scheduler holds queueMutex only while it is about to block          *)
(* ("block"); every other section under that mutex is a single step.       *)
(***************************************************************************)
EXTENDS Naturals, FiniteSets, Sequences, Functions

CONSTANTS Coroutines,
          Clients,      \* threads that schedule, cancel and suspend
          Priority,     \* Coroutine::priority
          MaxCalls,     \* bound: how often a coroutine is scheduled
          None

ASSUME SchedulerAssumption ==
    /\ Priority \in [Coroutines -> Nat]
    /\ MaxCalls \in Nat
    /\ None \notin Coroutines

VARIABLES
    running, paused,
    maxConcurrent,        \* maxConcurrentCoroutines
    policy,               \* schedulingPolicy; round_robin does what fifo does
    pc,                   \* where schedulerThread stands in schedulerLoop
    hand,                 \* its local variable coroutine
    readyQueue,
    runningCoroutines,
    suspendedCoroutines,
    completedCoroutines,
    state,                \* Coroutine::state
    cpc,                  \* where each client stands in cancelCoroutine or suspend
    target,               \* and the coroutine it does that to
    octl,                 \* where the owner stands in stop or resume
    calls,                \* history: how often each coroutine was scheduled
    runs,                 \* history: how often its function ran
    disturbed,            \* history: the coroutines ever cancelled or suspended
    revived               \* history: those whose end a late suspend overwrote

listVars   == <<readyQueue, runningCoroutines, suspendedCoroutines, completedCoroutines>>
clientVars == <<cpc, target, calls, disturbed, revived>>
ownerVars  == <<running, paused, maxConcurrent, policy, octl>>
vars == <<pc, hand, state, runs, listVars, clientVars, ownerVars>>

Init ==
    /\ running = FALSE
    /\ paused = FALSE
    /\ maxConcurrent = 1
    /\ policy = "fifo"
    /\ pc = "none"
    /\ hand = None
    /\ readyQueue = <<>>
    /\ runningCoroutines = {}
    /\ suspendedCoroutines = <<>>
    /\ completedCoroutines = <<>>
    /\ state = [k \in Coroutines |-> "CREATED"]
    /\ cpc = [c \in Clients |-> "idle"]
    /\ target = [c \in Clients |-> None]
    /\ octl = "idle"
    /\ calls = [k \in Coroutines |-> 0]
    /\ runs = [k \in Coroutines |-> 0]
    /\ disturbed = {}
    /\ revived = {}

----------------------------------------------------------------------------
(* selectNextCoroutine: the coroutine chosen and the queue left behind.    *)

SelectFirst(queue) == [chosen |-> Head(queue), rest |-> Tail(queue)]

\* One pass keeps the best so far; what it displaces or passes over goes to
\* the rest, in that order.
SelectByPriority(queue) ==
    LET pass[n \in 1..Len(queue)] ==
          IF n = 1 THEN [chosen |-> queue[1], rest |-> <<>>]
          ELSE LET best == pass[n - 1] IN
               IF Priority[queue[n]] > Priority[best.chosen]
               THEN [chosen |-> queue[n], rest |-> Append(best.rest, best.chosen)]
               ELSE [chosen |-> best.chosen, rest |-> Append(best.rest, queue[n])]
    IN  pass[Len(queue)]

SelectNext(queue) ==
    IF policy = "priority" THEN SelectByPriority(queue) ELSE SelectFirst(queue)

----------------------------------------------------------------------------
(* schedulerLoop and Coroutine::resume.                                    *)

MutexFree == pc # "block"

Goto(from, to) == pc = from /\ pc' = to

\* while (running), read without the mutex.
TestRunning ==
    /\ Goto("test", IF running THEN "lock" ELSE "exited")
    /\ UNCHANGED <<hand, state, runs, listVars, clientVars, ownerVars>>

\* With the mutex: stopped, leave the loop.
LeaveLoop ==
    /\ ~running
    /\ Goto("lock", "exited")
    /\ UNCHANGED <<hand, state, runs, listVars, clientVars, ownerVars>>

\* With the mutex: paused or nothing to do, about to block.
FindNothing ==
    /\ running
    /\ paused \/ readyQueue = <<>>
    /\ Goto("lock", "block")
    /\ UNCHANGED <<hand, state, runs, listVars, clientVars, ownerVars>>

Block ==
    /\ Goto("block", "waiting")
    /\ UNCHANGED <<hand, state, runs, listVars, clientVars, ownerVars>>

SpuriousWake ==
    /\ Goto("waiting", "lock")
    /\ UNCHANGED <<hand, state, runs, listVars, clientVars, ownerVars>>

\* The limit is reached: the chosen coroutine goes to the end of the queue.
PutBack ==
    /\ running /\ ~paused /\ readyQueue # <<>>
    /\ Cardinality(runningCoroutines) >= maxConcurrent
    /\ LET next == SelectNext(readyQueue)
       IN  readyQueue' = Append(next.rest, next.chosen)
    /\ Goto("lock", "test")
    /\ UNCHANGED <<runningCoroutines, suspendedCoroutines, completedCoroutines>>
    /\ UNCHANGED <<hand, state, runs, clientVars, ownerVars>>

TakeNext ==
    /\ running /\ ~paused /\ readyQueue # <<>>
    /\ Cardinality(runningCoroutines) < maxConcurrent
    /\ LET next == SelectNext(readyQueue)
       IN  /\ readyQueue' = next.rest
           /\ hand' = next.chosen
           /\ runningCoroutines' = runningCoroutines \cup {next.chosen}
    /\ Goto("lock", "resume")
    /\ UNCHANGED <<suspendedCoroutines, completedCoroutines>>
    /\ UNCHANGED <<state, runs, clientVars, ownerVars>>

\* Faulty variant of TestState: a completed coroutine is run again.
TestCancelledOnly ==
    /\ Goto("resume", IF state[hand] = "CANCELLED" THEN "collect" ELSE "begin")
    /\ UNCHANGED <<hand, state, runs, listVars, clientVars, ownerVars>>

\* resume: a completed or cancelled coroutine is not run.
TestState ==
    /\ Goto("resume", IF state[hand] \in {"COMPLETED", "CANCELLED"}
                      THEN "collect" ELSE "begin")
    /\ UNCHANGED <<hand, state, runs, listVars, clientVars, ownerVars>>

SetRunning ==
    /\ Goto("begin", "body")
    /\ state' = [state EXCEPT ![hand] = "RUNNING"]
    /\ UNCHANGED <<hand, runs, listVars, clientVars, ownerVars>>

\* function() returns or throws: either way the state becomes COMPLETED,
\* whatever it was set to meanwhile.
RunToEnd ==
    /\ Goto("body", "collect")
    /\ runs' = [runs EXCEPT ![hand] = @ + 1]
    /\ state' = [state EXCEPT ![hand] = "COMPLETED"]
    /\ UNCHANGED <<hand, listVars, clientVars, ownerVars>>

\* Under the mutex: out of runningCoroutines, and into the list its state
\* tells.  A cancelled coroutine goes to none.
Collect ==
    /\ Goto("collect", "test")
    /\ hand' = None
    /\ runningCoroutines' = runningCoroutines \ {hand}
    /\ completedCoroutines' = IF state[hand] = "COMPLETED"
                              THEN Append(completedCoroutines, hand) ELSE completedCoroutines
    /\ suspendedCoroutines' = IF state[hand] = "SUSPENDED"
                              THEN Append(suspendedCoroutines, hand) ELSE suspendedCoroutines
    /\ UNCHANGED <<readyQueue, state, runs, clientVars, ownerVars>>

Scheduler ==
    \/ TestRunning \/ LeaveLoop \/ FindNothing \/ Block \/ SpuriousWake \/ PutBack
    \/ TakeNext \/ TestState \/ SetRunning \/ RunToEnd \/ Collect

----------------------------------------------------------------------------
(* Clients.                                                                *)

ScheduleCoroutine(c, k) ==
    /\ cpc[c] = "idle"
    /\ FoldFunction(+, 0, calls) < MaxCalls
    /\ MutexFree
    /\ calls' = [calls EXCEPT ![k] = @ + 1]
    /\ readyQueue' = Append(readyQueue, k)
    /\ pc' = IF pc = "waiting" THEN "lock" ELSE pc
    /\ UNCHANGED <<runningCoroutines, suspendedCoroutines, completedCoroutines>>
    /\ UNCHANGED <<hand, state, runs, cpc, target, disturbed, revived, ownerVars>>

\* The queue is popped to its end, and what is not k pushed to a new one.
Without(queue, k) ==
    LET kept[n \in 0..Len(queue)] ==
          IF n = 0 THEN <<>>
          ELSE IF queue[n] = k THEN kept[n - 1] ELSE Append(kept[n - 1], queue[n])
    IN  kept[Len(queue)]

\* cancelCoroutine: cancel tests the state and sets it, then every list but
\* the completed one is cleared of the coroutine under the mutex.
BeginCancel(c, k) ==
    /\ cpc[c] = "idle"
    /\ cpc' = [cpc EXCEPT ![c] = IF state[k] = "COMPLETED" THEN "remove" ELSE "cancel"]
    /\ target' = [target EXCEPT ![c] = k]
    /\ disturbed' = disturbed \cup {k}
    /\ UNCHANGED <<calls, revived, pc, hand, state, runs, listVars, ownerVars>>

SetCancelled(c) ==
    /\ cpc[c] = "cancel"
    /\ state' = [state EXCEPT ![target[c]] = "CANCELLED"]
    /\ cpc' = [cpc EXCEPT ![c] = "remove"]
    /\ UNCHANGED <<target, calls, disturbed, revived, pc, hand, runs, listVars, ownerVars>>

\* Faulty variant of RemoveFromQueues: the ready queue is emptied.
ClearQueues(c) ==
    /\ cpc[c] = "remove"
    /\ MutexFree
    /\ readyQueue' = <<>>
    /\ runningCoroutines' = runningCoroutines \ {target[c]}
    /\ suspendedCoroutines' = Without(suspendedCoroutines, target[c])
    /\ cpc' = [cpc EXCEPT ![c] = "idle"]
    /\ target' = [target EXCEPT ![c] = None]
    /\ UNCHANGED <<completedCoroutines, calls, disturbed, revived, pc, hand, state, runs, ownerVars>>

RemoveFromQueues(c) ==
    /\ cpc[c] = "remove"
    /\ MutexFree
    /\ readyQueue' = Without(readyQueue, target[c])
    /\ runningCoroutines' = runningCoroutines \ {target[c]}
    /\ suspendedCoroutines' = Without(suspendedCoroutines, target[c])
    /\ cpc' = [cpc EXCEPT ![c] = "idle"]
    /\ target' = [target EXCEPT ![c] = None]
    /\ UNCHANGED <<completedCoroutines, calls, disturbed, revived, pc, hand, state, runs, ownerVars>>

\* Coroutine::suspend: only a running coroutine, tested and set.
BeginSuspend(c, k) ==
    /\ cpc[c] = "idle"
    /\ state[k] = "RUNNING"
    /\ cpc' = [cpc EXCEPT ![c] = "suspend"]
    /\ target' = [target EXCEPT ![c] = k]
    /\ disturbed' = disturbed \cup {k}
    /\ UNCHANGED <<calls, revived, pc, hand, state, runs, listVars, ownerVars>>

SetSuspended(c) ==
    /\ cpc[c] = "suspend"
    /\ state' = [state EXCEPT ![target[c]] = "SUSPENDED"]
    /\ revived' = IF state[target[c]] \in {"COMPLETED", "CANCELLED"}
                  THEN revived \cup {target[c]} ELSE revived
    /\ cpc' = [cpc EXCEPT ![c] = "idle"]
    /\ target' = [target EXCEPT ![c] = None]
    /\ UNCHANGED <<calls, disturbed, pc, hand, runs, listVars, ownerVars>>

Client(c) ==
    \/ \E k \in Coroutines :
         ScheduleCoroutine(c, k) \/ BeginCancel(c, k) \/ BeginSuspend(c, k)
    \/ SetCancelled(c) \/ RemoveFromQueues(c) \/ SetSuspended(c)

----------------------------------------------------------------------------
(* The owner: start, stop, pause, resume and the settings.                 *)

Start ==
    /\ octl = "idle" /\ ~running
    /\ running' = TRUE
    /\ paused' = FALSE
    /\ pc' = "test"
    /\ UNCHANGED <<maxConcurrent, policy, octl, hand, state, runs, listVars, clientVars>>

\* running = false and notify_all, without queueMutex; then join.
Stop ==
    /\ octl = "idle" /\ running
    /\ running' = FALSE
    /\ octl' = "stopping"
    /\ UNCHANGED <<paused, maxConcurrent, policy, pc, hand, state, runs, listVars, clientVars>>

Resume ==
    /\ octl = "idle"
    /\ paused' = FALSE
    /\ octl' = "resuming"
    /\ UNCHANGED <<running, maxConcurrent, policy, pc, hand, state, runs, listVars, clientVars>>

NotifyAll ==
    /\ octl \in {"stopping", "resuming"}
    /\ pc' = IF pc = "waiting" THEN "lock" ELSE pc
    /\ octl' = IF octl = "stopping" THEN "join" ELSE "idle"
    /\ UNCHANGED <<running, paused, maxConcurrent, policy, hand, state, runs>>
    /\ UNCHANGED <<listVars, clientVars>>

Join ==
    /\ octl = "join"
    /\ Goto("exited", "none")
    /\ octl' = "idle"
    /\ UNCHANGED <<running, paused, maxConcurrent, policy, hand, state, runs>>
    /\ UNCHANGED <<listVars, clientVars>>

Pause ==
    /\ octl = "idle"
    /\ paused' = TRUE
    /\ UNCHANGED <<running, maxConcurrent, policy, octl, pc, hand, state, runs>>
    /\ UNCHANGED <<listVars, clientVars>>

SetMaxConcurrent(limit) ==
    /\ octl = "idle"
    /\ maxConcurrent' = limit
    /\ UNCHANGED <<running, paused, policy, octl, pc, hand, state, runs, listVars, clientVars>>

\* Only before the start: the string is read without a lock.
SetPolicy(p) ==
    /\ octl = "idle" /\ ~running
    /\ policy' = p
    /\ UNCHANGED <<running, paused, maxConcurrent, octl, pc, hand, state, runs>>
    /\ UNCHANGED <<listVars, clientVars>>

Owner ==
    \/ Start \/ Stop \/ Resume \/ NotifyAll \/ Join \/ Pause
    \/ \E limit \in 0..1 : SetMaxConcurrent(limit)
    \/ \E p \in {"fifo", "priority"} : SetPolicy(p)

Next == Scheduler \/ (\E c \in Clients : Client(c)) \/ Owner

Spec == Init /\ [][Next]_vars

----------------------------------------------------------------------------
(* Properties.                                                             *)

Count(k, s) == Cardinality({i \in DOMAIN s : s[i] = k})

\* Every scheduleCoroutine call is accounted for: the coroutine is in the
\* ready queue, in the scheduler's hand or collected as completed, once for
\* each call, unless somebody cancelled or suspended it.
NoCallLost ==
    \A k \in Coroutines \ disturbed :
      calls[k] = Count(k, readyQueue) + Count(k, completedCoroutines)
                   + (IF hand = k THEN 1 ELSE 0)

\* A coroutine's function runs at most once, however often it is scheduled
\* and whenever it is cancelled or suspended, between the test and the set of
\* its state too: only a suspend that tested RUNNING and set SUSPENDED after
\* the coroutine had ended makes it run again.
RunsOnce == \A k \in Coroutines \ revived : runs[k] <= 1

============================================================================
