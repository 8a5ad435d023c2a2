---------------------------- MODULE AsyncRuntime ----------------------------
(***************************************************************************)
(* InterpreterCore::AsyncRuntime, AsyncTask and AsyncFunction::call        *)
(* (async_runtime.cpp), over the promises of module Promise.               *)
(*                                                                         *)
(* A call is a task whose function runs the wrapped function and settles   *)
(* the promise call() returned; a job is a task given to submitTask, whose *)
(* caller keeps the AsyncTask.  Workers, clients and the owner (start and  *)
(* stop) interleave at every access to shared state; the queue's mutex is  *)
(* held over single steps, but for the one between a worker's test and its *)
(* block.  resultMutex is taken by waiting clients alone, who do not       *)
(* exclude each other for longer than a test, and is left out.             *)
(***************************************************************************)
EXTENDS Promise

CONSTANTS Jobs,         \* the submitTask calls
          Clients,
          MaxThreads    \* the largest threadCount start is given

Calls == Promises
Tasks == Calls \cup Jobs
Workers == 1..MaxThreads

ASSUME RuntimeAssumption ==
    /\ MaxThreads \in Nat
    /\ Threads = Clients \cup Workers
    /\ Clients \cap Workers = {}
    /\ Calls \cap Jobs = {}
    /\ None \notin Jobs

VARIABLES
    running,         \* AsyncRuntime::running
    size,            \* workerThreads.size()
    wpc,             \* where each worker stands
    hand,            \* its local variable task
    ending,          \* how the function it executes ended
    taskQueue,
    queueMutex,
    activeTasks,
    completedTasks,
    state,           \* AsyncTask::state
    waitsFor,        \* the job each client waits for
    wstage,          \* and where it stands in AsyncTask::wait
    octl,            \* where the owner stands in start or stop
    goal,
    joinNext

taskVars  == <<activeTasks, completedTasks, state>>
waitVars  == <<waitsFor, wstage>>
ownerVars == <<running, size, octl, goal, joinNext>>
workVars  == <<wpc, hand, ending, taskQueue, queueMutex>>
vars == <<promiseVars, taskVars, waitVars, ownerVars, workVars>>

Init ==
    /\ PromiseInit
    /\ running = FALSE
    /\ size = 0
    /\ wpc = [w \in Workers |-> "none"]
    /\ hand = [w \in Workers |-> None]
    /\ ending = [w \in Workers |-> "none"]
    /\ taskQueue = <<>>
    /\ queueMutex = None
    /\ activeTasks = 0
    /\ completedTasks = 0
    /\ state = [t \in Tasks |-> "new"]
    /\ waitsFor = [c \in Clients |-> None]
    /\ wstage = [c \in Clients |-> "idle"]
    /\ octl = "idle"
    /\ goal = 0
    /\ joinNext = 1

----------------------------------------------------------------------------
(* workerThread.                                                           *)

Goto(w, from, to) == wpc[w] = from /\ wpc' = [wpc EXCEPT ![w] = to]

\* while (running), read without the mutex.
TestRunning(w) ==
    /\ Goto(w, "test", IF running THEN "lock" ELSE "exited")
    /\ UNCHANGED <<hand, ending, taskQueue, queueMutex>>
    /\ UNCHANGED <<promiseVars, taskVars, waitVars, ownerVars>>

\* With the mutex: stopped, leave the loop.
LeaveLoop(w) ==
    /\ queueMutex = None
    /\ ~running
    /\ Goto(w, "lock", "exited")
    /\ UNCHANGED <<hand, ending, taskQueue, queueMutex>>
    /\ UNCHANGED <<promiseVars, taskVars, waitVars, ownerVars>>

\* With the mutex: the predicate holds and the front is popped.
TakeTask(w) ==
    /\ queueMutex = None
    /\ running
    /\ taskQueue # <<>>
    /\ Goto(w, "lock", "count")
    /\ hand' = [hand EXCEPT ![w] = Head(taskQueue)]
    /\ taskQueue' = Tail(taskQueue)
    /\ UNCHANGED <<ending, queueMutex>>
    /\ UNCHANGED <<promiseVars, taskVars, waitVars, ownerVars>>

\* With the mutex: the predicate is false, the worker is about to block.
FindNothing(w) ==
    /\ queueMutex = None
    /\ running
    /\ taskQueue = <<>>
    /\ queueMutex' = w
    /\ Goto(w, "lock", "block")
    /\ UNCHANGED <<hand, ending, taskQueue>>
    /\ UNCHANGED <<promiseVars, taskVars, waitVars, ownerVars>>

Block(w) ==
    /\ Goto(w, "block", "waiting")
    /\ queueMutex' = None
    /\ UNCHANGED <<hand, ending, taskQueue>>
    /\ UNCHANGED <<promiseVars, taskVars, waitVars, ownerVars>>

SpuriouslyWoken(w) ==
    /\ Goto(w, "waiting", "lock")
    /\ UNCHANGED <<hand, ending, taskQueue, queueMutex>>
    /\ UNCHANGED <<promiseVars, taskVars, waitVars, ownerVars>>

\* activeTasks++, with the mutex already released.
CountActive(w) ==
    /\ Goto(w, "count", "execute")
    /\ activeTasks' = activeTasks + 1
    /\ UNCHANGED <<hand, ending, taskQueue, queueMutex, completedTasks, state>>
    /\ UNCHANGED <<promiseVars, waitVars, ownerVars>>

\* execute: the state, then the function, which returns or throws.
BeginExecute(w) ==
    /\ Goto(w, "execute", "body")
    /\ state' = [state EXCEPT ![hand[w]] = "RUNNING"]
    /\ UNCHANGED <<hand, ending, taskQueue, queueMutex, activeTasks, completedTasks>>
    /\ UNCHANGED <<promiseVars, waitVars, ownerVars>>

RunFunction(w) ==
    /\ Goto(w, "body", IF hand[w] \in Calls THEN "settle" ELSE "finish")
    /\ \E e \in {"resolved", "rejected"} : ending' = [ending EXCEPT ![w] = e]
    /\ UNCHANGED <<hand, taskQueue, queueMutex>>
    /\ UNCHANGED <<promiseVars, taskVars, waitVars, ownerVars>>

\* Faulty variant of SettleCall: the promise is marked and left at that.
SettleWithoutCallbacks(w) ==
    /\ Goto(w, "settle", "finish")
    /\ settled' = [settled EXCEPT ![hand[w]] = ending[w]]
    /\ UNCHANGED <<busy, todo, callbacks, ran, threw, asked, awaitVars>>
    /\ UNCHANGED <<hand, ending, taskQueue, queueMutex>>
    /\ UNCHANGED <<taskVars, waitVars, ownerVars>>

\* The function of a call settles its promise, which nobody else settles ...
SettleCall(w) ==
    /\ Goto(w, "settle", "callbacks")
    /\ Settle(w, hand[w], ending[w])
    /\ UNCHANGED <<hand, ending, taskQueue, queueMutex>>
    /\ UNCHANGED <<taskVars, waitVars, ownerVars>>

RunCallbackOfCall(w) ==
    /\ wpc[w] = "callbacks"
    /\ RunCallback(w, hand[w])
    /\ UNCHANGED <<taskVars, waitVars, ownerVars, workVars>>

\* ... and fails itself when a callback throws: after resolve the handler
\* calls reject, which finds the promise settled, and rethrows.
FailInCallback(w) ==
    /\ Goto(w, "callbacks", "finish")
    /\ ThrowFromCallback(w, hand[w])
    /\ ending' = [ending EXCEPT ![w] = "rejected"]
    /\ UNCHANGED <<hand, taskQueue, queueMutex>>
    /\ UNCHANGED <<taskVars, waitVars, ownerVars>>

NotifyOfCall(w) ==
    /\ Goto(w, "callbacks", "finish")
    /\ NotifyAwaiting(w, hand[w])
    /\ UNCHANGED <<hand, ending, taskQueue, queueMutex>>
    /\ UNCHANGED <<taskVars, waitVars, ownerVars>>

\* Faulty variant of FinishTask: an exception is not recorded.
FinishCompleted(w) ==
    /\ Goto(w, "finish", "notify")
    /\ state' = [state EXCEPT ![hand[w]] = "COMPLETED"]
    /\ UNCHANGED <<hand, ending, taskQueue, queueMutex, activeTasks, completedTasks>>
    /\ UNCHANGED <<promiseVars, waitVars, ownerVars>>

FinishTask(w) ==
    /\ Goto(w, "finish", "notify")
    /\ state' = [state EXCEPT ![hand[w]] =
                   IF ending[w] = "resolved" THEN "COMPLETED" ELSE "FAILED"]
    /\ UNCHANGED <<hand, ending, taskQueue, queueMutex, activeTasks, completedTasks>>
    /\ UNCHANGED <<promiseVars, waitVars, ownerVars>>

\* resultCondition.notify_all, without resultMutex.
NotifyResult(w) ==
    /\ Goto(w, "notify", "uncount")
    /\ wstage' = [c \in Clients |-> IF wstage[c] = "waiting" /\ waitsFor[c] = hand[w]
                                    THEN "test" ELSE wstage[c]]
    /\ UNCHANGED <<hand, ending, taskQueue, queueMutex, waitsFor>>
    /\ UNCHANGED <<promiseVars, taskVars, ownerVars>>

CountDone(w) ==
    /\ Goto(w, "uncount", "tally")
    /\ activeTasks' = activeTasks - 1
    /\ UNCHANGED <<hand, ending, taskQueue, queueMutex, completedTasks, state, waitVars>>
    /\ UNCHANGED <<promiseVars, ownerVars>>

Tally(w) ==
    /\ Goto(w, "tally", "test")
    /\ completedTasks' = completedTasks + 1
    /\ hand' = [hand EXCEPT ![w] = None]
    /\ ending' = [ending EXCEPT ![w] = "none"]
    /\ UNCHANGED <<taskQueue, queueMutex, activeTasks, state, waitVars>>
    /\ UNCHANGED <<promiseVars, ownerVars>>

Worker(w) ==
    \/ TestRunning(w) \/ LeaveLoop(w) \/ TakeTask(w) \/ FindNothing(w)
    \/ Block(w) \/ SpuriouslyWoken(w) \/ CountActive(w) \/ BeginExecute(w)
    \/ RunFunction(w) \/ SettleCall(w) \/ RunCallbackOfCall(w)
    \/ FailInCallback(w) \/ NotifyOfCall(w) \/ FinishTask(w)
    \/ NotifyResult(w) \/ CountDone(w) \/ Tally(w)

----------------------------------------------------------------------------
(* Clients: AsyncFunction::call and submitTask, AsyncTask::wait (and its    *)
(* likes getResult and getException), and promises.  waitForAllTasks polls  *)
(* activeTasks and changes nothing.                                         *)

Calm(c) == Free(c) /\ wstage[c] = "idle"

\* Faulty variant of Submit: the push without notify_one.
SubmitSilently(c, t) ==
    /\ Calm(c)
    /\ state[t] = "new"
    /\ queueMutex = None
    /\ state' = [state EXCEPT ![t] = "PENDING"]
    /\ taskQueue' = Append(taskQueue, t)
    /\ UNCHANGED <<wpc, hand, ending, queueMutex, activeTasks, completedTasks>>
    /\ UNCHANGED <<promiseVars, waitVars, ownerVars>>

\* submitTask pushes whether the runtime runs or not.  notify_one follows the
\* unlock: a blocked worker wakes if there is one.
Submit(c, t) ==
    /\ Calm(c)
    /\ state[t] = "new"
    /\ queueMutex = None
    /\ state' = [state EXCEPT ![t] = "PENDING"]
    /\ taskQueue' = Append(taskQueue, t)
    /\ \/ \E w \in Workers : Goto(w, "waiting", "lock")
       \/ (\A w \in Workers : wpc[w] # "waiting") /\ UNCHANGED wpc
    /\ UNCHANGED <<hand, ending, queueMutex, activeTasks, completedTasks>>
    /\ UNCHANGED <<promiseVars, waitVars, ownerVars>>

Finished(t) == state[t] \in {"COMPLETED", "FAILED"}

BeginWait(c, t) ==
    /\ Calm(c)
    /\ state[t] # "new"
    /\ waitsFor' = [waitsFor EXCEPT ![c] = t]
    /\ wstage' = [wstage EXCEPT ![c] = "test"]
    /\ UNCHANGED <<promiseVars, taskVars, ownerVars, workVars>>

\* The predicate, and the block of a client that found it false.
TestFinished(c) ==
    /\ wstage[c] = "test"
    /\ wstage' = [wstage EXCEPT ![c] = IF Finished(waitsFor[c]) THEN "idle" ELSE "block"]
    /\ UNCHANGED <<waitsFor, promiseVars, taskVars, ownerVars, workVars>>

BlockClient(c) ==
    /\ wstage[c] = "block"
    /\ wstage' = [wstage EXCEPT ![c] = "waiting"]
    /\ UNCHANGED <<waitsFor, promiseVars, taskVars, ownerVars, workVars>>

UsePromise(c) ==
    /\ wstage[c] = "idle"
    /\ Use(c)
    /\ UNCHANGED <<taskVars, waitVars, ownerVars, workVars>>

Client(c) ==
    \/ \E t \in Tasks : Submit(c, t)
    \/ \E t \in Jobs : BeginWait(c, t)
    \/ TestFinished(c) \/ BlockClient(c)
    \/ UsePromise(c)

----------------------------------------------------------------------------
(* The owner: start and stop.  Neither takes queueMutex.                   *)

Start(n) ==
    /\ octl = "idle" /\ ~running
    /\ running' = TRUE
    /\ octl' = "spawn"
    /\ goal' = n
    /\ UNCHANGED <<size, joinNext, promiseVars, taskVars, waitVars, workVars>>

Spawn ==
    /\ octl = "spawn"
    /\ IF size < goal
       THEN size' = size + 1 /\ wpc' = [wpc EXCEPT ![size + 1] = "test"] /\ UNCHANGED octl
            /\ UNCHANGED goal
       ELSE octl' = "idle" /\ goal' = 0 /\ UNCHANGED <<size, wpc>>
    /\ UNCHANGED <<running, joinNext, hand, ending, taskQueue, queueMutex>>
    /\ UNCHANGED <<promiseVars, taskVars, waitVars>>

Stop ==
    /\ octl = "idle" /\ running
    /\ running' = FALSE
    /\ octl' = "notify"
    /\ UNCHANGED <<size, goal, joinNext, promiseVars, taskVars, waitVars, workVars>>

NotifyWorkers ==
    /\ octl = "notify"
    /\ octl' = "join"
    /\ wpc' = [w \in Workers |-> IF wpc[w] = "waiting" THEN "lock" ELSE wpc[w]]
    /\ UNCHANGED <<running, size, goal, joinNext, hand, ending, taskQueue, queueMutex>>
    /\ UNCHANGED <<promiseVars, taskVars, waitVars>>

\* join for one thread after the other, then workerThreads.clear().
Join ==
    /\ octl = "join"
    /\ IF joinNext <= size
       THEN /\ wpc[joinNext] = "exited"
            /\ joinNext' = joinNext + 1
            /\ UNCHANGED <<size, octl, wpc>>
       ELSE /\ size' = 0
            /\ wpc' = [w \in Workers |-> "none"]
            /\ octl' = "idle"
            /\ joinNext' = 1
    /\ UNCHANGED <<running, goal, hand, ending, taskQueue, queueMutex>>
    /\ UNCHANGED <<promiseVars, taskVars, waitVars>>

Owner == (\E n \in 0..MaxThreads : Start(n)) \/ Spawn \/ Stop \/ NotifyWorkers \/ Join

Next ==
    \/ \E w \in Workers : Worker(w)
    \/ \E c \in Clients : Client(c)
    \/ Owner

Spec == Init /\ [][Next]_vars

\* Workers go on, and get queueMutex and promiseMutex in the end; clients go
\* on inside a call; nothing makes a client submit, wait or use a promise.
Fairness ==
    /\ \A w \in Workers :
         /\ WF_vars(wpc[w] # "waiting" /\ Worker(w))
         /\ SF_vars(TakeTask(w)) /\ SF_vars(SettleCall(w))
    /\ \A c \in Clients :
         WF_vars(TestFinished(c) \/ BlockClient(c)) /\ SF_vars(UsePromise(c) /\ FinishAwait(c))
    /\ WF_vars(Spawn)

FairSpec == Spec /\ Fairness

----------------------------------------------------------------------------
(* Properties.                                                             *)

\* The AsyncTask of a call tells the same story as its promise: completed only
\* if resolved, and failed only if rejected or if a callback threw.
TaskAgreesWithPromise ==
    \A p \in Calls :
      /\ state[p] = "COMPLETED" => settled[p] = "resolved"
      /\ state[p] = "FAILED" => settled[p] = "rejected" \/ p \in threw
      /\ settled[p] # "pending" => state[p] \notin {"new", "PENDING"}

\* While the runtime stays up with a thread, a submitted task finishes and the
\* promise of a call settles.
SubmittedFinishes ==
    \A t \in Tasks : state[t] # "new" /\ size > 0 ~> Finished(t) \/ ~running

\* await returns while the runtime stays up, unless a callback threw.
AwaitedSettles ==
    \A c \in Clients, p \in Calls :
      awaited[c] = p /\ state[p] # "new" /\ size > 0 ~>
        awaited[c] # p \/ ~running \/ p \in threw

============================================================================
