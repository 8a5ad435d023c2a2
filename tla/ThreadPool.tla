----------------------------- MODULE ThreadPool -----------------------------
(***************************************************************************)
(* InterpreterCore::ThreadPool and ThreadPoolTask (concurrency.cpp).       *)
(*                                                                         *)
(* Worker threads, the threads that submit and wait, and the one thread    *)
(* that owns the pool (initialize, resize, shutdown) interleave at every   *)
(* access to state they share.  A condition variable is the set of threads *)
(* blocked on it; a thread that found its predicate false still holds the  *)
(* mutex ("block") until it is in that set ("waiting"), which is where a   *)
(* notification sent without the mutex is lost.  std::function bodies are  *)
(* opaque: they return or throw a std::exception.  Statistics, names,      *)
(* priorities and times are left out.                                      *)
(***************************************************************************)
EXTENDS Naturals, Sequences, FiniteSets, Functions

CONSTANTS Tasks,         \* the submitTask calls the clients make, one task each
          Clients,       \* threads that submit tasks and wait for them
          MaxThreads,    \* the largest size the pool is given
          MaxQueueSize,  \* ThreadPool::maxQueueSize
          None           \* no task, no owner of a mutex

Slots == 1..MaxThreads

ASSUME PoolAssumption ==
    /\ MaxThreads \in Nat
    /\ MaxQueueSize \in Nat
    /\ None \notin Tasks \cup Clients \cup Slots
    /\ Clients \cap Slots = {}

VARIABLES
    size,               \* threads.size(): slots 1..size hold a std::thread
    pc,                 \* where the thread of each slot stands in workerThread
    hand,               \* the local variable task of workerThread
    taskQueue,
    activeTasks,
    completedTasks,
    queueMutex,         \* the slot that holds it, or None
    initialized,
    shutdownRequested,
    running,            \* the tasks with ThreadPoolTask::running set
    outcome,            \* its result or hasErrorFlag
    completed,          \* the tasks with ThreadPoolTask::completed set
    resultMutex,        \* the client that holds the task's resultMutex, or None
    issued,             \* tasks whose submitTask call has begun
    refused,            \* tasks whose submitTask returned nullptr
    cpc,                \* where each client stands
    ctask,              \* the task it is submitting or waiting for
    timed,              \* the clients that wait with a timeout
    handles,            \* the tasks submitTask gave it and it did not wait for yet
    ctl,                \* where the owner stands in initialize, resize or shutdown
    op,                 \* which of the three it executes
    goal,               \* the size asked for
    joinNext            \* the next slot it joins

workerVars == <<pc, hand, taskQueue, activeTasks, completedTasks, queueMutex>>
taskVars   == <<running, outcome, completed, resultMutex>>
clientVars == <<issued, refused, cpc, ctask, timed, handles>>
ownerVars  == <<size, initialized, shutdownRequested, ctl, op, goal, joinNext>>
vars == <<workerVars, taskVars, clientVars, ownerVars>>

Idle == "idle"

WorkerPC == {"none", "test", "lock", "awake", "block", "waiting",
             "run", "body", "mark", "notify", "record", "exited"}
ClientPC == {Idle, "push", "lock", "block", "waiting", "expired"}
OwnerPC  == {Idle, "spawn", "notify", "join"}

Init ==
    /\ size = 0
    /\ pc = [w \in Slots |-> "none"]
    /\ hand = [w \in Slots |-> None]
    /\ taskQueue = <<>>
    /\ activeTasks = {}
    /\ completedTasks = {}
    /\ queueMutex = None
    /\ initialized = FALSE
    /\ shutdownRequested = FALSE
    /\ running = {}
    /\ outcome = [t \in Tasks |-> "none"]
    /\ completed = {}
    /\ resultMutex = [t \in Tasks |-> None]
    /\ issued = {}
    /\ refused = {}
    /\ cpc = [c \in Clients |-> Idle]
    /\ ctask = [c \in Clients |-> None]
    /\ timed = {}
    /\ handles = [c \in Clients |-> {}]
    /\ ctl = Idle
    /\ op = "none"
    /\ goal = 0
    /\ joinNext = 1

----------------------------------------------------------------------------
(* workerThread: one step for every read or write another thread can see.  *)

Goto(w, label) == pc' = [pc EXCEPT ![w] = label]

\* while (!shutdownRequested), read without the mutex.
TestShutdown(w) ==
    /\ pc[w] = "test"
    /\ Goto(w, IF shutdownRequested THEN "exited" ELSE "lock")
    /\ UNCHANGED <<hand, taskQueue, activeTasks, completedTasks, queueMutex>>
    /\ UNCHANGED <<taskVars, clientVars, ownerVars>>

\* Takes queueMutex, at the top of the loop or on waking, and evaluates the
\* predicate of queueCondition.wait.
EvaluatePredicate(w) ==
    /\ pc[w] = "lock"
    /\ queueMutex = None
    /\ queueMutex' = w
    /\ Goto(w, IF shutdownRequested \/ taskQueue # <<>> THEN "awake" ELSE "block")
    /\ UNCHANGED <<hand, taskQueue, activeTasks, completedTasks>>
    /\ UNCHANGED <<taskVars, clientVars, ownerVars>>

\* wait releases the mutex and joins the threads blocked on the condition.
Block(w) ==
    /\ pc[w] = "block"
    /\ queueMutex' = None
    /\ Goto(w, "waiting")
    /\ UNCHANGED <<hand, taskQueue, activeTasks, completedTasks>>
    /\ UNCHANGED <<taskVars, clientVars, ownerVars>>

\* A condition variable may wake a thread that nobody notified.
SpuriousWake(w) ==
    /\ pc[w] = "waiting"
    /\ Goto(w, "lock")
    /\ UNCHANGED <<hand, taskQueue, activeTasks, completedTasks, queueMutex>>
    /\ UNCHANGED <<taskVars, clientVars, ownerVars>>

\* After the wait: if (shutdownRequested) break.
LeaveLoop(w) ==
    /\ pc[w] = "awake"
    /\ shutdownRequested
    /\ queueMutex' = None
    /\ Goto(w, "exited")
    /\ UNCHANGED <<hand, taskQueue, activeTasks, completedTasks>>
    /\ UNCHANGED <<taskVars, clientVars, ownerVars>>

\* if (taskQueue.empty()) continue: the request that ended the wait was
\* withdrawn by the end of resize.
FindNothing(w) ==
    /\ pc[w] = "awake"
    /\ ~shutdownRequested
    /\ taskQueue = <<>>
    /\ queueMutex' = None
    /\ Goto(w, "test")
    /\ UNCHANGED <<hand, taskQueue, activeTasks, completedTasks>>
    /\ UNCHANGED <<taskVars, clientVars, ownerVars>>

\* Faulty variant of TakeTask: the task is not entered in activeTasks.
TakeUntracked(w) ==
    /\ pc[w] = "awake"
    /\ ~shutdownRequested
    /\ taskQueue # <<>>
    /\ hand' = [hand EXCEPT ![w] = Head(taskQueue)]
    /\ taskQueue' = Tail(taskQueue)
    /\ queueMutex' = None
    /\ Goto(w, "run")
    /\ UNCHANGED <<activeTasks, completedTasks, taskVars, clientVars, ownerVars>>

\* The front of the queue moves to activeTasks; the mutex is released.
TakeTask(w) ==
    /\ pc[w] = "awake"
    /\ ~shutdownRequested
    /\ taskQueue # <<>>
    /\ hand' = [hand EXCEPT ![w] = Head(taskQueue)]
    /\ taskQueue' = Tail(taskQueue)
    /\ activeTasks' = activeTasks \cup {Head(taskQueue)}
    /\ queueMutex' = None
    /\ Goto(w, "run")
    /\ UNCHANGED <<completedTasks, taskVars, clientVars, ownerVars>>

\* execute: a task that completed or runs is left alone.
BeginExecute(w) ==
    /\ pc[w] = "run"
    /\ LET t == hand[w] IN
         IF t \in completed \cup running
         THEN /\ Goto(w, "record")
              /\ UNCHANGED running
         ELSE /\ Goto(w, "body")
              /\ running' = running \cup {t}
    /\ UNCHANGED <<hand, taskQueue, activeTasks, completedTasks, queueMutex>>
    /\ UNCHANGED <<outcome, completed, resultMutex, clientVars, ownerVars>>

\* Faulty variant of RunBody: completed is set before the outcome is there.
MarkThenRun(w) ==
    /\ pc[w] = "body"
    /\ completed' = completed \cup {hand[w]}
    /\ Goto(w, "mark")
    /\ UNCHANGED <<hand, taskQueue, activeTasks, completedTasks, queueMutex>>
    /\ UNCHANGED <<running, outcome, resultMutex, clientVars, ownerVars>>

\* function() returns a value, or throws and sets hasErrorFlag.
RunBody(w) ==
    /\ pc[w] = "body"
    /\ \E o \in {"value", "error"} : outcome' = [outcome EXCEPT ![hand[w]] = o]
    /\ Goto(w, "mark")
    /\ UNCHANGED <<hand, taskQueue, activeTasks, completedTasks, queueMutex>>
    /\ UNCHANGED <<running, completed, resultMutex, clientVars, ownerVars>>

\* completed = true, outside resultMutex.
MarkCompleted(w) ==
    /\ pc[w] = "mark"
    /\ completed' = completed \cup {hand[w]}
    /\ Goto(w, "notify")
    /\ UNCHANGED <<hand, taskQueue, activeTasks, completedTasks, queueMutex>>
    /\ UNCHANGED <<running, outcome, resultMutex, clientVars, ownerVars>>

WakeWaiters(t) ==
    cpc' = [c \in Clients |-> IF cpc[c] = "waiting" /\ ctask[c] = t
                              THEN "lock" ELSE cpc[c]]

\* Faulty variant of NotifyWaiters: notify_all without taking resultMutex.
NotifyWithoutMutex(w) ==
    /\ pc[w] = "notify"
    /\ WakeWaiters(hand[w])
    /\ Goto(w, "record")
    /\ UNCHANGED <<hand, taskQueue, activeTasks, completedTasks, queueMutex>>
    /\ UNCHANGED <<issued, refused, ctask, timed, handles, taskVars, ownerVars>>

\* The lock_guard of resultMutex, then completionCondition.notify_all.
NotifyWaiters(w) ==
    /\ pc[w] = "notify"
    /\ resultMutex[hand[w]] = None
    /\ WakeWaiters(hand[w])
    /\ Goto(w, "record")
    /\ UNCHANGED <<hand, taskQueue, activeTasks, completedTasks, queueMutex>>
    /\ UNCHANGED <<issued, refused, ctask, timed, handles, taskVars, ownerVars>>

\* The task moves from activeTasks to completedTasks under queueMutex.
RecordCompletion(w) ==
    /\ pc[w] = "record"
    /\ queueMutex = None
    /\ activeTasks' = activeTasks \ {hand[w]}
    /\ completedTasks' = completedTasks \cup {hand[w]}
    /\ hand' = [hand EXCEPT ![w] = None]
    /\ Goto(w, "test")
    /\ UNCHANGED <<taskQueue, queueMutex, taskVars, clientVars, ownerVars>>

Worker(w) ==
    \/ TestShutdown(w) \/ EvaluatePredicate(w) \/ Block(w) \/ SpuriousWake(w)
    \/ LeaveLoop(w) \/ FindNothing(w) \/ TakeTask(w)
    \/ BeginExecute(w) \/ RunBody(w) \/ MarkCompleted(w)
    \/ NotifyWaiters(w) \/ RecordCompletion(w)

----------------------------------------------------------------------------
(* The clients: submitTask and waitForCompletion.                          *)

ClientGoto(c, label) == cpc' = [cpc EXCEPT ![c] = label]

\* submitTask reads initialized before it takes the mutex.
SubmitTask(c, t) ==
    /\ cpc[c] = Idle
    /\ t \notin issued
    /\ issued' = issued \cup {t}
    /\ IF initialized
       THEN /\ ClientGoto(c, "push")
            /\ ctask' = [ctask EXCEPT ![c] = t]
            /\ UNCHANGED refused
       ELSE /\ refused' = refused \cup {t}
            /\ UNCHANGED <<cpc, ctask>>
    /\ UNCHANGED <<timed, handles, workerVars, taskVars, ownerVars>>

\* notify_one on queueCondition: a blocked worker wakes, if there is one.
NotifyOneWorker ==
    \/ \E w \in Slots : pc[w] = "waiting" /\ Goto(w, "lock")
    \/ (\A w \in Slots : pc[w] # "waiting") /\ UNCHANGED pc

Returned(c) ==
    /\ ClientGoto(c, Idle)
    /\ ctask' = [ctask EXCEPT ![c] = None]

\* Under queueMutex: a full queue refuses the task.
RefuseTask(c) ==
    /\ cpc[c] = "push"
    /\ queueMutex = None
    /\ Len(taskQueue) >= MaxQueueSize
    /\ refused' = refused \cup {ctask[c]}
    /\ Returned(c)
    /\ UNCHANGED <<issued, timed, handles, workerVars, taskVars, ownerVars>>

\* Faulty variant of PushTask: the push without its notification.
PushSilently(c) ==
    /\ cpc[c] = "push"
    /\ queueMutex = None
    /\ Len(taskQueue) < MaxQueueSize
    /\ taskQueue' = Append(taskQueue, ctask[c])
    /\ handles' = [handles EXCEPT ![c] = @ \cup {ctask[c]}]
    /\ Returned(c)
    /\ UNCHANGED <<pc, hand, activeTasks, completedTasks, queueMutex>>
    /\ UNCHANGED <<issued, refused, timed, taskVars, ownerVars>>

PushTask(c) ==
    /\ cpc[c] = "push"
    /\ queueMutex = None
    /\ Len(taskQueue) < MaxQueueSize
    /\ taskQueue' = Append(taskQueue, ctask[c])
    /\ NotifyOneWorker
    /\ handles' = [handles EXCEPT ![c] = @ \cup {ctask[c]}]
    /\ Returned(c)
    /\ UNCHANGED <<hand, activeTasks, completedTasks, queueMutex>>
    /\ UNCHANGED <<issued, refused, timed, taskVars, ownerVars>>

\* waitForCompletion, with a timeout or without; parallelExecute and
\* waitForAll call it for one handle after another.
BeginWait(c, t, withTimeout) ==
    /\ cpc[c] = Idle
    /\ t \in handles[c]
    /\ ClientGoto(c, "lock")
    /\ ctask' = [ctask EXCEPT ![c] = t]
    /\ timed' = IF withTimeout THEN timed \cup {c} ELSE timed \ {c}
    /\ UNCHANGED <<issued, refused, handles, workerVars, taskVars, ownerVars>>

\* Takes resultMutex and evaluates the predicate: completed ends the wait.
CheckCompleted(c) ==
    /\ cpc[c] = "lock"
    /\ resultMutex[ctask[c]] = None
    /\ IF ctask[c] \in completed
       THEN /\ handles' = [handles EXCEPT ![c] = @ \ {ctask[c]}]
            /\ Returned(c)
            /\ UNCHANGED resultMutex
       ELSE /\ resultMutex' = [resultMutex EXCEPT ![ctask[c]] = c]
            /\ ClientGoto(c, "block")
            /\ UNCHANGED <<handles, ctask>>
    /\ UNCHANGED <<issued, refused, timed, running, outcome, completed>>
    /\ UNCHANGED <<workerVars, ownerVars>>

BlockClient(c) ==
    /\ cpc[c] = "block"
    /\ resultMutex' = [resultMutex EXCEPT ![ctask[c]] = None]
    /\ ClientGoto(c, "waiting")
    /\ UNCHANGED <<issued, refused, ctask, timed, handles, running, outcome, completed>>
    /\ UNCHANGED <<workerVars, ownerVars>>

\* A client may wake without a notification too; wait_for gives up.
WakeClient(c) ==
    /\ cpc[c] = "waiting"
    /\ \/ ClientGoto(c, "lock")
       \/ c \in timed /\ ClientGoto(c, "expired")
    /\ UNCHANGED <<issued, refused, ctask, timed, handles>>
    /\ UNCHANGED <<workerVars, taskVars, ownerVars>>

\* wait_for returns its predicate: a caller that got false keeps its handle.
ReturnExpired(c) ==
    /\ cpc[c] = "expired"
    /\ resultMutex[ctask[c]] = None
    /\ handles' = [handles EXCEPT ![c] =
                     IF ctask[c] \in completed THEN @ \ {ctask[c]} ELSE @]
    /\ Returned(c)
    /\ UNCHANGED <<issued, refused, timed, workerVars, taskVars, ownerVars>>

Client(c) ==
    \/ \E t \in Tasks : SubmitTask(c, t)
    \/ RefuseTask(c) \/ PushTask(c)
    \/ \E t \in Tasks, b \in BOOLEAN : BeginWait(c, t, b)
    \/ CheckCompleted(c) \/ BlockClient(c) \/ WakeClient(c) \/ ReturnExpired(c)

----------------------------------------------------------------------------
(* The owner: initialize, resize, shutdown.  None of them takes queueMutex. *)

Initialize(n) ==
    /\ ctl = Idle
    /\ ~initialized
    /\ shutdownRequested' = FALSE
    /\ ctl' = "spawn"
    /\ op' = "initialize"
    /\ goal' = n
    /\ UNCHANGED <<size, initialized, joinNext, workerVars, taskVars, clientVars>>

Grow(n) ==
    /\ ctl = Idle
    /\ initialized
    /\ n > size
    /\ ctl' = "spawn"
    /\ op' = "grow"
    /\ goal' = n
    /\ UNCHANGED <<size, initialized, shutdownRequested, joinNext>>
    /\ UNCHANGED <<workerVars, taskVars, clientVars>>

\* threads.emplace_back: the new thread begins at the top of workerThread.
Spawn ==
    /\ ctl = "spawn"
    /\ size < goal
    /\ size' = size + 1
    /\ Goto(size + 1, "test")
    /\ UNCHANGED <<hand, taskQueue, activeTasks, completedTasks, queueMutex>>
    /\ UNCHANGED <<initialized, shutdownRequested, ctl, op, goal, joinNext>>
    /\ UNCHANGED <<taskVars, clientVars>>

FinishSpawning ==
    /\ ctl = "spawn"
    /\ size >= goal
    /\ initialized' = TRUE
    /\ ctl' = Idle
    /\ UNCHANGED <<size, shutdownRequested, op, goal, joinNext>>
    /\ UNCHANGED <<workerVars, taskVars, clientVars>>

\* shutdownRequested = true, without queueMutex, by shutdown and by a resize
\* to fewer threads.
RequestExit(what, n, firstJoined) ==
    /\ ctl = Idle
    /\ initialized
    /\ shutdownRequested' = TRUE
    /\ ctl' = "notify"
    /\ op' = what
    /\ goal' = n
    /\ joinNext' = firstJoined
    /\ UNCHANGED <<size, initialized, workerVars, taskVars, clientVars>>

Shutdown == RequestExit("shutdown", 0, 1)

Shrink(n) ==
    /\ n < size
    /\ RequestExit("shrink", n, n + 1)

\* queueCondition.notify_all reaches the workers blocked by now.
NotifyAllWorkers ==
    /\ ctl = "notify"
    /\ pc' = [w \in Slots |-> IF pc[w] = "waiting" THEN "lock" ELSE pc[w]]
    /\ ctl' = "join"
    /\ UNCHANGED <<hand, taskQueue, activeTasks, completedTasks, queueMutex>>
    /\ UNCHANGED <<size, initialized, shutdownRequested, op, goal, joinNext>>
    /\ UNCHANGED <<taskVars, clientVars>>

\* Faulty variant of Join: the thread is detached, not joined.
Detach ==
    /\ ctl = "join"
    /\ joinNext <= size
    /\ joinNext' = joinNext + 1
    /\ UNCHANGED <<size, initialized, shutdownRequested, ctl, op, goal>>
    /\ UNCHANGED <<workerVars, taskVars, clientVars>>

Join ==
    /\ ctl = "join"
    /\ joinNext <= size
    /\ pc[joinNext] = "exited"
    /\ joinNext' = joinNext + 1
    /\ UNCHANGED <<size, initialized, shutdownRequested, ctl, op, goal>>
    /\ UNCHANGED <<workerVars, taskVars, clientVars>>

\* threads.clear() or threads.resize(newSize), and the flags.  Only the slots
\* above the new size are joined and dropped.
FinishJoining ==
    /\ ctl = "join"
    /\ joinNext > size
    /\ pc' = [w \in Slots |-> IF w \in (goal + 1)..size THEN "none" ELSE pc[w]]
    /\ size' = goal
    /\ ctl' = Idle
    /\ initialized' = (op = "shrink")
    /\ shutdownRequested' = (op = "shutdown")
    /\ UNCHANGED <<hand, taskQueue, activeTasks, completedTasks, queueMutex>>
    /\ UNCHANGED <<op, goal, joinNext, taskVars, clientVars>>

Owner ==
    \/ \E n \in 0..MaxThreads : Initialize(n) \/ Grow(n) \/ Shrink(n)
    \/ Shutdown \/ Spawn \/ FinishSpawning
    \/ NotifyAllWorkers \/ Join \/ FinishJoining

Next ==
    \/ \E w \in Slots : Worker(w)
    \/ \E c \in Clients : Client(c)
    \/ Owner

Spec == Init /\ [][Next]_vars

\* The owner starts the pool and may enlarge it, and does not stop it.
SteadyOwner ==
    \/ \E n \in 0..MaxThreads : Initialize(n) \/ Grow(n)
    \/ Spawn \/ FinishSpawning

SteadyNext ==
    \/ \E w \in Slots : Worker(w)
    \/ \E c \in Clients : Client(c)
    \/ SteadyOwner

\* The steps of a worker, of a client inside a call and of the owner inside an
\* operation; the second of each kind competes for a mutex.
WorkerStep(w) ==
    \/ TestShutdown(w) \/ Block(w) \/ LeaveLoop(w) \/ FindNothing(w) \/ TakeTask(w)
    \/ BeginExecute(w) \/ RunBody(w) \/ MarkCompleted(w)
WorkerLocks(w) == EvaluatePredicate(w) \/ NotifyWaiters(w) \/ RecordCompletion(w)
ClientLocks(c) ==
    PushTask(c) \/ RefuseTask(c) \/ CheckCompleted(c) \/ ReturnExpired(c)
OwnerStep == Spawn \/ FinishSpawning \/ NotifyAllWorkers \/ Join \/ FinishJoining

\* A thread that can take a step takes it, and one that competes for a mutex
\* gets it in the end.  Nothing makes a client submit or wait, the owner call
\* an operation, or a condition variable wake a thread spuriously.
Fairness ==
    /\ \A w \in Slots : WF_vars(WorkerStep(w)) /\ SF_vars(WorkerLocks(w))
    /\ \A c \in Clients : WF_vars(BlockClient(c)) /\ SF_vars(ClientLocks(c))
    /\ WF_vars(OwnerStep)

SteadySpec == Init /\ [][SteadyNext]_vars /\ Fairness

----------------------------------------------------------------------------
(* Properties.                                                             *)

Queued == Range(taskQueue)

FlagsOK ==
    /\ initialized \in BOOLEAN
    /\ shutdownRequested \in BOOLEAN

StructureOK ==
    /\ size \in 0..MaxThreads
    /\ pc \in [Slots -> WorkerPC]
    /\ hand \in [Slots -> Tasks \cup {None}]
    /\ taskQueue \in Seq(Tasks)
    /\ activeTasks \subseteq Tasks
    /\ completedTasks \subseteq Tasks
    /\ queueMutex \in Slots \cup {None}
    /\ running \subseteq Tasks
    /\ outcome \in [Tasks -> {"none", "value", "error"}]
    /\ completed \subseteq Tasks
    /\ resultMutex \in [Tasks -> Clients \cup {None}]
    /\ issued \subseteq Tasks
    /\ refused \subseteq Tasks
    /\ cpc \in [Clients -> ClientPC]
    /\ ctask \in [Clients -> Tasks \cup {None}]
    /\ timed \subseteq Clients
    /\ handles \in [Clients -> SUBSET Tasks]
    /\ ctl \in OwnerPC
    /\ op \in {"none", "initialize", "grow", "shrink", "shutdown"}
    /\ goal \in 0..MaxThreads
    /\ joinNext \in 1..(MaxThreads + 1)

TypeOK == StructureOK /\ FlagsOK

\* A thread that reads completed finds the result or the error already
\* there: isCompleted, getResult and waitForAny take no mutex.
OutcomeBeforeCompletion ==
    \A t \in completed : outcome[t] # "none"

\* No client stays blocked on a task that is complete: as long as it is, the
\* worker that completed the task has its notify_all still to come.
NoLostCompletion ==
    \A c \in Clients :
      cpc[c] = "waiting" /\ ctask[c] \in completed =>
        \E w \in Slots : hand[w] = ctask[c] /\ pc[w] = "notify"

\* When shutdown returns no thread is left and no task is half done.
ShutdownQuiesces ==
    ctl = Idle /\ ~initialized =>
      /\ size = 0
      /\ activeTasks = {}
      /\ \A w \in Slots : pc[w] = "none" /\ hand[w] = None

\* Seen from outside the pool is a TaskLifecycle.
statusOf == [t \in Tasks |->
    IF t \in completed THEN "done"
    ELSE IF t \in activeTasks THEN "running"
    ELSE IF t \in Queued THEN "queued"
    ELSE IF t \in refused THEN "refused" ELSE "new"]

Lifecycle == INSTANCE TaskLifecycle WITH status <- statusOf, Limit <- MaxThreads

ImplementsLifecycle == Lifecycle!Spec

\* Once the pool has a thread, a queued task completes.
QueuedTaskCompletes ==
    \A t \in Tasks : t \in Queued /\ size > 0 ~> t \in completed

============================================================================
