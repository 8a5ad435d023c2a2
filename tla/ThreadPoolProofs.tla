-------------------------- MODULE ThreadPoolProofs --------------------------
(***************************************************************************)
(* What ThreadPool guarantees for every number of tasks, clients, threads  *)
(* and every queue bound.  Each theorem has the same shape: the property,  *)
(* strengthened until it is inductive, holds initially and is kept by      *)
(* every action.  That the pool implements TaskLifecycle, and is at rest   *)
(* when it was shut down, both rest on where a task can be: in the hands   *)
(* of the client that submits it, in the queue, with one worker, or done,  *)
(* and in one of these places at a time.                                   *)
(***************************************************************************)
EXTENDS ThreadPool, SequenceLemmas, FiniteSetTheorems, TLAPS

USE PoolAssumption DEF PoolAssumption, Slots

\* A worker past TakeTask holds a task, a client inside a call has one.
Holding == {"run", "body", "mark", "notify", "record"}

InHandOK ==
    /\ \A w \in Slots : pc[w] \in Holding => hand[w] \in Tasks
    /\ \A c \in Clients : cpc[c] # Idle => ctask[c] \in Tasks

Structure == StructureOK /\ InHandOK

\* The structured variables keep their types.
LEMMA StructureCorrect == Spec => []Structure
<1>1. Init => Structure
  BY DEF Init, Structure, StructureOK, InHandOK, Holding, WorkerPC, ClientPC, OwnerPC, Idle
<1>2. Structure /\ [Next]_vars => Structure'
  <2> SUFFICES ASSUME Structure, [Next]_vars PROVE Structure'
    OBVIOUS
  <2> USE DEF Structure, StructureOK, InHandOK, Holding, WorkerPC, ClientPC, OwnerPC, Idle, Goto, ClientGoto,
              workerVars, taskVars, clientVars, ownerVars
  <2>1. ASSUME NEW w \in Slots, Worker(w) PROVE Structure'
    <3>1. CASE TestShutdown(w) \/ EvaluatePredicate(w) \/ Block(w)
      <4>1. CASE TestShutdown(w)
        BY <4>1 DEF TestShutdown
      <4>2. CASE EvaluatePredicate(w)
        BY <4>2 DEF EvaluatePredicate
      <4>3. CASE Block(w)
        BY <4>3 DEF Block
      <4> QED BY <3>1, <4>1, <4>2, <4>3
    <3>2. CASE SpuriousWake(w) \/ LeaveLoop(w) \/ FindNothing(w)
      <4>1. CASE SpuriousWake(w)
        BY <4>1 DEF SpuriousWake
      <4>2. CASE LeaveLoop(w)
        BY <4>2 DEF LeaveLoop
      <4>3. CASE FindNothing(w)
        BY <4>3 DEF FindNothing
      <4> QED BY <3>2, <4>1, <4>2, <4>3
    <3>3. CASE TakeTask(w)
      BY <3>3 DEF TakeTask
    <3>4. CASE BeginExecute(w)
      BY <3>4 DEF BeginExecute
    <3>5. CASE RunBody(w)
      <4>1. PICK o \in {"value", "error"} : outcome' = [outcome EXCEPT ![hand[w]] = o]
        BY <3>5 DEF RunBody
      <4>2. outcome' \in [Tasks -> {"none", "value", "error"}]
        BY <4>1
      <4> QED BY <3>5, <4>2 DEF RunBody
    <3>8. CASE MarkCompleted(w)
      BY <3>8 DEF MarkCompleted
    <3>6. CASE NotifyWaiters(w)
      BY <3>6 DEF NotifyWaiters, WakeWaiters
    <3>7. CASE RecordCompletion(w)
      BY <3>7 DEF RecordCompletion
    <3> QED BY <2>1, <3>1, <3>2, <3>3, <3>4, <3>5, <3>6, <3>7, <3>8 DEF Worker
  <2>2. ASSUME NEW c \in Clients, Client(c) PROVE Structure'
    <3>1. ASSUME NEW t \in Tasks, SubmitTask(c, t) PROVE Structure'
      <4>1. CASE initialized
        <5>1. /\ issued' = issued \cup {t}
              /\ cpc' = [cpc EXCEPT ![c] = "push"]
              /\ ctask' = [ctask EXCEPT ![c] = t]
              /\ UNCHANGED <<refused, timed, handles, workerVars, taskVars, ownerVars>>
          BY <3>1, <4>1 DEF SubmitTask
        <5> QED BY <5>1
      <4>2. CASE ~initialized
        BY <3>1, <4>2 DEF SubmitTask
      <4> QED BY <4>1, <4>2
    <3>2. CASE RefuseTask(c)
      BY <3>2 DEF RefuseTask, Returned
    <3>3. CASE PushTask(c)
      BY <3>3 DEF PushTask, Returned, NotifyOneWorker
    <3>4. ASSUME NEW t \in Tasks, NEW b \in BOOLEAN, BeginWait(c, t, b) PROVE Structure'
      BY <3>4 DEF BeginWait
    <3>5. CASE CheckCompleted(c)
      <4>1. CASE ctask[c] \in completed
        <5>1. /\ handles' = [handles EXCEPT ![c] = @ \ {ctask[c]}]
              /\ cpc' = [cpc EXCEPT ![c] = "idle"]
              /\ ctask' = [ctask EXCEPT ![c] = None]
              /\ UNCHANGED <<resultMutex, issued, refused, timed>>
              /\ UNCHANGED <<running, outcome, completed, workerVars, ownerVars>>
          BY <3>5, <4>1 DEF CheckCompleted, Returned
        <5> QED BY <5>1
      <4>2. CASE ctask[c] \notin completed
        <5>1. /\ resultMutex' = [resultMutex EXCEPT ![ctask[c]] = c]
              /\ cpc' = [cpc EXCEPT ![c] = "block"]
              /\ cpc[c] = "lock"
              /\ UNCHANGED <<handles, ctask, issued, refused, timed>>
              /\ UNCHANGED <<running, outcome, completed, workerVars, ownerVars>>
          BY <3>5, <4>2 DEF CheckCompleted
        <5> QED BY <5>1
      <4> QED BY <4>1, <4>2
    <3>6. CASE BlockClient(c) \/ WakeClient(c)
      <4>1. CASE BlockClient(c)
        BY <4>1 DEF BlockClient
      <4>2. CASE WakeClient(c)
        <5>1. PICK p \in {"lock", "expired"} : cpc' = [cpc EXCEPT ![c] = p]
          BY <4>2 DEF WakeClient
        <5> QED BY <4>2, <5>1 DEF WakeClient
      <4> QED BY <3>6, <4>1, <4>2
    <3>7. CASE ReturnExpired(c)
      BY <3>7 DEF ReturnExpired, Returned
    <3> QED BY <2>2, <3>1, <3>2, <3>3, <3>4, <3>5, <3>6, <3>7 DEF Client
  <2>3. ASSUME Owner PROVE Structure'
    <3>1. ASSUME NEW n \in 0..MaxThreads, Initialize(n) \/ Grow(n) PROVE Structure'
      <4>1. CASE Initialize(n)
        BY <4>1 DEF Initialize
      <4>2. CASE Grow(n)
        BY <4>2 DEF Grow
      <4> QED BY <3>1, <4>1, <4>2
    <3>2. ASSUME NEW n \in 0..MaxThreads, Shrink(n) PROVE Structure'
      BY <3>2 DEF Shrink, RequestExit
    <3>3. CASE Shutdown
      BY <3>3 DEF Shutdown, RequestExit
    <3>4. CASE Spawn \/ FinishSpawning
      <4>1. CASE Spawn
        BY <4>1 DEF Spawn
      <4>2. CASE FinishSpawning
        BY <4>2 DEF FinishSpawning
      <4> QED BY <3>4, <4>1, <4>2
    <3>5. CASE NotifyAllWorkers \/ Join \/ FinishJoining
      <4>1. CASE NotifyAllWorkers
        BY <4>1 DEF NotifyAllWorkers
      <4>2. CASE Join
        BY <4>2 DEF Join
      <4>3. CASE FinishJoining
        BY <4>3 DEF FinishJoining
      <4> QED BY <3>5, <4>1, <4>2, <4>3
    <3> QED BY <2>3, <3>1, <3>2, <3>3, <3>4, <3>5 DEF Owner
  <2>4. CASE UNCHANGED vars
    BY <2>4 DEF vars
  <2> QED BY <2>1, <2>2, <2>3, <2>4 DEF Next
<1> QED BY <1>1, <1>2, PTL DEF Spec

\* The atomic flags are Boolean: every assignment to them is a truth value.
LEMMA FlagsCorrect == Spec => []FlagsOK
<1>1. Init => FlagsOK
  BY DEF Init, FlagsOK
<1>2. FlagsOK /\ [Next]_vars => FlagsOK'
  <2> SUFFICES ASSUME FlagsOK, [Next]_vars PROVE FlagsOK'
    OBVIOUS
  <2>1. CASE UNCHANGED <<initialized, shutdownRequested>>
    BY <2>1 DEF FlagsOK
  <2>2. ASSUME NEW n \in 0..MaxThreads, Initialize(n) \/ Shrink(n) PROVE FlagsOK'
    BY <2>2 DEF FlagsOK, Initialize, Shrink, RequestExit
  <2>3. CASE Shutdown \/ FinishSpawning \/ FinishJoining
    BY <2>3 DEF FlagsOK, Shutdown, RequestExit, FinishSpawning, FinishJoining
  <2>4. ASSUME NEW w \in Slots, Worker(w) PROVE UNCHANGED ownerVars
    BY <2>4 DEF Worker, TestShutdown, EvaluatePredicate, Block, SpuriousWake, LeaveLoop,
       FindNothing, TakeTask, BeginExecute, RunBody, MarkCompleted, NotifyWaiters,
       RecordCompletion
  <2>5. ASSUME NEW c \in Clients, Client(c) PROVE UNCHANGED ownerVars
    BY <2>5 DEF Client, SubmitTask, RefuseTask, PushTask, BeginWait, CheckCompleted,
       BlockClient, WakeClient, ReturnExpired
  <2>6. CASE Spawn \/ NotifyAllWorkers \/ Join \/ \E n \in 0..MaxThreads : Grow(n)
    BY <2>1, <2>6 DEF Spawn, NotifyAllWorkers, Join, Grow
  <2> QED BY <2>1, <2>2, <2>3, <2>4, <2>5, <2>6 DEF Next, Owner, vars, ownerVars
<1> QED BY <1>1, <1>2, PTL DEF Spec

\* Every variable has its type, for every number of tasks, clients and threads.
THEOREM TypeCorrect == Spec => []TypeOK
BY StructureCorrect, FlagsCorrect, PTL DEF TypeOK, Structure

----------------------------------------------------------------------------
(* The owner and the slots: a slot above size has no thread, and the       *)
(* threads a join has passed are gone.  So a worker's thread is never      *)
(* dropped or overwritten while it works on a task.                        *)

SlotsInv ==
    /\ \A w \in Slots : w > size => pc[w] = "none"
    /\ ctl \in {"notify", "join"} => goal <= size /\ joinNext > goal
    /\ ctl = "join" => \A w \in Slots : w > goal /\ w < joinNext => pc[w] = "exited"
    /\ ctl = "notify" => joinNext = goal + 1

\* A worker moves its own program counter and hand alone, and only while its
\* thread exists and has not left the loop.
LEMMA WorkerFrame ==
    ASSUME Structure, NEW w \in Slots, Worker(w)
    PROVE  /\ pc[w] \notin {"none", "exited"}
           /\ pc' \in [Slots -> WorkerPC]
           /\ \A v \in Slots : v # w => pc'[v] = pc[v] /\ hand'[v] = hand[v]
           /\ UNCHANGED ownerVars
<1> USE DEF Structure, StructureOK, WorkerPC, Goto
<1>1. CASE TestShutdown(w) \/ EvaluatePredicate(w) \/ Block(w)
  BY <1>1 DEF TestShutdown, EvaluatePredicate, Block
<1>2. CASE SpuriousWake(w) \/ LeaveLoop(w) \/ FindNothing(w)
  BY <1>2 DEF SpuriousWake, LeaveLoop, FindNothing
<1>3. CASE TakeTask(w) \/ RecordCompletion(w)
  BY <1>3 DEF TakeTask, RecordCompletion
<1>4. CASE BeginExecute(w)
  BY <1>4 DEF BeginExecute
<1>5. CASE RunBody(w) \/ MarkCompleted(w) \/ NotifyWaiters(w)
  BY <1>5 DEF RunBody, MarkCompleted, NotifyWaiters
<1> QED BY <1>1, <1>2, <1>3, <1>4, <1>5 DEF Worker

\* A client changes no program counter of a worker but to wake one.
LEMMA ClientFrame ==
    ASSUME Structure, NEW c \in Clients, Client(c)
    PROVE  /\ pc' \in [Slots -> WorkerPC]
           /\ \A v \in Slots : pc'[v] = pc[v] \/ (pc[v] = "waiting" /\ pc'[v] = "lock")
           /\ UNCHANGED <<hand, ownerVars>>
<1> USE DEF Structure, StructureOK, WorkerPC, Goto, workerVars
<1>1. CASE PushTask(c)
  BY <1>1 DEF PushTask, NotifyOneWorker
<1>2. CASE RefuseTask(c) \/ CheckCompleted(c) \/ BlockClient(c)
  BY <1>2 DEF RefuseTask, CheckCompleted, BlockClient
<1>3. CASE WakeClient(c) \/ ReturnExpired(c)
  BY <1>3 DEF WakeClient, ReturnExpired
<1>4. ASSUME NEW t \in Tasks, SubmitTask(c, t) \/ \E b \in BOOLEAN : BeginWait(c, t, b)
      PROVE  UNCHANGED <<pc, hand, ownerVars>>
  BY <1>4 DEF SubmitTask, BeginWait
<1> QED BY <1>1, <1>2, <1>3, <1>4 DEF Client

\* Slots beyond the size of the pool have no thread; a shrinking owner takes them
\* one after the other.
LEMMA SlotsCorrect == Spec => []SlotsInv
<1>1. Init => SlotsInv
  BY DEF Init, SlotsInv, Idle
<1>2. Structure /\ SlotsInv /\ [Next]_vars => SlotsInv'
  <2> SUFFICES ASSUME Structure, SlotsInv, [Next]_vars PROVE SlotsInv'
    OBVIOUS
  <2>1. ASSUME NEW w \in Slots, Worker(w) PROVE SlotsInv'
    BY <2>1, WorkerFrame DEF SlotsInv, ownerVars
  <2>2. ASSUME NEW c \in Clients, Client(c) PROVE SlotsInv'
    BY <2>2, ClientFrame DEF SlotsInv, ownerVars
  <2>3. ASSUME Owner PROVE SlotsInv'
    <3> USE DEF SlotsInv, Structure, StructureOK, OwnerPC, Idle, Goto, workerVars
    <3>1. ASSUME NEW n \in 0..MaxThreads, Initialize(n) \/ Grow(n) PROVE SlotsInv'
      BY <3>1 DEF Initialize, Grow
    <3>2. ASSUME NEW n \in 0..MaxThreads, Shrink(n) PROVE SlotsInv'
      BY <3>2 DEF Shrink, RequestExit
    <3>3. CASE Shutdown
      BY <3>3 DEF Shutdown, RequestExit
    <3>4. CASE Spawn \/ FinishSpawning
      BY <3>4 DEF Spawn, FinishSpawning
    <3>5. CASE NotifyAllWorkers \/ Join
      BY <3>5 DEF NotifyAllWorkers, Join
    <3>6. CASE FinishJoining
      BY <3>6 DEF FinishJoining
    <3> QED BY <2>3, <3>1, <3>2, <3>3, <3>4, <3>5, <3>6 DEF Owner
  <2>4. CASE UNCHANGED vars
    BY <2>4 DEF vars, workerVars, ownerVars, SlotsInv
  <2> QED BY <2>1, <2>2, <2>3, <2>4 DEF Next
<1> QED BY <1>1, <1>2, StructureCorrect, PTL DEF Spec

\* The owner starts threads, wakes blocked ones and drops exited ones: it
\* moves no worker that holds a task, and changes nothing of tasks or clients.
LEMMA OwnerFrame ==
    ASSUME Structure, SlotsInv, Owner
    PROVE  /\ \A v \in Slots : pc[v] \in Holding \/ pc'[v] \in Holding => pc'[v] = pc[v]
           /\ UNCHANGED <<hand, taskQueue, activeTasks, completedTasks, queueMutex>>
           /\ UNCHANGED <<taskVars, clientVars>>
<1> USE DEF Structure, StructureOK, SlotsInv, Holding, WorkerPC, OwnerPC, Goto, workerVars
<1>1. ASSUME NEW n \in 0..MaxThreads, Initialize(n) \/ Grow(n)
      PROVE  UNCHANGED <<workerVars, taskVars, clientVars>>
  BY <1>1 DEF Initialize, Grow
<1>2. ASSUME NEW n \in 0..MaxThreads, Shrink(n)
      PROVE  UNCHANGED <<workerVars, taskVars, clientVars>>
  BY <1>2 DEF Shrink, RequestExit
<1>3. CASE Shutdown
  BY <1>3 DEF Shutdown, RequestExit
<1>4. CASE FinishSpawning
  BY <1>4 DEF FinishSpawning
<1>7. CASE Spawn
  <2>1. /\ size + 1 \in Slots
        /\ pc[size + 1] = "none"
        /\ pc' = [pc EXCEPT ![size + 1] = "test"]
    BY <1>7 DEF Spawn
  <2>2. UNCHANGED <<hand, taskQueue, activeTasks, completedTasks, queueMutex, taskVars, clientVars>>
    BY <1>7 DEF Spawn
  <2> QED BY <2>1, <2>2
<1>5. CASE NotifyAllWorkers \/ Join
  BY <1>5 DEF NotifyAllWorkers, Join
<1>6. CASE FinishJoining
  <2>1. /\ \A w \in Slots : w > goal /\ w <= size => pc[w] = "exited"
        /\ pc' = [w \in Slots |-> IF w \in (goal + 1)..size THEN "none" ELSE pc[w]]
    BY <1>6 DEF FinishJoining
  <2>2. UNCHANGED <<hand, taskQueue, activeTasks, completedTasks, queueMutex, taskVars, clientVars>>
    BY <1>6 DEF FinishJoining
  <2>3. \A v \in Slots : v \in (goal + 1)..size => v > goal /\ v <= size
    OBVIOUS
  <2>4. \A v \in Slots : pc[v] \in Holding \/ pc'[v] \in Holding => pc'[v] = pc[v]
    BY <2>1, <2>3
  <2> QED BY <2>2, <2>4
<1> QED BY <1>1, <1>2, <1>3, <1>4, <1>5, <1>6, <1>7 DEF Owner

----------------------------------------------------------------------------
(* completed is set last: the worker that is about to set it has stored    *)
(* the outcome, and no step erases an outcome.                             *)

OutcomeInv ==
    /\ OutcomeBeforeCompletion
    /\ \A w \in Slots : pc[w] = "mark" => outcome[hand[w]] # "none"

\* Whoever reads completed without a lock (isCompleted, getResult, waitForAny)
\* finds the result or the error of execute.
THEOREM OutcomeCorrect == Spec => []OutcomeBeforeCompletion
<1>1. Init => OutcomeInv
  BY DEF Init, OutcomeInv, OutcomeBeforeCompletion
<1>2. Structure /\ SlotsInv /\ OutcomeInv /\ [Next]_vars => OutcomeInv'
  <2> SUFFICES ASSUME Structure, SlotsInv, OutcomeInv, [Next]_vars PROVE OutcomeInv'
    OBVIOUS
  <2> USE DEF OutcomeInv, OutcomeBeforeCompletion, taskVars
  <2>1. ASSUME NEW w \in Slots, Worker(w) PROVE OutcomeInv'
    <3> USE DEF Structure, StructureOK, InHandOK, Holding, Goto
    <3>1. CASE TestShutdown(w) \/ EvaluatePredicate(w) \/ Block(w)
      BY <3>1 DEF TestShutdown, EvaluatePredicate, Block
    <3>2. CASE SpuriousWake(w) \/ LeaveLoop(w) \/ FindNothing(w)
      BY <3>2 DEF SpuriousWake, LeaveLoop, FindNothing
    <3>3. CASE TakeTask(w) \/ RecordCompletion(w)
      BY <3>3 DEF TakeTask, RecordCompletion
    <3>4. CASE BeginExecute(w)
      BY <3>4 DEF BeginExecute
    <3>5. CASE RunBody(w)
      <4>1. PICK o \in {"value", "error"} : outcome' = [outcome EXCEPT ![hand[w]] = o]
        BY <3>5 DEF RunBody
      <4>2. /\ hand[w] \in Tasks
            /\ \A t \in Tasks : outcome'[t] = IF t = hand[w] THEN o ELSE outcome[t]
        BY <3>5, <4>1 DEF RunBody
      <4> QED BY <3>5, <4>2 DEF RunBody
    <3>6. CASE MarkCompleted(w) \/ NotifyWaiters(w)
      BY <3>6 DEF MarkCompleted, NotifyWaiters
    <3> QED BY <2>1, <3>1, <3>2, <3>3, <3>4, <3>5, <3>6 DEF Worker
  <2>2. ASSUME NEW c \in Clients, Client(c) PROVE OutcomeInv'
    <3>1. UNCHANGED <<outcome, completed>>
      BY <2>2 DEF Client, SubmitTask, RefuseTask, PushTask, BeginWait, CheckCompleted,
         BlockClient, WakeClient, ReturnExpired
    <3> QED BY <2>2, <3>1, ClientFrame
  <2>3. CASE Owner
    BY <2>3, OwnerFrame DEF Holding
  <2>4. CASE UNCHANGED vars
    BY <2>4 DEF vars, workerVars
  <2> QED BY <2>1, <2>2, <2>3, <2>4 DEF Next
<1>3. OutcomeInv => OutcomeBeforeCompletion
  BY DEF OutcomeInv
<1> QED BY <1>1, <1>2, <1>3, StructureCorrect, SlotsCorrect, PTL DEF Spec

----------------------------------------------------------------------------
(* The wait for a completion.  A client between its test and its block     *)
(* holds resultMutex, and the worker notifies under that mutex: so a       *)
(* client that sleeps on a completed task still has its notification       *)
(* ahead of it.                                                            *)

BlockedInv ==
    /\ \A c \in Clients : cpc[c] = "block" => resultMutex[ctask[c]] = c
    /\ \A c \in Clients :
         cpc[c] \in {"block", "waiting"} /\ ctask[c] \in completed =>
           \E w \in Slots : hand[w] = ctask[c] /\ pc[w] = "notify"

\* No client of waitForCompletion sleeps through the completion of its task.
THEOREM NoLostCompletionCorrect == Spec => []NoLostCompletion
<1>1. Init => BlockedInv
  BY DEF Init, BlockedInv, Idle
<1>2. Structure /\ SlotsInv /\ BlockedInv /\ [Next]_vars => BlockedInv'
  <2> SUFFICES ASSUME Structure, SlotsInv, BlockedInv, [Next]_vars PROVE BlockedInv'
    OBVIOUS
  <2> USE DEF BlockedInv
  <2>1. ASSUME NEW w \in Slots, Worker(w) PROVE BlockedInv'
    <3> USE DEF Structure, StructureOK, InHandOK, Holding, Goto, taskVars, clientVars, Idle
    <3>1. CASE TestShutdown(w) \/ EvaluatePredicate(w) \/ Block(w)
      BY <3>1 DEF TestShutdown, EvaluatePredicate, Block
    <3>2. CASE SpuriousWake(w) \/ LeaveLoop(w) \/ FindNothing(w)
      BY <3>2 DEF SpuriousWake, LeaveLoop, FindNothing
    <3>3. CASE TakeTask(w) \/ RecordCompletion(w)
      <4>1. CASE TakeTask(w)
        BY <4>1 DEF TakeTask
      <4>2. CASE RecordCompletion(w)
        BY <4>2 DEF RecordCompletion
      <4> QED BY <3>3, <4>1, <4>2
    <3>4. CASE BeginExecute(w) \/ RunBody(w)
      <4>1. CASE BeginExecute(w)
        BY <4>1 DEF BeginExecute
      <4>2. CASE RunBody(w)
        BY <4>2 DEF RunBody
      <4> QED BY <3>4, <4>1, <4>2
    <3>5. CASE MarkCompleted(w)
      <4>1. /\ completed' = completed \cup {hand[w]}
            /\ pc' = [pc EXCEPT ![w] = "notify"]
            /\ pc[w] = "mark"
            /\ UNCHANGED <<hand, resultMutex, cpc, ctask>>
        BY <3>5 DEF MarkCompleted
      <4>2. ASSUME NEW c \in Clients, cpc[c] \in {"block", "waiting"}, ctask[c] \in completed'
            PROVE  \E v \in Slots : hand[v] = ctask[c] /\ pc'[v] = "notify"
        BY <4>1, <4>2
      <4> QED BY <4>1, <4>2
    <3>6. CASE NotifyWaiters(w)
      <4>1. /\ resultMutex[hand[w]] = None
            /\ pc' = [pc EXCEPT ![w] = "record"]
            /\ cpc' = [c \in Clients |-> IF cpc[c] = "waiting" /\ ctask[c] = hand[w]
                                         THEN "lock" ELSE cpc[c]]
            /\ UNCHANGED <<hand, completed, resultMutex, ctask>>
        BY <3>6 DEF NotifyWaiters, WakeWaiters
      <4>2. ASSUME NEW c \in Clients, cpc'[c] \in {"block", "waiting"}
            PROVE  cpc'[c] = cpc[c] /\ ctask[c] # hand[w]
        BY <4>1, <4>2
      <4>3. ASSUME NEW c \in Clients, cpc'[c] \in {"block", "waiting"}, ctask[c] \in completed
            PROVE  \E v \in Slots : hand[v] = ctask[c] /\ pc'[v] = "notify"
        <5>1. PICK v \in Slots : hand[v] = ctask[c] /\ pc[v] = "notify"
          BY <4>2, <4>3
        <5>2. v # w
          BY <4>2, <4>3, <5>1
        <5> QED BY <4>1, <5>1, <5>2
      <4> QED BY <4>1, <4>2, <4>3
    <3> QED BY <2>1, <3>1, <3>2, <3>3, <3>4, <3>5, <3>6 DEF Worker
  <2>2. ASSUME NEW c \in Clients, Client(c) PROVE BlockedInv'
    <3> USE DEF Structure, StructureOK, InHandOK, ClientGoto, Returned, Idle, workerVars, taskVars
    <3>1. /\ UNCHANGED <<hand, completed>>
          /\ \A v \in Slots : pc[v] = "notify" => pc'[v] = "notify"
      <4>1. UNCHANGED completed
        BY <2>2 DEF Client, SubmitTask, RefuseTask, PushTask, BeginWait, CheckCompleted,
           BlockClient, WakeClient, ReturnExpired
      <4> QED BY <2>2, <4>1, ClientFrame
    <3>8. ASSUME NEW l, l \notin {"block", "waiting"}, cpc' = [cpc EXCEPT ![c] = l],
                 NEW t, ctask' = [ctask EXCEPT ![c] = t] \/ ctask' = ctask,
                 resultMutex' = resultMutex
          PROVE  BlockedInv'
      <4>1. cpc'[c] = l /\ \A d \in Clients : d # c => cpc'[d] = cpc[d]
        BY <3>8
      <4>2. \A d \in Clients : d # c => ctask'[d] = ctask[d]
        BY <3>8
      <4>3. \A d \in Clients : cpc'[d] \in {"block", "waiting"} => d # c
        BY <3>8, <4>1
      <4>4. ASSUME NEW d \in Clients, cpc'[d] = "block" PROVE resultMutex'[ctask'[d]] = d
        BY <3>8, <4>1, <4>2, <4>3, <4>4
      <4>5. ASSUME NEW d \in Clients, cpc'[d] \in {"block", "waiting"},
                   ctask'[d] \in completed'
            PROVE  \E v \in Slots : hand'[v] = ctask'[d] /\ pc'[v] = "notify"
        BY <3>1, <4>1, <4>2, <4>3, <4>5
      <4> QED BY <4>4, <4>5
    <3>2. CASE RefuseTask(c) \/ PushTask(c)
      <4>1. /\ cpc' = [cpc EXCEPT ![c] = Idle]
            /\ ctask' = [ctask EXCEPT ![c] = None]
            /\ resultMutex' = resultMutex
        BY <3>2 DEF RefuseTask, PushTask
      <4> QED BY <3>8, <4>1
    <3>3. ASSUME NEW t \in Tasks, SubmitTask(c, t) PROVE BlockedInv'
      <4>1. resultMutex' = resultMutex
        BY <3>3 DEF SubmitTask
      <4>2. CASE initialized
        <5>1. cpc' = [cpc EXCEPT ![c] = "push"] /\ ctask' = [ctask EXCEPT ![c] = t]
          BY <3>3, <4>2 DEF SubmitTask
        <5> QED BY <3>8, <4>1, <5>1
      <4>3. CASE ~initialized
        BY <3>1, <3>3, <4>1, <4>3 DEF SubmitTask
      <4> QED BY <4>2, <4>3
    <3>4. ASSUME NEW t \in Tasks, NEW b \in BOOLEAN, BeginWait(c, t, b) PROVE BlockedInv'
      BY <3>1, <3>4 DEF BeginWait
    <3>5. CASE CheckCompleted(c)
      <4>1. CASE ctask[c] \in completed
        <5>1. /\ cpc' = [cpc EXCEPT ![c] = Idle]
              /\ ctask' = [ctask EXCEPT ![c] = None]
              /\ resultMutex' = resultMutex
          BY <3>5, <4>1 DEF CheckCompleted
        <5> QED BY <3>8, <5>1
      <4>2. CASE ctask[c] \notin completed
        <5>1. /\ cpc[c] = "lock"
              /\ ctask[c] \in Tasks
              /\ resultMutex[ctask[c]] = None
              /\ resultMutex' = [resultMutex EXCEPT ![ctask[c]] = c]
              /\ cpc' = [cpc EXCEPT ![c] = "block"]
              /\ ctask' = ctask
          BY <3>5, <4>2 DEF CheckCompleted
        <5>2. ASSUME NEW d \in Clients, cpc'[d] = "block" PROVE resultMutex'[ctask[d]] = d
          BY <5>1, <5>2
        <5>3. ASSUME NEW d \in Clients, cpc'[d] \in {"block", "waiting"}, ctask[d] \in completed
              PROVE  cpc[d] = cpc'[d]
          BY <4>2, <5>1, <5>3
        <5> QED BY <3>1, <5>1, <5>2, <5>3
      <4> QED BY <4>1, <4>2
    <3>6. CASE BlockClient(c)
      BY <3>1, <3>6 DEF BlockClient
    <3>7. CASE WakeClient(c) \/ ReturnExpired(c)
      BY <3>1, <3>7 DEF WakeClient, ReturnExpired
    <3> QED BY <2>2, <3>2, <3>3, <3>4, <3>5, <3>6, <3>7 DEF Client
  <2>3. CASE Owner
    BY <2>3, OwnerFrame DEF Holding, taskVars, clientVars
  <2>4. CASE UNCHANGED vars
    BY <2>4 DEF vars, workerVars, taskVars, clientVars
  <2> QED BY <2>1, <2>2, <2>3, <2>4 DEF Next
<1>3. BlockedInv => NoLostCompletion
  BY DEF BlockedInv, NoLostCompletion
<1> QED BY <1>1, <1>2, <1>3, StructureCorrect, SlotsCorrect, PTL DEF Spec

----------------------------------------------------------------------------
(* Where a task is.                                                        *)

\* The tasks a worker has taken from the queue, whatever became of them.
Begun == activeTasks \cup running \cup completed

Pushing(c, t) == cpc[c] = "push" /\ ctask[c] = t

\* A task is still with the client that pushes it, or queued, or refused, or
\* begun; and no two clients push the same one.
PlacesInv ==
    /\ \A c \in Clients, t \in Tasks :
         Pushing(c, t) => t \in issued /\ t \notin refused \cup Queued \cup Begun
    /\ \A c, d \in Clients, t \in Tasks : Pushing(c, t) /\ Pushing(d, t) => c = d
    /\ refused \cup Queued \cup Begun \subseteq issued
    /\ refused \cap Queued = {}
    /\ Begun \cap (refused \cup Queued) = {}
    /\ IsInjective(taskQueue)

\* The active tasks are those in the hands of the workers, each in one hand.
HandsInv ==
    /\ \A w \in Slots : pc[w] \in Holding <=> hand[w] # None
    /\ \A w \in Slots : hand[w] # None => hand[w] \in activeTasks
    /\ \A v, w \in Slots : hand[v] = hand[w] /\ hand[v] # None => v = w
    /\ \A t \in activeTasks : \E w \in Slots : hand[w] = t

\* How far execute is with the task in a worker's hand.
StagesInv ==
    \A w \in Slots :
      /\ pc[w] = "run" => hand[w] \notin running \cup completed
      /\ pc[w] \in {"body", "mark"} => hand[w] \notin completed
      /\ pc[w] \in {"notify", "record"} => hand[w] \in completed

TasksInv == PlacesInv /\ HandsInv /\ StagesInv

\* The pool was never started, or the last shutdown has joined every thread.
OwnerInv ==
    /\ ctl \in {"notify", "join"} => op = "shrink" \/ (op = "shutdown" /\ goal = 0)
    /\ ctl = Idle /\ ~initialized => size = 0

----------------------------------------------------------------------------
(* The places of the tasks.                                                *)

\* A step that moves no worker into or out of a task, and no task at all.
LEMMA QuietStep ==
    ASSUME TasksInv,
           \A v \in Slots : pc[v] \in Holding \/ pc'[v] \in Holding => pc'[v] = pc[v],
           UNCHANGED <<hand, taskQueue, activeTasks, running, completed, issued, refused>>,
           \A c \in Clients, t \in Tasks : Pushing(c, t)' => Pushing(c, t)
    PROVE  TasksInv'
<1>1. PlacesInv'
  BY DEF TasksInv, PlacesInv, Begun, Queued
<1>2. HandsInv'
  BY DEF TasksInv, HandsInv
<1>3. StagesInv'
  BY DEF TasksInv, StagesInv, Holding
<1> QED BY <1>1, <1>2, <1>3 DEF TasksInv

\* Which steps of a worker are quiet: those before it takes a task.
LEMMA WorkerQuietly ==
    ASSUME Structure, NEW w \in Slots,
           TestShutdown(w) \/ EvaluatePredicate(w) \/ Block(w) \/ SpuriousWake(w)
             \/ LeaveLoop(w) \/ FindNothing(w)
    PROVE  /\ \A v \in Slots : pc[v] \in Holding \/ pc'[v] \in Holding => pc'[v] = pc[v]
           /\ UNCHANGED <<hand, taskQueue, activeTasks, taskVars, clientVars>>
<1> USE DEF Structure, StructureOK, Holding, WorkerPC, Goto
<1>1. CASE TestShutdown(w) \/ EvaluatePredicate(w) \/ Block(w)
  BY <1>1 DEF TestShutdown, EvaluatePredicate, Block
<1>2. CASE SpuriousWake(w) \/ LeaveLoop(w) \/ FindNothing(w)
  BY <1>2 DEF SpuriousWake, LeaveLoop, FindNothing
<1> QED BY <1>1, <1>2

\* The step of a worker that takes the front of the queue.
LEMMA TakeKeeps ==
    ASSUME Structure, TasksInv, NEW w \in Slots, TakeTask(w)
    PROVE  TasksInv'
<1> DEFINE t == Head(taskQueue)
<1>1. /\ taskQueue \in Seq(Tasks) /\ taskQueue # <<>>
      /\ pc[w] = "awake"
      /\ hand' = [hand EXCEPT ![w] = t]
      /\ taskQueue' = Tail(taskQueue)
      /\ activeTasks' = activeTasks \cup {t}
      /\ pc' = [pc EXCEPT ![w] = "run"]
      /\ UNCHANGED <<running, completed, issued, refused, cpc, ctask>>
  BY DEF Structure, StructureOK, TakeTask, Goto, taskVars, clientVars
<1>2. /\ t \in Tasks
      /\ Queued = {t} \cup Queued'
      /\ t \notin Queued'
      /\ IsInjective(taskQueue')
  BY <1>1, PopFront DEF TasksInv, PlacesInv, Queued
<1>3. Begun' = Begun \cup {t} /\ t \notin Begun
  BY <1>1, <1>2 DEF TasksInv, PlacesInv, Begun
<1> HIDE DEF t
<1>4. PlacesInv'
  <2>1. \A c \in Clients, u \in Tasks : Pushing(c, u)' <=> Pushing(c, u)
    BY <1>1 DEF Pushing
  <2>2. \A u : u \in refused \cup Queued \cup Begun <=> u \in refused' \cup Queued' \cup Begun'
    BY <1>1, <1>2, <1>3
  <2> QED BY <1>1, <1>2, <1>3, <2>1, <2>2 DEF TasksInv, PlacesInv
<1>5. /\ pc' \in [Slots -> WorkerPC]
      /\ hand'[w] = t /\ pc'[w] = "run" /\ t # None
      /\ \A v \in Slots : v # w => hand'[v] = hand[v] /\ pc'[v] = pc[v]
  BY <1>1, <1>2 DEF Structure, StructureOK, WorkerPC
<1>6. HandsInv'
  <2>1. \A v \in Slots : hand[v] # t
    BY <1>2, <1>3 DEF TasksInv, HandsInv, Begun
  <2>2. hand[w] = None
    BY <1>1 DEF TasksInv, HandsInv, Holding
  <2>3. \A v \in Slots : pc'[v] \in Holding <=> hand'[v] # None
    BY <1>5 DEF TasksInv, HandsInv, Holding
  <2>4. \A v \in Slots : hand'[v] # None => hand'[v] \in activeTasks'
    BY <1>1, <1>5 DEF TasksInv, HandsInv
  <2>5. \A u, v \in Slots : hand'[u] = hand'[v] /\ hand'[u] # None => u = v
    BY <1>5, <2>1 DEF TasksInv, HandsInv
  <2>6. \A u \in activeTasks' : \E v \in Slots : hand'[v] = u
    <3> SUFFICES ASSUME NEW u \in activeTasks' PROVE \E v \in Slots : hand'[v] = u
      OBVIOUS
    <3>1. CASE u = t
      BY <1>5, <3>1
    <3>2. CASE u \in activeTasks
      <4>1. PICK v \in Slots : hand[v] = u
        BY <3>2 DEF TasksInv, HandsInv
      <4>2. u # None
        BY <3>2, <1>1 DEF Structure, StructureOK
      <4> QED BY <1>5, <2>2, <4>1, <4>2
    <3> QED BY <1>1, <3>1, <3>2
  <2> QED BY <2>3, <2>4, <2>5, <2>6 DEF HandsInv
<1>7. StagesInv'
  BY <1>1, <1>3, <1>5 DEF TasksInv, StagesInv, Begun
<1> QED BY <1>4, <1>6, <1>7 DEF TasksInv

\* The steps of a worker inside execute move its task along and no other.
LEMMA ExecuteKeeps ==
    ASSUME Structure, TasksInv, NEW w \in Slots,
           BeginExecute(w) \/ RunBody(w) \/ MarkCompleted(w) \/ NotifyWaiters(w)
    PROVE  TasksInv'
<1> USE DEF Holding
<1> DEFINE t == hand[w]
<1>1. /\ pc[w] \in Holding /\ pc'[w] \in Holding
      /\ \A v \in Slots : v # w => pc'[v] = pc[v]
      /\ UNCHANGED <<hand, taskQueue, activeTasks, issued, refused, ctask>>
  BY DEF Structure, StructureOK, BeginExecute, RunBody, MarkCompleted, NotifyWaiters,
     Goto, clientVars
<1>2. /\ running' = running \/ running' = running \cup {t}
      /\ completed' = completed \/ completed' = completed \cup {t}
  BY DEF BeginExecute, RunBody, MarkCompleted, NotifyWaiters, taskVars
<1>3. \A c \in Clients : cpc'[c] = "push" => cpc[c] = "push"
  BY DEF BeginExecute, RunBody, MarkCompleted, NotifyWaiters, WakeWaiters, clientVars
<1>4. t # None /\ t \in activeTasks
  BY <1>1 DEF TasksInv, HandsInv
<1> HIDE DEF t
<1>5. Begun' = Begun
  BY <1>1, <1>2, <1>4 DEF Begun
<1>6. PlacesInv'
  <2>1. \A c \in Clients, u \in Tasks : Pushing(c, u)' => Pushing(c, u)
    BY <1>1, <1>3 DEF Pushing
  <2> QED BY <1>1, <1>5, <2>1 DEF TasksInv, PlacesInv, Queued
<1>7. HandsInv'
  <2>1. \A v \in Slots : pc'[v] \in Holding <=> hand'[v] # None
    BY <1>1 DEF TasksInv, HandsInv
  <2> QED BY <1>1, <2>1 DEF TasksInv, HandsInv
<1>8. StagesInv'
  <2>1. \A v \in Slots : v # w /\ hand[v] # None => hand[v] # t
    BY <1>4 DEF TasksInv, HandsInv, t
  <2>2. ASSUME NEW v \in Slots, v # w
        PROVE  /\ pc'[v] = "run" => hand'[v] \notin running' \cup completed'
               /\ pc'[v] \in {"body", "mark"} => hand'[v] \notin completed'
               /\ pc'[v] \in {"notify", "record"} => hand'[v] \in completed'
    <3>1. pc'[v] = pc[v] /\ hand'[v] = hand[v]
      BY <1>1, <2>2
    <3>2. pc[v] \in Holding => hand[v] # t
      BY <2>1, <2>2 DEF TasksInv, HandsInv
    <3> QED BY <1>2, <3>1, <3>2 DEF TasksInv, StagesInv
  <2>3. /\ pc'[w] # "run"
        /\ pc'[w] \in {"body", "mark"} => t \notin completed'
        /\ pc'[w] \in {"notify", "record"} => t \in completed'
    <3> USE DEF Structure, StructureOK, TasksInv, StagesInv, Goto, t
    <3>1. CASE BeginExecute(w)
      BY <3>1 DEF BeginExecute
    <3>2. CASE RunBody(w)
      BY <3>2 DEF RunBody
    <3>3. CASE MarkCompleted(w)
      BY <3>3 DEF MarkCompleted
    <3>4. CASE NotifyWaiters(w)
      BY <3>4 DEF NotifyWaiters, taskVars
    <3> QED BY <3>1, <3>2, <3>3, <3>4
  <2>4. hand'[w] = t
    BY <1>1 DEF t
  <2> QED BY <2>2, <2>3, <2>4 DEF StagesInv
<1> QED BY <1>6, <1>7, <1>8 DEF TasksInv

\* The step of a worker that is done with its task.
LEMMA RecordKeeps ==
    ASSUME Structure, TasksInv, NEW w \in Slots, RecordCompletion(w)
    PROVE  TasksInv'
<1>1. /\ pc[w] = "record"
      /\ hand' = [hand EXCEPT ![w] = None]
      /\ activeTasks' = activeTasks \ {hand[w]}
      /\ pc' = [pc EXCEPT ![w] = "test"]
      /\ UNCHANGED <<taskQueue, running, completed, issued, refused, cpc, ctask>>
  BY DEF RecordCompletion, Goto, taskVars, clientVars
<1>2. /\ hand'[w] = None /\ pc'[w] = "test"
      /\ \A v \in Slots : v # w => hand'[v] = hand[v] /\ pc'[v] = pc[v]
  BY <1>1 DEF Structure, StructureOK
<1>3. hand[w] \in completed
  BY <1>1 DEF TasksInv, StagesInv
<1>4. PlacesInv'
  <2>1. Begun' = Begun
    BY <1>1, <1>3 DEF Begun
  <2>2. \A c \in Clients, t \in Tasks : Pushing(c, t)' <=> Pushing(c, t)
    BY <1>1 DEF Pushing
  <2> QED BY <1>1, <2>1, <2>2 DEF TasksInv, PlacesInv, Queued
<1>5. HandsInv'
  <2>1. \A v \in Slots : pc'[v] \in Holding <=> hand'[v] # None
    BY <1>2 DEF TasksInv, HandsInv, Holding
  <2>2. hand[w] # None
    BY <1>1 DEF TasksInv, HandsInv, Holding
  <2>3. ASSUME NEW v \in Slots, hand'[v] # None PROVE hand'[v] \in activeTasks'
    BY <1>1, <1>2, <2>2, <2>3 DEF TasksInv, HandsInv
  <2>4. \A u, v \in Slots : hand'[u] = hand'[v] /\ hand'[u] # None => u = v
    BY <1>2 DEF TasksInv, HandsInv
  <2>5. \A t \in activeTasks' : \E v \in Slots : hand'[v] = t
    <3> SUFFICES ASSUME NEW t \in activeTasks' PROVE \E v \in Slots : hand'[v] = t
      OBVIOUS
    <3>1. t \in activeTasks /\ t # hand[w]
      BY <1>1
    <3>2. PICK v \in Slots : hand[v] = t
      BY <3>1 DEF TasksInv, HandsInv
    <3> QED BY <1>2, <3>1, <3>2
  <2> QED BY <2>1, <2>3, <2>4, <2>5 DEF HandsInv
<1>6. StagesInv'
  BY <1>1, <1>2 DEF TasksInv, StagesInv
<1> QED BY <1>4, <1>5, <1>6 DEF TasksInv

\* The steps of submitTask issue a task, refuse it or push it.
LEMMA SubmitKeeps ==
    ASSUME Structure, TasksInv, NEW c \in Clients, NEW t \in Tasks,
           SubmitTask(c, t) \/ (RefuseTask(c) /\ t = ctask[c]) \/ (PushTask(c) /\ t = ctask[c])
    PROVE  TasksInv'
<1> USE DEF Structure, StructureOK, clientVars, workerVars, taskVars, Idle, ClientGoto,
            Returned
<1>1. /\ UNCHANGED <<hand, activeTasks, running, completed>>
      /\ \A v \in Slots : pc[v] \in Holding \/ pc'[v] \in Holding => pc'[v] = pc[v]
  BY DEF SubmitTask, RefuseTask, PushTask, NotifyOneWorker, Goto, Holding
<1>2. HandsInv' /\ StagesInv'
  BY <1>1 DEF TasksInv, HandsInv, StagesInv, Holding
<1>3. Begun' = Begun
  BY <1>1 DEF Begun
<1>4. CASE SubmitTask(c, t)
  <2>1. /\ t \notin issued /\ issued' = issued \cup {t}
        /\ taskQueue' = taskQueue /\ Queued' = Queued
    BY <1>4 DEF SubmitTask, Queued
  <2>2. /\ t \notin refused \cup Queued \cup Begun
        /\ \A d \in Clients : ~Pushing(d, t)
    BY <2>1 DEF TasksInv, PlacesInv
  <2>3. CASE initialized
    <3>1. /\ cpc' = [cpc EXCEPT ![c] = "push"]
          /\ ctask' = [ctask EXCEPT ![c] = t]
          /\ refused' = refused
      BY <1>4, <2>3 DEF SubmitTask
    <3>2. \A d \in Clients, u \in Tasks : Pushing(d, u)' => (d = c /\ u = t) \/ Pushing(d, u)
      BY <3>1 DEF Pushing
    <3>3. PlacesInv'
      BY <1>3, <2>1, <2>2, <3>1, <3>2 DEF TasksInv, PlacesInv
    <3> QED BY <1>2, <3>3 DEF TasksInv
  <2>4. CASE ~initialized
    <3>1. refused' = refused \cup {t} /\ UNCHANGED <<cpc, ctask>>
      BY <1>4, <2>4 DEF SubmitTask
    <3>2. \A d \in Clients, u \in Tasks : Pushing(d, u)' => Pushing(d, u)
      BY <3>1 DEF Pushing
    <3>3. PlacesInv'
      BY <1>3, <2>1, <2>2, <3>1, <3>2 DEF TasksInv, PlacesInv
    <3> QED BY <1>2, <3>3 DEF TasksInv
  <2> QED BY <2>3, <2>4
<1>5. ASSUME cpc[c] = "push", t = ctask[c], cpc' = [cpc EXCEPT ![c] = Idle],
             ctask' = [ctask EXCEPT ![c] = None]
      PROVE  /\ Pushing(c, t)
             /\ \A d \in Clients, u \in Tasks : Pushing(d, u)' => Pushing(d, u) /\ u # t
  <2>1. Pushing(c, t)
    BY <1>5 DEF Pushing
  <2> QED BY <1>5, <2>1 DEF Pushing, TasksInv, PlacesInv
<1>6. CASE RefuseTask(c) /\ t = ctask[c]
  <2>1. /\ cpc[c] = "push" /\ refused' = refused \cup {t}
        /\ cpc' = [cpc EXCEPT ![c] = Idle] /\ ctask' = [ctask EXCEPT ![c] = None]
        /\ UNCHANGED <<issued, taskQueue>>
    BY <1>6 DEF RefuseTask
  <2>2. Queued' = Queued
    BY <2>1 DEF Queued
  <2>3. PlacesInv'
    BY <1>3, <1>5, <1>6, <2>1, <2>2 DEF TasksInv, PlacesInv
  <2> QED BY <1>2, <2>3 DEF TasksInv
<1>7. CASE PushTask(c) /\ t = ctask[c]
  <2>1. /\ cpc[c] = "push" /\ taskQueue' = Append(taskQueue, t)
        /\ cpc' = [cpc EXCEPT ![c] = Idle] /\ ctask' = [ctask EXCEPT ![c] = None]
        /\ UNCHANGED <<issued, refused>>
    BY <1>7 DEF PushTask
  <2>2. Queued' = Queued \cup {t}
    BY <2>1, PushBack DEF Queued
  <2>3. t \notin refused \cup Queued \cup Begun /\ t \in issued
    BY <1>5, <1>7, <2>1 DEF TasksInv, PlacesInv
  <2>4. IsInjective(taskQueue')
    BY <2>1, <2>3, PushBack DEF TasksInv, PlacesInv, Queued
  <2>5. PlacesInv'
    BY <1>3, <1>5, <1>7, <2>1, <2>2, <2>3, <2>4 DEF TasksInv, PlacesInv
  <2> QED BY <1>2, <2>5 DEF TasksInv
<1> QED BY <1>4, <1>6, <1>7

\* The other steps of a client, in waitForCompletion, move no task.
LEMMA WaitQuietly ==
    ASSUME Structure, NEW c \in Clients,
           \/ \E t \in Tasks, b \in BOOLEAN : BeginWait(c, t, b)
           \/ CheckCompleted(c) \/ BlockClient(c) \/ WakeClient(c) \/ ReturnExpired(c)
    PROVE  /\ UNCHANGED <<pc, hand, taskQueue, activeTasks, running, completed, issued, refused>>
           /\ \A d \in Clients, t \in Tasks : Pushing(d, t)' => Pushing(d, t)
<1> USE DEF Structure, StructureOK, workerVars, taskVars, ClientGoto, Returned, Idle, Pushing
<1>1. CASE \E t \in Tasks, b \in BOOLEAN : BeginWait(c, t, b)
  BY <1>1 DEF BeginWait
<1>2. CASE CheckCompleted(c)
  <2>1. /\ UNCHANGED <<pc, hand, taskQueue, activeTasks, running, completed, issued, refused>>
        /\ \A d \in Clients : cpc'[d] = "push" => d # c
        /\ \A d \in Clients : d # c => cpc'[d] = cpc[d] /\ ctask'[d] = ctask[d]
    BY <1>2 DEF CheckCompleted
  <2> QED BY <2>1
<1>3. CASE BlockClient(c) \/ WakeClient(c)
  BY <1>3 DEF BlockClient, WakeClient
<1>4. CASE ReturnExpired(c)
  BY <1>4 DEF ReturnExpired
<1> QED BY <1>1, <1>2, <1>3, <1>4

\* A task is in one place at a time, and every active one in a worker's hand.
LEMMA TasksCorrect == Spec => []TasksInv
<1>1. Init => TasksInv
  BY DEF Init, TasksInv, PlacesInv, HandsInv, StagesInv, Holding, Begun, Pushing, Queued,
     Range, IsInjective, Idle
<1>2. Structure /\ SlotsInv /\ TasksInv /\ [Next]_vars => TasksInv'
  <2> SUFFICES ASSUME Structure, SlotsInv, TasksInv, [Next]_vars PROVE TasksInv'
    OBVIOUS
  <2>1. ASSUME NEW w \in Slots, Worker(w) PROVE TasksInv'
    <3>1. CASE \/ TestShutdown(w) \/ EvaluatePredicate(w) \/ Block(w) \/ SpuriousWake(w)
               \/ LeaveLoop(w) \/ FindNothing(w)
      BY <3>1, WorkerQuietly, QuietStep DEF taskVars, clientVars, Pushing
    <3> QED BY <2>1, <3>1, TakeKeeps, ExecuteKeeps, RecordKeeps DEF Worker
  <2>2. ASSUME NEW c \in Clients, Client(c) PROVE TasksInv'
    <3>1. CASE \/ \E t \in Tasks, b \in BOOLEAN : BeginWait(c, t, b)
               \/ CheckCompleted(c) \/ BlockClient(c) \/ WakeClient(c) \/ ReturnExpired(c)
      BY <3>1, WaitQuietly, QuietStep
    <3>2. CASE RefuseTask(c) \/ PushTask(c)
      <4>1. ctask[c] \in Tasks
        BY <3>2 DEF Structure, InHandOK, RefuseTask, PushTask, Idle
      <4> QED BY <3>2, <4>1, SubmitKeeps
    <3> QED BY <2>2, <3>1, <3>2, SubmitKeeps DEF Client
  <2>3. CASE Owner
    BY <2>3, OwnerFrame, QuietStep DEF taskVars, clientVars, Pushing
  <2>4. CASE UNCHANGED vars
    BY <2>4, QuietStep DEF vars, workerVars, taskVars, clientVars, Pushing
  <2> QED BY <2>1, <2>2, <2>3, <2>4 DEF Next
<1> QED BY <1>1, <1>2, StructureCorrect, SlotsCorrect, PTL DEF Spec

----------------------------------------------------------------------------
(* The end of a shutdown.                                                  *)

\* shutdown joins every thread: no slot is left when the pool is not up.
LEMMA OwnerCorrect == Spec => []OwnerInv
<1>1. Init => OwnerInv
  BY DEF Init, OwnerInv, Idle
<1>2. Structure /\ OwnerInv /\ [Next]_vars => OwnerInv'
  <2> SUFFICES ASSUME Structure, OwnerInv, [Next]_vars PROVE OwnerInv'
    OBVIOUS
  <2>1. CASE UNCHANGED ownerVars
    BY <2>1 DEF OwnerInv, ownerVars
  <2>2. CASE Owner
    <3> USE DEF OwnerInv, Structure, StructureOK, OwnerPC, Idle
    <3>1. ASSUME NEW n \in 0..MaxThreads, Initialize(n) \/ Grow(n) PROVE OwnerInv'
      BY <3>1 DEF Initialize, Grow
    <3>2. ASSUME NEW n \in 0..MaxThreads, Shrink(n) PROVE OwnerInv'
      BY <3>2 DEF Shrink, RequestExit
    <3>3. CASE Shutdown
      BY <3>3 DEF Shutdown, RequestExit
    <3>4. CASE Spawn \/ FinishSpawning
      BY <3>4 DEF Spawn, FinishSpawning
    <3>5. CASE NotifyAllWorkers \/ Join
      BY <3>5 DEF NotifyAllWorkers, Join
    <3>6. CASE FinishJoining
      BY <3>6 DEF FinishJoining
    <3> QED BY <2>2, <3>1, <3>2, <3>3, <3>4, <3>5, <3>6 DEF Owner
  <2> QED BY <2>1, <2>2, WorkerFrame, ClientFrame DEF Next, vars
<1> QED BY <1>1, <1>2, StructureCorrect, PTL DEF Spec

\* After shutdown no thread is left, and no task is half done: a thread leaves
\* workerThread with empty hands, and every active task is in a hand.
THEOREM ShutdownCorrect == Spec => []ShutdownQuiesces
<1>1. Structure /\ SlotsInv /\ TasksInv /\ OwnerInv => ShutdownQuiesces
  <2> SUFFICES ASSUME Structure, SlotsInv, TasksInv, OwnerInv, ctl = Idle, ~initialized
               PROVE  /\ size = 0
                      /\ activeTasks = {}
                      /\ \A w \in Slots : pc[w] = "none" /\ hand[w] = None
    BY DEF ShutdownQuiesces
  <2>1. size = 0
    BY DEF OwnerInv
  <2>2. \A w \in Slots : pc[w] = "none"
    BY <2>1 DEF SlotsInv
  <2>3. \A w \in Slots : hand[w] = None
    BY <2>2 DEF TasksInv, HandsInv, Holding
  <2>4. activeTasks = {}
    BY <2>3 DEF TasksInv, HandsInv, Structure, StructureOK
  <2> QED BY <2>1, <2>2, <2>3, <2>4
<1> QED BY <1>1, StructureCorrect, SlotsCorrect, TasksCorrect, OwnerCorrect, PTL

----------------------------------------------------------------------------
(* The refinement.  The steps that move a task in TaskLifecycle are        *)
(* RefuseTask and a SubmitTask that is refused, PushTask, TakeTask, and    *)
(* MarkCompleted; the others stutter.                                      *)

\* A task that alone changes its status makes a move of the lifecycle.
LEMMA StatusMoves ==
    ASSUME NEW t \in Tasks, NEW from, NEW to, statusOf[t] = from, statusOf'[t] = to,
           \A u \in Tasks : u # t => statusOf'[u] = statusOf[u]
    PROVE  Lifecycle!Move(t, from, to)
<1>1. /\ statusOf = [u \in Tasks |-> statusOf[u]]
      /\ statusOf' = [u \in Tasks |-> statusOf'[u]]
  BY DEF statusOf
<1>2. statusOf' = [statusOf EXCEPT ![t] = to]
  BY <1>1
<1> QED BY <1>2 DEF Lifecycle!Move

\* Where no set of tasks changes, the lifecycle stutters.
LEMMA StatusStays ==
    ASSUME UNCHANGED <<completed, activeTasks, taskQueue, refused>>
    PROVE  UNCHANGED statusOf
BY DEF statusOf, Queued

\* With a hand free, fewer than MaxThreads tasks execute: each of them is in
\* another hand.
LEMMA HandFree ==
    ASSUME Structure, TasksInv, NEW w \in Slots, hand[w] = None
    PROVE  Cardinality(Lifecycle!Executing) < MaxThreads
<1> DEFINE E == Lifecycle!Executing
           S == {v \in Slots : hand[v] \in E}
           f == [v \in S |-> hand[v]]
<1>1. E \subseteq activeTasks /\ None \notin E
  BY DEF Lifecycle!Executing, statusOf
<1>2. f \in Surjection(S, E)
  <2>1. f \in [S -> E]
    OBVIOUS
  <2>2. \A t \in E : \E v \in S : f[v] = t
    BY <1>1 DEF TasksInv, HandsInv
  <2> QED BY <2>1, <2>2 DEF Surjection
<1>3. /\ IsFiniteSet(1..MaxThreads)
      /\ Cardinality(1..MaxThreads) = MaxThreads
  BY FS_Interval
<1>4. /\ IsFiniteSet(Slots \ {w})
      /\ Cardinality(Slots \ {w}) = MaxThreads - 1
  BY <1>3, FS_RemoveElement
<1>5. S \in SUBSET (Slots \ {w})
  BY <1>1
<1> HIDE DEF S, E, f
<1>6. IsFiniteSet(S) /\ Cardinality(S) <= MaxThreads - 1
  <2>1. IsFiniteSet(S) /\ Cardinality(S) <= Cardinality(Slots \ {w})
    BY <1>4, <1>5, FS_Subset, Zenon
  <2> QED BY <1>4, <2>1
<1>7. IsFiniteSet(E) /\ Cardinality(E) <= Cardinality(S)
  BY <1>2, <1>6, FS_Surjection
<1>8. Cardinality(S) \in Nat /\ Cardinality(E) \in Nat
  BY <1>6, <1>7, FS_CardinalityType
<1>9. Cardinality(E) < MaxThreads
  BY <1>6, <1>7, <1>8
<1> QED BY <1>9 DEF E

\* Each step of a worker is one of the lifecycle or none,
LEMMA WorkerStepMaps ==
    ASSUME Structure, TasksInv, NEW w \in Slots, Worker(w)
    PROVE  [Lifecycle!Next]_statusOf
<1>1. CASE \/ TestShutdown(w) \/ EvaluatePredicate(w) \/ Block(w) \/ SpuriousWake(w)
           \/ LeaveLoop(w) \/ FindNothing(w)
  BY <1>1, WorkerQuietly, StatusStays DEF taskVars, clientVars
<1>2. CASE TakeTask(w)
  <2> DEFINE t == Head(taskQueue)
  <2>1. /\ taskQueue \in Seq(Tasks) /\ taskQueue # <<>>
        /\ pc[w] = "awake"
        /\ taskQueue' = Tail(taskQueue)
        /\ activeTasks' = activeTasks \cup {t}
        /\ UNCHANGED <<completed, refused>>
    BY <1>2 DEF Structure, StructureOK, TakeTask, taskVars, clientVars
  <2>2. t \in Tasks /\ Queued = {t} \cup Queued'
    BY <2>1, PopFront DEF Queued
  <2> HIDE DEF t
  <2>3. t \notin Begun
    BY <2>2 DEF TasksInv, PlacesInv
  <2>4. Cardinality(Lifecycle!Executing) < MaxThreads
    BY <2>1, HandFree DEF TasksInv, HandsInv, Holding
  <2>5. /\ statusOf[t] = "queued" /\ statusOf'[t] = "running"
        /\ \A u \in Tasks : u # t => statusOf'[u] = statusOf[u]
    <3>1. t \in Queued /\ t \in activeTasks' /\ t \notin completed'
      BY <2>1, <2>2, <2>3 DEF Begun
    <3>2. \A u \in Tasks : u # t =>
            /\ u \in activeTasks' <=> u \in activeTasks
            /\ u \in Queued' <=> u \in Queued
      BY <2>1, <2>2
    <3> QED BY <2>1, <2>2, <2>3, <3>1, <3>2 DEF statusOf, Begun
  <2>6. Lifecycle!Move(t, "queued", "running")
    BY <2>2, <2>5, StatusMoves
  <2>7. Lifecycle!Start(t)
    BY <2>4, <2>6 DEF Lifecycle!Start, Lifecycle!Cardinality, Cardinality
  <2> QED BY <2>2, <2>7 DEF Lifecycle!Next
<1>3. CASE BeginExecute(w) \/ RunBody(w) \/ NotifyWaiters(w)
  BY <1>3, StatusStays DEF BeginExecute, RunBody, NotifyWaiters, taskVars, clientVars
<1>4. CASE MarkCompleted(w)
  <2> DEFINE t == hand[w]
  <2>1. /\ pc[w] = "mark"
        /\ completed' = completed \cup {t}
        /\ UNCHANGED <<activeTasks, taskQueue, refused>>
    BY <1>4 DEF MarkCompleted, clientVars
  <2>2. t \in Tasks /\ t \in activeTasks /\ t \notin completed
    BY <2>1 DEF Structure, InHandOK, TasksInv, HandsInv, StagesInv, Holding
  <2>3. /\ statusOf[t] = "running" /\ statusOf'[t] = "done"
        /\ \A u \in Tasks : u # t => statusOf'[u] = statusOf[u]
    BY <2>1, <2>2 DEF statusOf, Queued
  <2>4. Lifecycle!Finish(t)
    BY <2>2, <2>3, StatusMoves DEF Lifecycle!Finish
  <2> QED BY <2>2, <2>4 DEF Lifecycle!Next
<1>5. CASE RecordCompletion(w)
  <2>1. /\ activeTasks' = activeTasks \ {hand[w]}
        /\ hand[w] \in completed
        /\ UNCHANGED <<completed, taskQueue, refused>>
    BY <1>5 DEF RecordCompletion, taskVars, clientVars, TasksInv, StagesInv
  <2> QED BY <2>1 DEF statusOf, Queued
<1> QED BY <1>1, <1>2, <1>3, <1>4, <1>5 DEF Worker

\* and so is each step of a client.
LEMMA ClientStepMaps ==
    ASSUME Structure, TasksInv, NEW c \in Clients, Client(c)
    PROVE  [Lifecycle!Next]_statusOf
<1> USE DEF workerVars, taskVars, Idle
<1>1. ASSUME NEW t \in Tasks, SubmitTask(c, t) PROVE [Lifecycle!Next]_statusOf
  <2>1. UNCHANGED <<completed, activeTasks, taskQueue>>
    BY <1>1 DEF SubmitTask
  <2>2. CASE initialized
    BY <1>1, <2>1, <2>2, StatusStays DEF SubmitTask
  <2>3. CASE ~initialized
    <3>1. refused' = refused \cup {t}
      BY <1>1, <2>3 DEF SubmitTask
    <3>2. t \notin refused \cup Queued \cup Begun
      BY <1>1 DEF SubmitTask, TasksInv, PlacesInv
    <3>3. /\ statusOf[t] = "new" /\ statusOf'[t] = "refused"
          /\ \A u \in Tasks : u # t => statusOf'[u] = statusOf[u]
      BY <2>1, <3>1, <3>2 DEF statusOf, Begun, Queued
    <3>4. Lifecycle!Refuse(t)
      BY <3>3, StatusMoves DEF Lifecycle!Refuse
    <3> QED BY <3>4 DEF Lifecycle!Next
  <2> QED BY <2>2, <2>3
<1>2. CASE RefuseTask(c) \/ PushTask(c)
  <2> DEFINE t == ctask[c]
  <2>1. t \in Tasks /\ Pushing(c, t)
    BY <1>2 DEF RefuseTask, PushTask, Structure, InHandOK, Pushing
  <2>2. t \notin refused \cup Queued \cup Begun
    BY <2>1 DEF TasksInv, PlacesInv
  <2>3. UNCHANGED <<completed, activeTasks>>
    BY <1>2 DEF RefuseTask, PushTask
  <2>4. statusOf[t] = "new"
    BY <2>1, <2>2 DEF statusOf, Begun
  <2>5. CASE RefuseTask(c)
    <3>1. refused' = refused \cup {t} /\ taskQueue' = taskQueue
      BY <2>5 DEF RefuseTask
    <3>2. /\ statusOf'[t] = "refused"
          /\ \A u \in Tasks : u # t => statusOf'[u] = statusOf[u]
      BY <2>1, <2>2, <2>3, <3>1 DEF statusOf, Begun, Queued
    <3>3. Lifecycle!Refuse(t)
      BY <2>1, <2>4, <3>2, StatusMoves DEF Lifecycle!Refuse
    <3> QED BY <2>1, <3>3 DEF Lifecycle!Next
  <2>6. CASE PushTask(c)
    <3>1. taskQueue' = Append(taskQueue, t) /\ refused' = refused
      BY <2>6 DEF PushTask
    <3>2. Queued' = Queued \cup {t}
      BY <2>1, <3>1, PushBack DEF Queued, Structure, StructureOK
    <3>3. /\ statusOf'[t] = "queued"
          /\ \A u \in Tasks : u # t => statusOf'[u] = statusOf[u]
      BY <2>1, <2>2, <2>3, <3>1, <3>2 DEF statusOf, Begun
    <3>4. Lifecycle!Accept(t)
      BY <2>1, <2>4, <3>3, StatusMoves DEF Lifecycle!Accept
    <3> QED BY <2>1, <3>4 DEF Lifecycle!Next
  <2> QED BY <1>2, <2>5, <2>6
<1>3. CASE \/ \E t \in Tasks, b \in BOOLEAN : BeginWait(c, t, b)
           \/ CheckCompleted(c) \/ BlockClient(c) \/ WakeClient(c) \/ ReturnExpired(c)
  BY <1>3, WaitQuietly, StatusStays
<1> QED BY <1>1, <1>2, <1>3 DEF Client

\* Every behaviour of the pool is one of TaskLifecycle: a submitted task is
\* refused or accepted once, starts once while fewer than MaxThreads execute,
\* finishes once and stays finished, however the pool is resized or shut down.
THEOREM RefinementCorrect == Spec => ImplementsLifecycle
<1>1. Init => Lifecycle!Init
  BY DEF Init, Lifecycle!Init, statusOf, Queued, Range
<1>2. Structure /\ SlotsInv /\ TasksInv /\ [Next]_vars => [Lifecycle!Next]_statusOf
  <2> SUFFICES ASSUME Structure, SlotsInv, TasksInv, [Next]_vars
               PROVE  [Lifecycle!Next]_statusOf
    OBVIOUS
  <2>1. CASE Owner \/ UNCHANGED vars
    BY <2>1, OwnerFrame, StatusStays DEF taskVars, clientVars, vars, workerVars
  <2> QED BY <2>1, WorkerStepMaps, ClientStepMaps DEF Next
<1> QED BY <1>1, <1>2, StructureCorrect, SlotsCorrect, TasksCorrect, PTL
        DEF Spec, ImplementsLifecycle, Lifecycle!Spec

=============================================================================
