------------------------------ MODULE Promise ------------------------------
(***************************************************************************)
(* InterpreterCore::Promise (async_runtime.cpp).                           *)
(*                                                                         *)
(* resolve and reject hold promiseMutex while they run the callbacks, and  *)
(* every other operation takes it: while a thread settles a promise the    *)
(* others wait, but for isResolved and isRejected, which take no lock.  A  *)
(* callback is opaque and may throw; none calls back into its promise.     *)
(* await tests and blocks under the mutex its notifier holds, so its test  *)
(* and its block are one step.                                             *)
(***************************************************************************)
EXTENDS Naturals, Sequences, FiniteSets

CONSTANTS Promises,
          Threads,     \* the threads that settle and use promises
          Thens, Catches, Finallys,   \* callbacks for then, catch_ and finally
          MayThrow,    \* the callbacks that may throw
          None

Callbacks == Thens \cup Catches \cup Finallys

ASSUME PromiseAssumption ==
    /\ None \notin Threads \cup Promises
    /\ Thens \cap Catches = {} /\ (Thens \cup Catches) \cap Finallys = {}
    /\ MayThrow \subseteq Callbacks

VARIABLES
    settled,    \* resolved and rejected
    busy,       \* the thread that holds promiseMutex over its callbacks
    todo,       \* the callbacks that thread has still to run
    callbacks,  \* resolveCallbacks, rejectCallbacks and finallyCallbacks
    asked,      \* history: the callbacks passed to then, catch_ and finally
    ran,        \* history: the callbacks run, in order
    threw,      \* history: the promises whose settling a callback cut short
    awaited,    \* the promise each thread awaits
    asleep      \* the threads blocked on promiseCondition

settleVars == <<settled, busy, todo, callbacks, ran, threw>>
awaitVars  == <<awaited, asleep>>
promiseVars == <<settleVars, asked, awaitVars>>

\* The vectors, named for the outcome their callbacks wait for.
Vectors == {"resolved", "rejected", "finally"}

VectorOf(b) ==
    IF b \in Thens THEN "resolved" ELSE IF b \in Catches THEN "rejected" ELSE "finally"

PromiseInit ==
    /\ settled = [p \in Promises |-> "pending"]
    /\ busy = [p \in Promises |-> None]
    /\ todo = [p \in Promises |-> <<>>]
    /\ callbacks = [p \in Promises |-> [v \in Vectors |-> <<>>]]
    /\ asked = [p \in Promises |-> {}]
    /\ ran = [p \in Promises |-> <<>>]
    /\ threw = {}
    /\ awaited = [s \in Threads |-> None]
    /\ asleep = {}

\* A thread that neither awaits nor settles.
Free(s) == awaited[s] = None /\ \A p \in Promises : busy[p] # s

Listening(how) == IF how = "resolved" THEN Thens ELSE Catches

\* resolve and reject: the first call wins and runs the callbacks for its
\* outcome, then the finally callbacks.
Settle(s, p, how) ==
    /\ busy[p] = None
    /\ settled[p] = "pending"
    /\ settled' = [settled EXCEPT ![p] = how]
    /\ busy' = [busy EXCEPT ![p] = s]
    /\ todo' = [todo EXCEPT ![p] = callbacks[p][how] \o callbacks[p]["finally"]]
    /\ UNCHANGED <<callbacks, ran, threw, asked, awaitVars>>

RunCallback(s, p) ==
    /\ busy[p] = s
    /\ todo[p] # <<>>
    /\ ran' = [ran EXCEPT ![p] = Append(@, Head(todo[p]))]
    /\ todo' = [todo EXCEPT ![p] = Tail(@)]
    /\ UNCHANGED <<settled, busy, callbacks, threw, asked, awaitVars>>

\* The exception leaves resolve: no further callback and no notify_all.
ThrowFromCallback(s, p) ==
    /\ busy[p] = s
    /\ todo[p] # <<>>
    /\ Head(todo[p]) \in MayThrow
    /\ ran' = [ran EXCEPT ![p] = Append(@, Head(todo[p]))]
    /\ todo' = [todo EXCEPT ![p] = <<>>]
    /\ busy' = [busy EXCEPT ![p] = None]
    /\ threw' = threw \cup {p}
    /\ UNCHANGED <<settled, callbacks, asked, awaitVars>>

\* Faulty variant of NotifyAwaiting: the mutex is released, nobody is notified.
ReleaseSilently(s, p) ==
    /\ busy[p] = s
    /\ todo[p] = <<>>
    /\ busy' = [busy EXCEPT ![p] = None]
    /\ UNCHANGED <<settled, todo, callbacks, ran, threw, asked, awaitVars>>

NotifyAwaiting(s, p) ==
    /\ busy[p] = s
    /\ todo[p] = <<>>
    /\ busy' = [busy EXCEPT ![p] = None]
    /\ asleep' = {t \in asleep : awaited[t] # p}
    /\ UNCHANGED <<settled, todo, callbacks, ran, threw, asked, awaited>>

\* Faulty variant of Register: a callback is always kept for later.
KeepForLater(s, p, b) ==
    /\ Free(s)
    /\ b \notin asked[p]
    /\ busy[p] = None
    /\ asked' = [asked EXCEPT ![p] = @ \cup {b}]
    /\ callbacks' = [callbacks EXCEPT ![p][VectorOf(b)] = Append(@, b)]
    /\ UNCHANGED <<settled, busy, todo, ran, threw, awaitVars>>

\* then, catch_, finally: kept while the promise is pending, run at once when
\* it is settled the callback's way, dropped when it is settled the other way.
Register(s, p, b) ==
    /\ Free(s)
    /\ b \notin asked[p]
    /\ busy[p] = None
    /\ asked' = [asked EXCEPT ![p] = @ \cup {b}]
    /\ \/ /\ settled[p] = "pending"
          /\ callbacks' = [callbacks EXCEPT ![p][VectorOf(b)] = Append(@, b)]
          /\ UNCHANGED ran
       \/ /\ settled[p] # "pending"
          /\ ran' = IF b \in Listening(settled[p]) \cup Finallys
                    THEN [ran EXCEPT ![p] = Append(@, b)] ELSE ran
          /\ UNCHANGED callbacks
    /\ UNCHANGED <<settled, busy, todo, threw, awaitVars>>

\* await, up to its return or its block.
Await(s, p) ==
    /\ Free(s)
    /\ busy[p] = None
    /\ settled[p] = "pending"
    /\ awaited' = [awaited EXCEPT ![s] = p]
    /\ asleep' = asleep \cup {s}
    /\ UNCHANGED <<settleVars, asked>>

SpuriousWake(s) ==
    /\ s \in asleep
    /\ asleep' = asleep \ {s}
    /\ UNCHANGED <<settleVars, asked, awaited>>

\* Awake again: the predicate decides between the return and the next block.
FinishAwait(s) ==
    /\ awaited[s] # None
    /\ s \notin asleep
    /\ busy[awaited[s]] = None
    /\ IF settled[awaited[s]] = "pending"
       THEN asleep' = asleep \cup {s} /\ UNCHANGED awaited
       ELSE awaited' = [awaited EXCEPT ![s] = None] /\ UNCHANGED asleep
    /\ UNCHANGED <<settleVars, asked>>

\* What a thread does with promises, apart from settling them.
Use(s) ==
    \/ \E p \in Promises, b \in Callbacks : Register(s, p, b)
    \/ \E p \in Promises : Await(s, p)
    \/ SpuriousWake(s)
    \/ FinishAwait(s)

----------------------------------------------------------------------------
(* Properties.                                                             *)

Occurrences(b, s) == Cardinality({i \in DOMAIN s : s[i] = b})

\* Once a promise is settled and its mutex free, each callback given to it by
\* then, catch_ or finally, before or after or while it settled, has run once
\* if it is for that outcome and never otherwise.  Only a callback that threw
\* may have kept others from running.
CallbacksRunOnce ==
    \A p \in Promises : \A b \in Callbacks :
      /\ Occurrences(b, ran[p]) <= 1
      /\ Occurrences(b, ran[p]) = 1 =>
           b \in asked[p] /\ settled[p] # "pending" /\ b \in Listening(settled[p]) \cup Finallys
      /\ /\ b \in asked[p] \cap (Listening(settled[p]) \cup Finallys)
         /\ settled[p] # "pending" /\ busy[p] = None /\ p \notin threw
         => Occurrences(b, ran[p]) = 1

\* No thread sleeps on a settled promise without its notify_all to come, but
\* for the one a throwing callback cut off.
NoLostSettlement ==
    \A s \in asleep :
      settled[awaited[s]] # "pending" => busy[awaited[s]] # None \/ awaited[s] \in threw
============================================================================
