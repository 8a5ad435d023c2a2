-------------------------- MODULE AsyncRuntimeProofs --------------------------
(***************************************************************************)
(* What the promises and the tasks of AsyncRuntime guarantee for every     *)
(* number of threads, calls, jobs and callbacks.  First the promises       *)
(* alone, used by any threads in any order; then the runtime, every step   *)
(* of which is a step of its promises or leaves them alone.                *)
(***************************************************************************)
EXTENDS AsyncRuntime, SequenceLemmas

USE PromiseAssumption DEF PromiseAssumption

----------------------------------------------------------------------------
(* The promises.                                                           *)

\* What some thread does with some promise.
PromiseStep ==
    \E s \in Threads :
      \/ \E p \in Promises :
           \/ \E how \in {"resolved", "rejected"} : Settle(s, p, how)
           \/ RunCallback(s, p) \/ ThrowFromCallback(s, p) \/ NotifyAwaiting(s, p)
      \/ Use(s)

PromiseTypes ==
    /\ settled \in [Promises -> {"pending", "resolved", "rejected"}]
    /\ busy \in [Promises -> Threads \cup {None}]
    /\ todo \in [Promises -> Seq(Callbacks)]
    /\ callbacks \in [Promises -> [Vectors -> Seq(Callbacks)]]
    /\ asked \in [Promises -> SUBSET Callbacks]
    /\ ran \in [Promises -> Seq(Callbacks)]
    /\ threw \subseteq Promises
    /\ awaited \in [Threads -> Promises \cup {None}]
    /\ asleep \subseteq Threads

\* The callbacks an outcome calls for.
For(how) == Listening(how) \cup Finallys

\* A pending promise keeps each callback it was given, once, in its vector.
PendingInv ==
    \A p \in Promises : settled[p] = "pending" =>
      /\ busy[p] = None /\ todo[p] = <<>> /\ ran[p] = <<>>
      /\ p \notin threw
      /\ \A v \in Vectors :
           /\ IsInjective(callbacks[p][v])
           /\ Range(callbacks[p][v]) = {b \in asked[p] : VectorOf(b) = v}

\* A settled one has run, or has still to run, each callback for its outcome.
SettledInv ==
    \A p \in Promises : settled[p] # "pending" =>
      /\ IsInjective(ran[p]) /\ IsInjective(todo[p])
      /\ Range(ran[p]) \cap Range(todo[p]) = {}
      /\ Range(ran[p]) \cup Range(todo[p]) \subseteq asked[p] \cap For(settled[p])
      /\ p \notin threw =>
           asked[p] \cap For(settled[p]) \subseteq Range(ran[p]) \cup Range(todo[p])
      /\ busy[p] = None => todo[p] = <<>>

\* A thread blocked in await is there to be woken.
AwaitInv ==
    /\ \A s \in asleep : awaited[s] # None
    /\ NoLostSettlement

PromiseInv == PromiseTypes /\ PendingInv /\ SettledInv /\ AwaitInv

\* The callbacks of a vector are those of its kind.
LEMMA VectorsAreKinds ==
    \A b \in Callbacks :
      /\ VectorOf(b) \in Vectors
      /\ VectorOf(b) = "finally" <=> b \in Finallys
      /\ \A how \in {"resolved", "rejected"} : VectorOf(b) = how <=> b \in Listening(how)
BY DEF Callbacks, VectorOf, Vectors, Listening

\* A resolve or reject that takes the promise keeps the invariant.
LEMMA SettleKeeps ==
    ASSUME PromiseInv, NEW s \in Threads, NEW p \in Promises,
           NEW how \in {"resolved", "rejected"}, Settle(s, p, how)
    PROVE  PromiseInv'
<1> USE DEF PromiseInv, settleVars, awaitVars
<1> DEFINE first == callbacks[p][how]
           last  == callbacks[p]["finally"]
<1>1. /\ settled[p] = "pending" /\ busy[p] = None
      /\ settled' = [settled EXCEPT ![p] = how]
      /\ busy' = [busy EXCEPT ![p] = s]
      /\ todo' = [todo EXCEPT ![p] = first \o last]
      /\ UNCHANGED <<callbacks, ran, threw, asked, awaited, asleep>>
  BY DEF Settle
<1>2. /\ first \in Seq(Callbacks) /\ last \in Seq(Callbacks)
      /\ IsInjective(first) /\ IsInjective(last)
      /\ Range(first) = {b \in asked[p] : VectorOf(b) = how}
      /\ Range(last) = {b \in asked[p] : VectorOf(b) = "finally"}
  BY <1>1 DEF PromiseTypes, PendingInv, Vectors
<1>3. Range(first) \cap Range(last) = {}
  BY <1>2
<1>4. Range(first) \cup Range(last) = asked[p] \cap For(how)
  BY <1>2, VectorsAreKinds DEF For, PromiseTypes
<1>5. ran[p] = <<>> /\ p \notin threw
  BY <1>1 DEF PendingInv
<1> HIDE DEF first, last
<1>6. /\ first \o last \in Seq(Callbacks)
      /\ Range(first \o last) = asked[p] \cap For(how)
      /\ IsInjective(first \o last)
  BY <1>2, <1>3, <1>4, Concatenation
<1>7. PromiseTypes'
  BY <1>1, <1>6 DEF PromiseTypes
<1>8. /\ settled'[p] = how /\ busy'[p] = s /\ todo'[p] = first \o last
      /\ \A q \in Promises : q # p =>
           settled'[q] = settled[q] /\ busy'[q] = busy[q] /\ todo'[q] = todo[q]
  BY <1>1 DEF PromiseTypes
<1>9. PendingInv'
  BY <1>1, <1>8 DEF PendingInv
<1>10. SettledInv'
  <2>1. IsInjective(ran[p]) /\ Range(ran[p]) = {}
    BY <1>5 DEF IsInjective, Range
  <2> SUFFICES ASSUME NEW q \in Promises, settled'[q] # "pending"
               PROVE  /\ IsInjective(ran'[q]) /\ IsInjective(todo'[q])
                      /\ Range(ran'[q]) \cap Range(todo'[q]) = {}
                      /\ Range(ran'[q]) \cup Range(todo'[q])
                           \subseteq asked'[q] \cap For(settled'[q])
                      /\ q \notin threw' => asked'[q] \cap For(settled'[q])
                           \subseteq Range(ran'[q]) \cup Range(todo'[q])
                      /\ busy'[q] = None => todo'[q] = <<>>
    BY DEF SettledInv
  <2>2. CASE q = p
    BY ZenonT(40), <1>1, <1>6, <1>8, <2>1, <2>2
  <2>3. CASE q # p
    BY <1>1, <1>8, <2>3 DEF SettledInv
  <2> QED BY <2>2, <2>3
<1>11. AwaitInv'
  <2>1. ASSUME NEW t \in asleep PROVE awaited[t] \in Promises
    BY <2>1 DEF AwaitInv, PromiseTypes
  <2> QED BY <1>1, <1>8, <2>1 DEF AwaitInv, NoLostSettlement
<1> QED BY <1>7, <1>9, <1>10, <1>11

\* A callback that returns, or throws and ends the settling.
LEMMA CallbackKeeps ==
    ASSUME PromiseInv, NEW s \in Threads, NEW p \in Promises,
           RunCallback(s, p) \/ ThrowFromCallback(s, p)
    PROVE  PromiseInv'
<1> USE DEF PromiseInv, settleVars, awaitVars
<1> DEFINE b == Head(todo[p])
<1>1. /\ busy[p] = s /\ todo[p] # <<>>
      /\ ran' = [ran EXCEPT ![p] = Append(@, b)]
      /\ UNCHANGED <<settled, callbacks, asked, awaited, asleep>>
  BY DEF RunCallback, ThrowFromCallback
<1>2. \/ todo' = [todo EXCEPT ![p] = Tail(@)] /\ UNCHANGED <<busy, threw>>
      \/ /\ todo' = [todo EXCEPT ![p] = <<>>]
         /\ busy' = [busy EXCEPT ![p] = None]
         /\ threw' = threw \cup {p}
  BY DEF RunCallback, ThrowFromCallback
<1>3. settled[p] # "pending"
  BY <1>1 DEF PendingInv
<1>4. /\ todo[p] \in Seq(Callbacks) /\ ran[p] \in Seq(Callbacks)
      /\ IsInjective(ran[p]) /\ IsInjective(todo[p])
      /\ Range(ran[p]) \cap Range(todo[p]) = {}
      /\ Range(ran[p]) \cup Range(todo[p]) \subseteq asked[p] \cap For(settled[p])
      /\ p \notin threw =>
           asked[p] \cap For(settled[p]) \subseteq Range(ran[p]) \cup Range(todo[p])
  BY <1>3 DEF PromiseTypes, SettledInv
<1>5. /\ b \in Callbacks /\ Tail(todo[p]) \in Seq(Callbacks)
      /\ Range(todo[p]) = {b} \cup Range(Tail(todo[p]))
      /\ IsInjective(Tail(todo[p])) /\ b \notin Range(Tail(todo[p]))
  BY <1>1, <1>4, PopFront
<1> HIDE DEF b
<1>6. /\ Append(ran[p], b) \in Seq(Callbacks)
      /\ Range(Append(ran[p], b)) = Range(ran[p]) \cup {b}
      /\ IsInjective(Append(ran[p], b))
  BY <1>4, <1>5, PushBack
<1>7. PromiseTypes'
  <2>1. /\ ran' \in [Promises -> Seq(Callbacks)]
        /\ UNCHANGED <<settled, callbacks, asked, awaited, asleep>>
    BY <1>1, <1>6 DEF PromiseTypes
  <2>2. todo' \in [Promises -> Seq(Callbacks)]
    <3>1. <<>> \in Seq(Callbacks)
      OBVIOUS
    <3>2. todo' = [todo EXCEPT ![p] = Tail(todo[p])] \/ todo' = [todo EXCEPT ![p] = <<>>]
      BY <1>2
    <3> QED BY <1>5, <3>1, <3>2 DEF PromiseTypes
  <2>3. busy' \in [Promises -> Threads \cup {None}] /\ threw' \subseteq Promises
    BY <1>2 DEF PromiseTypes
  <2> QED BY <2>1, <2>2, <2>3 DEF PromiseTypes
<1>8. /\ ran'[p] = Append(ran[p], b)
      /\ \A q \in Promises : q # p =>
           ran'[q] = ran[q] /\ busy'[q] = busy[q] /\ todo'[q] = todo[q]
      /\ \A q \in Promises : q # p => (q \in threw' <=> q \in threw)
      /\ \/ todo'[p] = Tail(todo[p]) /\ busy'[p] = s /\ threw' = threw
         \/ todo'[p] = <<>> /\ p \in threw'
  BY <1>1, <1>2 DEF PromiseTypes
<1>9. PendingInv'
  BY <1>1, <1>3, <1>8 DEF PendingInv
<1>10. SettledInv'
  <2> SUFFICES ASSUME NEW q \in Promises, settled'[q] # "pending"
               PROVE  /\ IsInjective(ran'[q]) /\ IsInjective(todo'[q])
                      /\ Range(ran'[q]) \cap Range(todo'[q]) = {}
                      /\ Range(ran'[q]) \cup Range(todo'[q])
                           \subseteq asked'[q] \cap For(settled'[q])
                      /\ q \notin threw' => asked'[q] \cap For(settled'[q])
                           \subseteq Range(ran'[q]) \cup Range(todo'[q])
                      /\ busy'[q] = None => todo'[q] = <<>>
    BY DEF SettledInv
  <2>1. CASE q # p
    BY <1>1, <1>8, <2>1 DEF SettledInv
  <2>2. CASE q = p /\ todo'[p] = Tail(todo[p]) /\ busy'[p] = s /\ threw' = threw
    BY <1>1, <1>4, <1>5, <1>6, <1>8, <2>2
  <2>3. CASE q = p /\ todo'[p] = <<>> /\ p \in threw'
    <3>1. IsInjective(<<>>) /\ Range(<<>>) = {}
      BY DEF IsInjective, Range
    <3> QED BY <1>1, <1>4, <1>5, <1>6, <1>8, <2>3, <3>1
  <2> QED BY <1>8, <2>1, <2>2, <2>3
<1>11. AwaitInv'
  <2>1. ASSUME NEW t \in asleep PROVE awaited[t] \in Promises
    BY <2>1 DEF AwaitInv, PromiseTypes
  <2> QED BY <1>1, <1>8, <2>1 DEF AwaitInv, NoLostSettlement
<1> QED BY <1>7, <1>9, <1>10, <1>11

\* So does its end: the callbacks have run, or one threw, and the sleepers wake.
LEMMA NotifyKeeps ==
    ASSUME PromiseInv, NEW s \in Threads, NEW p \in Promises, NotifyAwaiting(s, p)
    PROVE  PromiseInv'
<1> USE DEF PromiseInv
<1>1. /\ busy[p] = s /\ todo[p] = <<>>
      /\ busy' = [busy EXCEPT ![p] = None]
      /\ asleep' = {t \in asleep : awaited[t] # p}
      /\ UNCHANGED <<settled, todo, callbacks, ran, threw, asked, awaited>>
  BY DEF NotifyAwaiting
<1>2. /\ busy'[p] = None
      /\ \A q \in Promises : q # p => busy'[q] = busy[q]
  BY <1>1 DEF PromiseTypes
<1>3. PromiseTypes'
  BY <1>1 DEF PromiseTypes
<1>4. PendingInv'
  BY <1>1, <1>2 DEF PendingInv
<1>5. SettledInv'
  BY <1>1, <1>2 DEF SettledInv
<1>6. AwaitInv'
  <2>1. ASSUME NEW t \in asleep PROVE awaited[t] \in Promises
    BY <2>1 DEF AwaitInv, PromiseTypes
  <2> QED BY <1>1, <1>2, <2>1 DEF AwaitInv, NoLostSettlement
<1> QED BY <1>3, <1>4, <1>5, <1>6

\* then, catch_ and finally, before the promise is settled or after.
LEMMA RegisterKeeps ==
    ASSUME PromiseInv, NEW s \in Threads, NEW p \in Promises, NEW b \in Callbacks,
           Register(s, p, b)
    PROVE  PromiseInv'
<1> USE DEF PromiseInv, awaitVars
<1>1. /\ b \notin asked[p] /\ busy[p] = None
      /\ asked' = [asked EXCEPT ![p] = @ \cup {b}]
      /\ UNCHANGED <<settled, busy, todo, threw, awaited, asleep>>
  BY DEF Register
<1>2. /\ asked'[p] = asked[p] \cup {b}
      /\ \A q \in Promises : q # p => asked'[q] = asked[q]
  BY <1>1 DEF PromiseTypes
<1>3. AwaitInv'
  BY <1>1 DEF AwaitInv, NoLostSettlement
<1>4. CASE settled[p] = "pending"
  <2> DEFINE v == VectorOf(b)
  <2>1. /\ callbacks' = [callbacks EXCEPT ![p][v] = Append(@, b)]
        /\ ran' = ran
    BY <1>4 DEF Register
  <2>2. v \in Vectors
    BY VectorsAreKinds
  <2>3. /\ callbacks[p][v] \in Seq(Callbacks)
        /\ IsInjective(callbacks[p][v])
        /\ Range(callbacks[p][v]) = {c \in asked[p] : VectorOf(c) = v}
    BY <1>4, <2>2 DEF PendingInv, PromiseTypes
  <2>4. /\ Append(callbacks[p][v], b) \in Seq(Callbacks)
        /\ Range(Append(callbacks[p][v], b)) = Range(callbacks[p][v]) \cup {b}
        /\ IsInjective(Append(callbacks[p][v], b))
    BY <1>1, <2>3, PushBack
  <2>5. /\ callbacks'[p][v] = Append(callbacks[p][v], b)
        /\ \A u \in Vectors : u # v => callbacks'[p][u] = callbacks[p][u]
        /\ \A q \in Promises : q # p => callbacks'[q] = callbacks[q]
    BY <2>1, <2>2 DEF PromiseTypes
  <2>6. PromiseTypes'
    <3>1. callbacks' \in [Promises -> [Vectors -> Seq(Callbacks)]]
      BY <2>1, <2>2, <2>4 DEF PromiseTypes
    <3>2. asked' \in [Promises -> SUBSET Callbacks]
      BY <1>1 DEF PromiseTypes
    <3> QED BY <1>1, <2>1, <3>1, <3>2 DEF PromiseTypes
  <2>7. ASSUME NEW u \in Vectors
        PROVE  /\ IsInjective(callbacks'[p][u])
               /\ Range(callbacks'[p][u]) = {c \in asked'[p] : VectorOf(c) = u}
    <3>1. CASE u = v
      BY <1>2, <2>3, <2>4, <2>5, <3>1
    <3>2. CASE u # v
      <4>1. IsInjective(callbacks[p][u])
            /\ Range(callbacks[p][u]) = {c \in asked[p] : VectorOf(c) = u}
        BY <1>4 DEF PendingInv
      <4> QED BY <1>2, <2>5, <3>2, <4>1
    <3> QED BY <3>1, <3>2
  <2>8. PendingInv'
    BY <1>1, <1>2, <2>1, <2>5, <2>7 DEF PendingInv
  <2>9. SettledInv'
    BY <1>1, <1>2, <1>4, <2>1 DEF SettledInv
  <2> QED BY <1>3, <2>6, <2>8, <2>9
<1>5. CASE settled[p] # "pending"
  <2>1. /\ ran' = IF b \in For(settled[p])
                  THEN [ran EXCEPT ![p] = Append(@, b)] ELSE ran
        /\ callbacks' = callbacks
    BY <1>5 DEF Register, For
  <2>2. /\ ran[p] \in Seq(Callbacks) /\ IsInjective(ran[p])
        /\ todo[p] = <<>>
        /\ Range(ran[p]) \subseteq asked[p] \cap For(settled[p])
        /\ p \notin threw => asked[p] \cap For(settled[p]) \subseteq Range(ran[p]) \cup Range(todo[p])
    BY <1>1, <1>5 DEF SettledInv, PromiseTypes
  <2>3. /\ Append(ran[p], b) \in Seq(Callbacks)
        /\ Range(Append(ran[p], b)) = Range(ran[p]) \cup {b}
        /\ IsInjective(Append(ran[p], b))
    BY <1>1, <2>2, PushBack
  <2>4. IsInjective(<<>>) /\ Range(<<>>) = {}
    BY DEF IsInjective, Range
  <2>5. /\ ran'[p] = IF b \in For(settled[p]) THEN Append(ran[p], b) ELSE ran[p]
        /\ \A q \in Promises : q # p => ran'[q] = ran[q]
    BY <2>1 DEF PromiseTypes
  <2>6. PromiseTypes'
    <3>1. ran' \in [Promises -> Seq(Callbacks)]
      BY <2>1, <2>3 DEF PromiseTypes
    <3>2. asked' \in [Promises -> SUBSET Callbacks]
      BY <1>1 DEF PromiseTypes
    <3> QED BY <1>1, <2>1, <3>1, <3>2 DEF PromiseTypes
  <2>7. PendingInv'
    BY <1>1, <1>2, <1>5, <2>1, <2>5 DEF PendingInv
  <2>8. SettledInv'
    <3> SUFFICES ASSUME NEW q \in Promises, settled'[q] # "pending"
                 PROVE  /\ IsInjective(ran'[q]) /\ IsInjective(todo'[q])
                        /\ Range(ran'[q]) \cap Range(todo'[q]) = {}
                        /\ Range(ran'[q]) \cup Range(todo'[q])
                             \subseteq asked'[q] \cap For(settled'[q])
                        /\ q \notin threw' => asked'[q] \cap For(settled'[q])
                             \subseteq Range(ran'[q]) \cup Range(todo'[q])
                        /\ busy'[q] = None => todo'[q] = <<>>
      BY DEF SettledInv
    <3>1. CASE q # p
      BY <1>1, <1>2, <2>5, <3>1 DEF SettledInv
    <3>2. CASE q = p /\ b \in For(settled[p])
      BY <1>1, <1>2, <2>2, <2>3, <2>4, <2>5, <3>2
    <3>3. CASE q = p /\ b \notin For(settled[p])
      BY <1>1, <1>2, <2>2, <2>4, <2>5, <3>3
    <3> QED BY <3>1, <3>2, <3>3
  <2> QED BY <1>3, <2>6, <2>7, <2>8
<1> QED BY <1>4, <1>5

\* await, its spurious wakes and its return.
LEMMA AwaitKeeps ==
    ASSUME PromiseInv, NEW s \in Threads,
           (\E p \in Promises : Await(s, p)) \/ SpuriousWake(s) \/ FinishAwait(s)
    PROVE  PromiseInv'
<1> USE DEF PromiseInv, settleVars
<1>1. UNCHANGED <<settled, busy, todo, callbacks, ran, threw, asked>>
  BY DEF Await, SpuriousWake, FinishAwait
<1>2. PendingInv' /\ SettledInv'
  BY <1>1 DEF PendingInv, SettledInv
<1>6. ASSUME asleep' \subseteq asleep, awaited' = awaited PROVE PromiseTypes' /\ AwaitInv'
  <2>1. PromiseTypes'
    BY <1>1, <1>6 DEF PromiseTypes
  <2>2. AwaitInv'
    BY <1>1, <1>6 DEF AwaitInv, NoLostSettlement
  <2> QED BY <2>1, <2>2
<1>3. ASSUME NEW p \in Promises, Await(s, p) PROVE PromiseTypes' /\ AwaitInv'
  <2>1. /\ awaited' = [awaited EXCEPT ![s] = p]
        /\ asleep' = asleep \cup {s}
        /\ settled[p] = "pending"
    BY <1>3 DEF Await
  <2>2. PromiseTypes'
    BY <1>1, <2>1 DEF PromiseTypes
  <2>3. awaited'[s] = p /\ \A t \in Threads : t # s => awaited'[t] = awaited[t]
    BY <2>1 DEF PromiseTypes
  <2>4. AwaitInv'
    BY <1>1, <2>1, <2>3 DEF AwaitInv, NoLostSettlement, PromiseTypes
  <2> QED BY <2>2, <2>4
<1>4. CASE SpuriousWake(s)
  <2>1. asleep' \subseteq asleep /\ awaited' = awaited
    BY <1>4 DEF SpuriousWake
  <2> QED BY <1>1, <1>2, <1>6, <2>1
<1>5. CASE FinishAwait(s)
  <2>1. awaited[s] # None /\ s \notin asleep
    BY <1>5 DEF FinishAwait
  <2>2. CASE settled[awaited[s]] = "pending"
    <3>1. asleep' = asleep \cup {s} /\ awaited' = awaited
      BY <1>5, <2>2 DEF FinishAwait
    <3>2. PromiseTypes'
      BY <1>1, <3>1 DEF PromiseTypes
    <3>3. AwaitInv'
      BY <1>1, <2>1, <2>2, <3>1 DEF AwaitInv, NoLostSettlement
    <3> QED BY <1>2, <3>2, <3>3
  <2>3. CASE settled[awaited[s]] # "pending"
    <3>1. awaited' = [awaited EXCEPT ![s] = None] /\ asleep' = asleep
      BY <1>5, <2>3 DEF FinishAwait
    <3>2. \A t \in asleep : awaited'[t] = awaited[t]
      BY <2>1, <3>1 DEF PromiseTypes
    <3>3. PromiseTypes'
      BY <1>1, <3>1 DEF PromiseTypes
    <3>4. AwaitInv'
      BY <1>1, <3>1, <3>2 DEF AwaitInv, NoLostSettlement
    <3> QED BY <1>2, <3>3, <3>4
  <2> QED BY <2>2, <2>3
<1> QED BY <1>2, <1>3, <1>4, <1>5

\* No promise has been asked anything.
LEMMA PromiseInitially == PromiseInit => PromiseInv
<1> SUFFICES ASSUME PromiseInit PROVE PromiseInv
  OBVIOUS
<1> USE DEF PromiseInit
<1>1. /\ <<>> \in Seq(Callbacks)
      /\ IsInjective(<<>>) /\ Range(<<>>) = {}
  BY DEF IsInjective, Range
<1>2. PromiseTypes
  BY <1>1 DEF PromiseTypes
<1>3. PendingInv
  BY <1>1 DEF PendingInv
<1>4. SettledInv /\ AwaitInv
  BY DEF SettledInv, AwaitInv, NoLostSettlement
<1> QED BY <1>2, <1>3, <1>4 DEF PromiseInv

\* Every step of a promise keeps the invariant of promises.
LEMMA PromiseStepKeeps == PromiseInv /\ [PromiseStep]_promiseVars => PromiseInv'
<1> SUFFICES ASSUME PromiseInv, [PromiseStep]_promiseVars PROVE PromiseInv'
  OBVIOUS
<1>1. CASE PromiseStep
  BY <1>1, SettleKeeps, CallbackKeeps, NotifyKeeps, RegisterKeeps, AwaitKeeps
     DEF PromiseStep, Use
<1>2. CASE UNCHANGED promiseVars
  BY <1>2 DEF promiseVars, settleVars, awaitVars, PromiseInv, PromiseTypes, PendingInv,
     SettledInv, AwaitInv, NoLostSettlement
<1> QED BY <1>1, <1>2

\* What the callbacks of a promise see of it.
LEMMA InvRunsOnce == PromiseInv => CallbacksRunOnce
<1> SUFFICES ASSUME PromiseInv, NEW p \in Promises, NEW b \in Callbacks
             PROVE  /\ Occurrences(b, ran[p]) <= 1
                    /\ Occurrences(b, ran[p]) = 1 =>
                         /\ b \in asked[p]
                         /\ settled[p] # "pending"
                         /\ b \in Listening(settled[p]) \cup Finallys
                    /\ /\ b \in asked[p] \cap (Listening(settled[p]) \cup Finallys)
                       /\ settled[p] # "pending"
                       /\ busy[p] = None
                       /\ p \notin threw
                       => Occurrences(b, ran[p]) = 1
  BY DEF CallbacksRunOnce
<1>1. ran[p] \in Seq(Callbacks) /\ IsInjective(ran[p])
  <2>1. IsInjective(<<>>)
    BY DEF IsInjective
  <2> QED BY <2>1 DEF PromiseInv, PromiseTypes, PendingInv, SettledInv
<1>2. Occurrences(b, ran[p]) = IF b \in Range(ran[p]) THEN 1 ELSE 0
  BY <1>1, StandsOnce DEF Occurrences
<1>3. Range(<<>>) = {}
  BY DEF Range
<1>4. CASE settled[p] = "pending"
  BY <1>2, <1>3, <1>4 DEF PromiseInv, PendingInv
<1>5. CASE settled[p] # "pending"
  BY <1>2, <1>3, <1>5 DEF PromiseInv, SettledInv, For
<1> QED BY <1>4, <1>5

----------------------------------------------------------------------------
(* The runtime.                                                            *)

WorkerPC == {"none", "test", "lock", "block", "waiting", "count", "execute", "body",
             "settle", "callbacks", "finish", "notify", "uncount", "tally", "exited"}

\* A worker past TakeTask has a task.
Holding == {"count", "execute", "body", "settle", "callbacks", "finish", "notify",
            "uncount", "tally"}

RuntimeTypes ==
    /\ size \in 0..MaxThreads
    /\ goal \in 0..MaxThreads
    /\ joinNext \in Nat \ {0}
    /\ octl \in {"idle", "spawn", "notify", "join"}
    /\ wpc \in [Workers -> WorkerPC]
    /\ hand \in [Workers -> Tasks \cup {None}]
    /\ ending \in [Workers -> {"none", "resolved", "rejected"}]
    /\ taskQueue \in Seq(Tasks)
    /\ state \in [Tasks -> {"new", "PENDING", "RUNNING", "COMPLETED", "FAILED"}]

\* No thread above size; a join has only exited threads behind it.
SlotsInv ==
    /\ \A w \in Workers : w > size => wpc[w] = "none"
    /\ octl = "join" => \A w \in Workers : w < joinNext => wpc[w] = "exited"
    /\ octl # "join" => joinNext = 1

Queued == Range(taskQueue)

\* A task that was submitted is queued, or with one worker, or finished.
PlacesInv ==
    /\ IsInjective(taskQueue)
    /\ \A t \in Queued : state[t] = "PENDING"
    /\ \A w \in Workers : wpc[w] \in Holding =>
         /\ hand[w] \in Tasks \ Queued
         /\ state[hand[w]] # "new"
         /\ \A v \in Workers : wpc[v] \in Holding /\ hand[v] = hand[w] => v = w

\* How far the worker is with the task in its hand, and with the promise if
\* the task is a call.
StagesInv ==
    \A w \in Workers : LET t == hand[w] IN
      /\ wpc[w] \in {"count", "execute"} => state[t] = "PENDING"
      /\ wpc[w] \in {"body", "settle", "callbacks", "finish"} => state[t] = "RUNNING"
      /\ wpc[w] \in {"settle", "callbacks"} =>
           t \in Calls /\ ending[w] \in {"resolved", "rejected"}
      /\ wpc[w] \in {"body", "settle"} /\ t \in Calls => settled[t] = "pending"
      /\ wpc[w] = "callbacks" => settled[t] = ending[w]
      /\ wpc[w] = "finish" => ending[w] \in {"resolved", "rejected"}
      /\ wpc[w] = "finish" /\ t \in Calls =>
           /\ ending[w] = "resolved" => settled[t] = "resolved"
           /\ ending[w] = "rejected" => settled[t] = "rejected" \/ t \in threw

RuntimeInv == RuntimeTypes /\ SlotsInv /\ PlacesInv /\ StagesInv /\ TaskAgreesWithPromise



\* A step of a worker moves that worker alone, and only while its thread is
\* there and has not left the loop; what it changes of tasks and promises is
\* the state, settlement and exceptions of the task in its hand.
LEMMA WorkerFrame ==
    ASSUME RuntimeTypes, NEW w \in Workers, Worker(w)
    PROVE  /\ wpc[w] \notin {"none", "exited"}
           /\ \A v \in Workers : v # w =>
                wpc'[v] = wpc[v] /\ hand'[v] = hand[v] /\ ending'[v] = ending[v]
           /\ wpc'[w] \in Holding => \/ TakeTask(w)
                                     \/ wpc[w] \in Holding /\ hand'[w] = hand[w]
           /\ UNCHANGED ownerVars
<1> USE DEF RuntimeTypes, Goto, Holding, workVars, taskVars, waitVars
<1>1. CASE TestRunning(w) \/ LeaveLoop(w) \/ FindNothing(w) \/ Block(w)
  BY <1>1 DEF TestRunning, LeaveLoop, FindNothing, Block
<1>2. CASE SpuriouslyWoken(w) \/ TakeTask(w) \/ CountActive(w) \/ BeginExecute(w)
  BY <1>2 DEF SpuriouslyWoken, TakeTask, CountActive, BeginExecute
<1>3. CASE RunFunction(w)
  <2>1. PICK e \in {"resolved", "rejected"} : ending' = [ending EXCEPT ![w] = e]
    BY <1>3 DEF RunFunction
  <2> QED BY <1>3, <2>1 DEF RunFunction
<1>4. CASE SettleCall(w) \/ RunCallbackOfCall(w) \/ FailInCallback(w) \/ NotifyOfCall(w)
  BY <1>4 DEF SettleCall, RunCallbackOfCall, FailInCallback, NotifyOfCall
<1>5. CASE FinishTask(w) \/ NotifyResult(w) \/ CountDone(w) \/ Tally(w)
  BY <1>5 DEF FinishTask, NotifyResult, CountDone, Tally
<1> QED BY <1>1, <1>2, <1>3, <1>4, <1>5 DEF Worker

\* The steps of a worker with an empty hand, but for TakeTask.
LEMMA WorkerIdles ==
    ASSUME RuntimeTypes, NEW w \in Workers,
           TestRunning(w) \/ LeaveLoop(w) \/ FindNothing(w) \/ Block(w) \/ SpuriouslyWoken(w)
    PROVE  /\ \A v \in Workers : wpc[v] \in Holding \/ wpc'[v] \in Holding => wpc'[v] = wpc[v]
           /\ wpc' \in [Workers -> WorkerPC]
           /\ UNCHANGED <<hand, ending, taskQueue, state, promiseVars>>
<1> USE DEF RuntimeTypes, Goto, Holding, WorkerPC, taskVars
<1>1. CASE TestRunning(w) \/ LeaveLoop(w)
  BY <1>1 DEF TestRunning, LeaveLoop
<1>2. CASE FindNothing(w) \/ Block(w) \/ SpuriouslyWoken(w)
  BY <1>2 DEF FindNothing, Block, SpuriouslyWoken
<1> QED BY <1>1, <1>2

\* A step that leaves every worker with the task it has, and the tasks alone.
LEMMA QuietStep ==
    ASSUME PlacesInv, StagesInv, TaskAgreesWithPromise,
           \A v \in Workers : wpc[v] \in Holding \/ wpc'[v] \in Holding => wpc'[v] = wpc[v],
           UNCHANGED <<hand, ending, taskQueue, state, settled, threw>>
    PROVE  PlacesInv' /\ StagesInv' /\ TaskAgreesWithPromise'
<1>1. PlacesInv'
  BY DEF PlacesInv, Queued
<1>2. StagesInv'
  BY DEF StagesInv, Holding
<1>3. TaskAgreesWithPromise'
  BY DEF TaskAgreesWithPromise
<1> QED BY <1>1, <1>2, <1>3

\* A worker that takes a task from the queue keeps the invariant.
LEMMA TakeKeeps ==
    ASSUME RuntimeInv, NEW w \in Workers, TakeTask(w)
    PROVE  RuntimeTypes' /\ PlacesInv' /\ StagesInv' /\ TaskAgreesWithPromise'
<1> USE DEF RuntimeInv
<1> DEFINE t == Head(taskQueue)
<1>1. /\ taskQueue \in Seq(Tasks) /\ taskQueue # <<>>
      /\ wpc[w] = "lock"
      /\ wpc' = [wpc EXCEPT ![w] = "count"]
      /\ hand' = [hand EXCEPT ![w] = t]
      /\ taskQueue' = Tail(taskQueue)
      /\ UNCHANGED <<ending, state, settled, threw, ownerVars>>
  BY DEF RuntimeTypes, TakeTask, Goto, taskVars, promiseVars, settleVars
<1>2. /\ t \in Tasks /\ Tail(taskQueue) \in Seq(Tasks)
      /\ Queued = {t} \cup Queued'
      /\ IsInjective(taskQueue') /\ t \notin Queued'
  BY <1>1, PopFront DEF PlacesInv, Queued
<1> HIDE DEF t
<1>3. /\ wpc'[w] = "count" /\ hand'[w] = t
      /\ \A v \in Workers : v # w => wpc'[v] = wpc[v] /\ hand'[v] = hand[v]
  BY <1>1 DEF RuntimeTypes
<1>4. state[t] = "PENDING"
  BY <1>2 DEF PlacesInv
<1>5. RuntimeTypes'
  BY <1>1, <1>2 DEF RuntimeTypes, WorkerPC, ownerVars
<1>6. PlacesInv'
  <2>1. \A v \in Workers : wpc[v] \in Holding => hand[v] # t
    BY <1>2 DEF PlacesInv
  <2> QED BY <1>1, <1>2, <1>3, <1>4, <2>1 DEF PlacesInv, Holding
<1>7. StagesInv'
  BY <1>1, <1>3, <1>4 DEF StagesInv
<1>8. TaskAgreesWithPromise'
  BY <1>1 DEF TaskAgreesWithPromise
<1> QED BY <1>5, <1>6, <1>7, <1>8

\* The steps of a worker on the task in its hand.
WorksOn(w) ==
    \/ CountActive(w) \/ BeginExecute(w) \/ RunFunction(w) \/ SettleCall(w)
    \/ RunCallbackOfCall(w) \/ FailInCallback(w) \/ NotifyOfCall(w) \/ FinishTask(w)
    \/ NotifyResult(w) \/ CountDone(w) \/ Tally(w)

\* What a worker does after that stays within the types,
LEMMA WorkTypes ==
    ASSUME RuntimeInv, NEW w \in Workers, WorksOn(w)
    PROVE  RuntimeTypes'
<1> USE DEF RuntimeInv, RuntimeTypes, Goto, WorkerPC, Holding, ownerVars, taskVars, workVars
<1>1. CASE CountActive(w) \/ NotifyResult(w) \/ CountDone(w)
  BY <1>1 DEF CountActive, NotifyResult, CountDone
<1>2. CASE BeginExecute(w) \/ FinishTask(w)
  <2>1. hand[w] \in Tasks
    BY <1>2 DEF BeginExecute, FinishTask, PlacesInv
  <2> QED BY <1>2, <2>1 DEF BeginExecute, FinishTask
<1>3. CASE RunFunction(w)
  <2>1. PICK e \in {"resolved", "rejected"} : ending' = [ending EXCEPT ![w] = e]
    BY <1>3 DEF RunFunction
  <2>2. ending' \in [Workers -> {"none", "resolved", "rejected"}]
    BY <2>1
  <2> QED BY <1>3, <2>2 DEF RunFunction
<1>4. CASE SettleCall(w) \/ RunCallbackOfCall(w) \/ NotifyOfCall(w)
  BY <1>4 DEF SettleCall, RunCallbackOfCall, NotifyOfCall
<1>5. CASE FailInCallback(w)
  BY <1>5 DEF FailInCallback
<1>6. CASE Tally(w)
  BY <1>6 DEF Tally
<1> QED BY <1>1, <1>2, <1>3, <1>4, <1>5, <1>6 DEF WorksOn

\* Such a step changes nothing of any other task.
LEMMA WorkIsLocal ==
    ASSUME RuntimeInv, PromiseTypes, NEW w \in Workers, WorksOn(w)
    PROVE  /\ wpc[w] \in Holding /\ hand[w] \in Tasks
           /\ UNCHANGED taskQueue
           /\ \A t \in Tasks : t # hand[w] => state'[t] = state[t]
           /\ \A t \in Calls : t # hand[w] =>
                settled'[t] = settled[t] /\ (t \in threw' <=> t \in threw)
           /\ state'[hand[w]] # "new"
<1> USE DEF RuntimeInv, RuntimeTypes, PromiseTypes, Calls, Goto, Holding, PlacesInv, taskVars, workVars,
            promiseVars, settleVars
<1>1. CASE CountActive(w) \/ NotifyResult(w) \/ CountDone(w) \/ RunFunction(w) \/ Tally(w)
  BY <1>1 DEF CountActive, NotifyResult, CountDone, RunFunction, Tally
<1>2. CASE BeginExecute(w) \/ FinishTask(w)
  BY <1>2 DEF BeginExecute, FinishTask
<1>3. CASE SettleCall(w) \/ RunCallbackOfCall(w)
  BY <1>3 DEF SettleCall, RunCallbackOfCall, Settle, RunCallback
<1>4. CASE FailInCallback(w) \/ NotifyOfCall(w)
  BY <1>4 DEF FailInCallback, NotifyOfCall, ThrowFromCallback, NotifyAwaiting
<1> QED BY <1>1, <1>2, <1>3, <1>4 DEF WorksOn

\* And it takes its own task from one stage to the next.
LEMMA WorkAdvances ==
    ASSUME RuntimeInv, PromiseTypes, NEW w \in Workers, WorksOn(w)
    PROVE  LET t == hand[w] IN
           /\ wpc'[w] \in {"count", "execute"} => state'[t] = "PENDING"
           /\ wpc'[w] \in {"body", "settle", "callbacks", "finish"} => state'[t] = "RUNNING"
           /\ wpc'[w] \in {"settle", "callbacks"} =>
                t \in Calls /\ ending'[w] \in {"resolved", "rejected"}
           /\ wpc'[w] \in {"body", "settle"} /\ t \in Calls => settled'[t] = "pending"
           /\ wpc'[w] = "callbacks" => settled'[t] = ending'[w]
           /\ wpc'[w] = "finish" => ending'[w] \in {"resolved", "rejected"}
           /\ wpc'[w] = "finish" /\ t \in Calls =>
                /\ ending'[w] = "resolved" => settled'[t] = "resolved"
                /\ ending'[w] = "rejected" => settled'[t] = "rejected" \/ t \in threw'
           /\ t \in Calls =>
                /\ state'[t] = "COMPLETED" => settled'[t] = "resolved"
                /\ state'[t] = "FAILED" => settled'[t] = "rejected" \/ t \in threw'
                /\ settled'[t] # "pending" => state'[t] \notin {"new", "PENDING"}
<1> DEFINE t == hand[w]
<1>1. /\ t \in Tasks
      /\ wpc[w] \in {"count", "execute"} => state[t] = "PENDING"
      /\ wpc[w] \in {"body", "settle", "callbacks", "finish"} => state[t] = "RUNNING"
      /\ wpc[w] \in {"settle", "callbacks"} =>
           t \in Calls /\ ending[w] \in {"resolved", "rejected"}
      /\ wpc[w] \in {"body", "settle"} /\ t \in Calls => settled[t] = "pending"
      /\ wpc[w] = "callbacks" => settled[t] = ending[w]
      /\ wpc[w] = "finish" => ending[w] \in {"resolved", "rejected"}
      /\ wpc[w] = "finish" /\ t \in Calls =>
           /\ ending[w] = "resolved" => settled[t] = "resolved"
           /\ ending[w] = "rejected" => settled[t] = "rejected" \/ t \in threw
  BY WorkIsLocal DEF RuntimeInv, StagesInv
<1>2. t \in Calls =>
        /\ state[t] = "COMPLETED" => settled[t] = "resolved"
        /\ state[t] = "FAILED" => settled[t] = "rejected" \/ t \in threw
        /\ settled[t] # "pending" => state[t] \notin {"new", "PENDING"}
  BY DEF RuntimeInv, TaskAgreesWithPromise
<1>3. /\ wpc \in [Workers -> WorkerPC]
      /\ ending \in [Workers -> {"none", "resolved", "rejected"}]
      /\ state \in [Tasks -> {"new", "PENDING", "RUNNING", "COMPLETED", "FAILED"}]
      /\ settled \in [Calls -> {"pending", "resolved", "rejected"}]
      /\ Calls \subseteq Tasks
  BY DEF RuntimeInv, RuntimeTypes, PromiseTypes, Calls, Tasks
<1> HIDE DEF t
<1> USE DEF Goto, taskVars, workVars, promiseVars, settleVars
<1>4. CASE CountActive(w)
  BY <1>1, <1>2, <1>3, <1>4 DEF CountActive, t
<1>5. CASE BeginExecute(w)
  BY <1>1, <1>2, <1>3, <1>5 DEF BeginExecute, t
<1>6. CASE RunFunction(w)
  <2>1. PICK e \in {"resolved", "rejected"} : ending' = [ending EXCEPT ![w] = e]
    BY <1>6 DEF RunFunction
  <2>2. /\ wpc[w] = "body"
        /\ wpc'[w] = IF t \in Calls THEN "settle" ELSE "finish"
        /\ ending'[w] = e
        /\ UNCHANGED <<state, settled, threw>>
    BY <1>3, <1>6, <2>1 DEF RunFunction, t
  <2> QED BY <1>1, <1>2, <2>2 DEF t
<1>7. CASE SettleCall(w)
  <2>1. /\ wpc[w] = "settle" /\ wpc'[w] = "callbacks"
        /\ settled' = [settled EXCEPT ![t] = ending[w]]
        /\ UNCHANGED <<ending, state, threw>>
    BY <1>3, <1>7 DEF SettleCall, Settle, t
  <2> QED BY <1>1, <1>2, <1>3, <2>1 DEF t
<1>8. CASE RunCallbackOfCall(w)
  BY <1>1, <1>2, <1>8 DEF RunCallbackOfCall, RunCallback, t
<1>9. CASE FailInCallback(w)
  <2>1. /\ wpc[w] = "callbacks" /\ wpc'[w] = "finish"
        /\ ending'[w] = "rejected"
        /\ t \in threw'
        /\ UNCHANGED <<state, settled>>
    BY <1>3, <1>9 DEF FailInCallback, ThrowFromCallback, t
  <2> QED BY <1>1, <1>2, <2>1 DEF t
<1>10. CASE NotifyOfCall(w)
  BY <1>1, <1>2, <1>3, <1>10 DEF NotifyOfCall, NotifyAwaiting, t
<1>11. CASE FinishTask(w)
  <2>1. /\ wpc[w] = "finish" /\ wpc'[w] = "notify"
        /\ state'[t] = IF ending[w] = "resolved" THEN "COMPLETED" ELSE "FAILED"
        /\ UNCHANGED <<settled, threw>>
    BY <1>1, <1>3, <1>11 DEF FinishTask, t
  <2> QED BY <1>1, <1>2, <2>1 DEF t
<1>12. CASE NotifyResult(w) \/ CountDone(w) \/ Tally(w)
  BY <1>1, <1>2, <1>3, <1>12 DEF NotifyResult, CountDone, Tally, t
<1> QED BY <1>4, <1>5, <1>6, <1>7, <1>8, <1>9, <1>10, <1>11, <1>12 DEF WorksOn, t

\* and keeps the invariant.
LEMMA WorkKeeps ==
    ASSUME RuntimeInv, PromiseTypes, NEW w \in Workers, WorksOn(w)
    PROVE  PlacesInv' /\ StagesInv' /\ TaskAgreesWithPromise'
<1> DEFINE t == hand[w]
<1>1. /\ \A v \in Workers : v # w =>
           wpc'[v] = wpc[v] /\ hand'[v] = hand[v] /\ ending'[v] = ending[v]
      /\ wpc'[w] \in Holding => hand'[w] = t
  BY WorkerFrame DEF RuntimeInv, WorksOn, Worker, TakeTask, CountActive, BeginExecute,
     RunFunction, SettleCall, RunCallbackOfCall, FailInCallback, NotifyOfCall, FinishTask,
     NotifyResult, CountDone, Tally, Goto, Holding
<1>2. /\ wpc[w] \in Holding /\ t \in Tasks
      /\ taskQueue' = taskQueue /\ Queued' = Queued
      /\ \A u \in Tasks : u # t => state'[u] = state[u]
      /\ \A u \in Calls : u # t =>
           settled'[u] = settled[u] /\ (u \in threw' <=> u \in threw)
      /\ state'[t] # "new"
  BY WorkIsLocal DEF Queued
<1>3. \A v \in Workers : v # w /\ wpc[v] \in Holding => hand[v] # t /\ hand[v] \in Tasks
  BY <1>2 DEF RuntimeInv, PlacesInv
<1>4. /\ t \notin Queued
      /\ \A u \in Queued : u \in Tasks
  BY <1>2 DEF RuntimeInv, PlacesInv, RuntimeTypes, Queued, Range
<1> HIDE DEF t
<1>5. PlacesInv'
  <2>1. \A u \in Queued' : state'[u] = "PENDING"
    BY <1>2, <1>4 DEF RuntimeInv, PlacesInv
  <2>2. ASSUME NEW v \in Workers, wpc'[v] \in Holding
        PROVE  /\ hand'[v] \in Tasks \ Queued'
               /\ state'[hand'[v]] # "new"
               /\ \A u \in Workers : wpc'[u] \in Holding /\ hand'[u] = hand'[v] => u = v
    <3>1. CASE v = w
      BY <1>1, <1>2, <1>3, <1>4, <2>2, <3>1
    <3>2. CASE v # w
      <4>1. /\ wpc[v] \in Holding /\ hand'[v] = hand[v]
            /\ hand[v] \in Tasks \ Queued
            /\ hand[v] # t
            /\ state[hand[v]] # "new"
            /\ \A u \in Workers : wpc[u] \in Holding /\ hand[u] = hand[v] => u = v
        BY <1>1, <1>3, <2>2, <3>2 DEF RuntimeInv, PlacesInv
      <4>2. ASSUME NEW u \in Workers, wpc'[u] \in Holding, hand'[u] = hand'[v] PROVE u = v
        <5>1. CASE u = w
          BY <1>1, <4>1, <4>2, <5>1
        <5>2. CASE u # w
          BY <1>1, <4>1, <4>2, <5>2
        <5> QED BY <5>1, <5>2
      <4> QED BY <1>2, <4>1, <4>2
    <3> QED BY <3>1, <3>2
  <2> QED BY <1>2, <2>1, <2>2 DEF RuntimeInv, PlacesInv
<1>6. StagesInv'
  <2> SUFFICES ASSUME NEW v \in Workers, wpc'[v] \in Holding
               PROVE  LET u == hand'[v] IN
                 /\ wpc'[v] \in {"count", "execute"} => state'[u] = "PENDING"
                 /\ wpc'[v] \in {"body", "settle", "callbacks", "finish"} => state'[u] = "RUNNING"
                 /\ wpc'[v] \in {"settle", "callbacks"} =>
                      u \in Calls /\ ending'[v] \in {"resolved", "rejected"}
                 /\ wpc'[v] \in {"body", "settle"} /\ u \in Calls => settled'[u] = "pending"
                 /\ wpc'[v] = "callbacks" => settled'[u] = ending'[v]
                 /\ wpc'[v] = "finish" => ending'[v] \in {"resolved", "rejected"}
                 /\ wpc'[v] = "finish" /\ u \in Calls =>
                      /\ ending'[v] = "resolved" => settled'[u] = "resolved"
                      /\ ending'[v] = "rejected" => settled'[u] = "rejected" \/ u \in threw'
    BY DEF StagesInv, Holding
  <2>1. CASE v = w
    BY <1>1, <2>1, WorkAdvances DEF t
  <2>2. CASE v # w
    <3>1. wpc'[v] = wpc[v] /\ hand'[v] = hand[v] /\ ending'[v] = ending[v]
      BY <1>1, <2>2
    <3>2. hand[v] # t /\ hand[v] \in Tasks
      BY <1>3, <2>2, <3>1
    <3>3. /\ state'[hand[v]] = state[hand[v]]
          /\ hand[v] \in Calls => /\ settled'[hand[v]] = settled[hand[v]]
                                  /\ hand[v] \in threw' <=> hand[v] \in threw
      BY <1>2, <3>2
    <3> QED BY <3>1, <3>3 DEF RuntimeInv, StagesInv
  <2> QED BY <2>1, <2>2
<1>7. TaskAgreesWithPromise'
  <2> SUFFICES ASSUME NEW u \in Calls
               PROVE  /\ state'[u] = "COMPLETED" => settled'[u] = "resolved"
                      /\ state'[u] = "FAILED" => settled'[u] = "rejected" \/ u \in threw'
                      /\ settled'[u] # "pending" => state'[u] \notin {"new", "PENDING"}
    BY DEF TaskAgreesWithPromise
  <2>1. CASE u = t
    BY <2>1, WorkAdvances DEF t
  <2>2. CASE u # t
    BY <1>2, <2>2 DEF RuntimeInv, TaskAgreesWithPromise, Tasks
  <2> QED BY <2>1, <2>2
<1> QED BY <1>5, <1>6, <1>7


\* submitTask puts a task that no worker knows at the back of the queue.
LEMMA SubmitKeeps ==
    ASSUME RuntimeInv, NEW c \in Clients, NEW t \in Tasks, Submit(c, t)
    PROVE  RuntimeInv'
<1> USE DEF RuntimeInv
<1>1. /\ state[t] = "new"
      /\ state' = [state EXCEPT ![t] = "PENDING"]
      /\ taskQueue' = Append(taskQueue, t)
      /\ UNCHANGED <<hand, ending, settled, threw, ownerVars>>
  BY DEF Submit, promiseVars, settleVars
<1>2. /\ wpc' \in [Workers -> WorkerPC]
      /\ \A v \in Workers : wpc'[v] = wpc[v] \/ (wpc[v] = "waiting" /\ wpc'[v] = "lock")
  BY DEF RuntimeTypes, WorkerPC, Submit, Goto
<1>3. taskQueue \in Seq(Tasks) /\ t \notin Queued
  BY <1>1 DEF RuntimeTypes, PlacesInv
<1>4. /\ taskQueue' \in Seq(Tasks) /\ IsInjective(taskQueue')
      /\ Queued' = Queued \cup {t}
  BY <1>1, <1>3, PushBack DEF PlacesInv, Queued
<1>5. /\ state'[t] = "PENDING"
      /\ \A u \in Tasks : u # t => state'[u] = state[u]
      /\ Queued \subseteq Tasks
  BY <1>1, <1>3 DEF RuntimeTypes, Queued, Range
<1>6. \A v \in Workers : wpc'[v] \in Holding =>
        /\ wpc[v] = wpc'[v] /\ hand[v] \in Tasks /\ hand[v] # t
        /\ state'[hand[v]] = state[hand[v]]
  <2>1. \A v \in Workers : wpc'[v] \in Holding => wpc[v] = wpc'[v]
    BY <1>2 DEF Holding
  <2> QED BY <1>1, <1>5, <2>1 DEF PlacesInv
<1>7. RuntimeTypes' /\ SlotsInv'
  <2>1. RuntimeTypes'
    BY <1>1, <1>2, <1>4 DEF RuntimeTypes, ownerVars
  <2>2. SlotsInv'
    BY <1>1, <1>2 DEF SlotsInv, ownerVars
  <2> QED BY <2>1, <2>2
<1>8. PlacesInv'
  BY <1>1, <1>4, <1>5, <1>6 DEF PlacesInv
<1>9. StagesInv'
  BY <1>1, <1>6 DEF StagesInv, Holding
<1>10. TaskAgreesWithPromise'
  BY <1>1, <1>5 DEF TaskAgreesWithPromise, Tasks
<1> QED BY <1>7, <1>8, <1>9, <1>10

\* Waiting for a job, and then, catch_, finally and await, move no task and
\* settle no promise.
LEMMA ClientIdles ==
    ASSUME NEW c \in Clients,
           (\E t \in Jobs : BeginWait(c, t)) \/ TestFinished(c) \/ BlockClient(c) \/ UsePromise(c)
    PROVE  UNCHANGED <<taskVars, ownerVars, workVars, settled, threw>>
<1>1. CASE (\E t \in Jobs : BeginWait(c, t)) \/ TestFinished(c) \/ BlockClient(c)
  BY <1>1 DEF BeginWait, TestFinished, BlockClient, promiseVars, settleVars
<1>2. CASE UsePromise(c)
  BY <1>2 DEF UsePromise, Use, Register, Await, SpuriousWake, FinishAwait, settleVars
<1> QED BY <1>1, <1>2

\* start spawns into empty slots, stop wakes blocked threads and drops exited
\* ones: neither moves a worker that has a task.
LEMMA OwnerKeeps ==
    ASSUME RuntimeInv, Owner
    PROVE  RuntimeInv' /\ UNCHANGED promiseVars
<1> USE RuntimeAssumption DEF RuntimeAssumption, Workers, RuntimeInv, taskVars, workVars
<1>1. /\ \A v \in Workers : wpc[v] \in Holding \/ wpc'[v] \in Holding => wpc'[v] = wpc[v]
      /\ RuntimeTypes' /\ SlotsInv'
      /\ UNCHANGED <<hand, ending, taskQueue, state, promiseVars>>
  <2> USE DEF RuntimeTypes, SlotsInv, WorkerPC, Holding
  <2>1. ASSUME NEW n \in 0..MaxThreads, Start(n)
        PROVE  /\ RuntimeTypes' /\ SlotsInv'
               /\ UNCHANGED <<wpc, hand, ending, taskQueue, state, promiseVars>>
    BY <2>1 DEF Start
  <2>2. CASE Stop
    BY <2>2 DEF Stop
  <2>3. CASE Spawn
    <3>1. CASE size < goal
      <4>1. /\ size' = size + 1 /\ size + 1 \in Workers /\ wpc[size + 1] = "none"
            /\ wpc' = [wpc EXCEPT ![size + 1] = "test"]
            /\ octl = "spawn"
            /\ UNCHANGED <<octl, goal, joinNext, hand, ending, taskQueue, state, promiseVars>>
        BY <2>3, <3>1 DEF Spawn
      <4> QED BY <4>1
    <3>2. CASE ~(size < goal)
      BY <2>3, <3>2 DEF Spawn
    <3> QED BY <3>1, <3>2
  <2>4. CASE NotifyWorkers
    BY <2>4 DEF NotifyWorkers
  <2>5. CASE Join
    <3>1. CASE joinNext <= size
      <4>1. /\ wpc[joinNext] = "exited" /\ joinNext' = joinNext + 1 /\ octl = "join"
            /\ UNCHANGED <<size, octl, goal, wpc, hand, ending, taskQueue, state, promiseVars>>
        BY <2>5, <3>1 DEF Join
      <4>2. \A v \in Workers : v < joinNext + 1 => v < joinNext \/ v = joinNext
        OBVIOUS
      <4> QED BY <4>1, <4>2
    <3>2. CASE ~(joinNext <= size)
      <4>1. /\ wpc' = [v \in Workers |-> "none"] /\ size' = 0 /\ joinNext' = 1
            /\ octl = "join" /\ octl' = "idle"
            /\ UNCHANGED <<goal, hand, ending, taskQueue, state, promiseVars>>
        BY <2>5, <3>2 DEF Join
      <4>2. \A v \in Workers : wpc[v] \in {"exited", "none"}
        BY <3>2, <4>1
      <4> QED BY <4>1, <4>2
    <3> QED BY <3>1, <3>2
  <2> QED BY <2>1, <2>2, <2>3, <2>4, <2>5 DEF Owner
<1>2. UNCHANGED <<settled, threw>>
  BY <1>1 DEF promiseVars, settleVars
<1> QED BY <1>1, <1>2, QuietStep

\* Nothing is submitted and no worker is there.
LEMMA RuntimeInitially == Init => RuntimeInv
<1> SUFFICES ASSUME Init PROVE RuntimeInv
  OBVIOUS
<1> USE RuntimeAssumption DEF RuntimeAssumption, Init, PromiseInit
<1>1. RuntimeTypes
  BY DEF RuntimeTypes, WorkerPC
<1>2. SlotsInv /\ PlacesInv /\ StagesInv
  BY DEF SlotsInv, PlacesInv, StagesInv, Queued, Range, Holding, IsInjective
<1>3. TaskAgreesWithPromise
  BY DEF TaskAgreesWithPromise, Tasks, Calls
<1> QED BY <1>1, <1>2, <1>3 DEF RuntimeInv

\* Every step keeps the invariant of the runtime.
LEMMA RuntimeStepKeeps == RuntimeInv /\ PromiseInv /\ [Next]_vars => RuntimeInv'
<1> SUFFICES ASSUME RuntimeInv, PromiseInv, [Next]_vars PROVE RuntimeInv'
  OBVIOUS
<1>1. ASSUME NEW w \in Workers, Worker(w) PROVE RuntimeInv'
  <2>1. SlotsInv'
    <3>1. /\ wpc[w] \notin {"none", "exited"}
          /\ \A v \in Workers : v # w => wpc'[v] = wpc[v]
          /\ UNCHANGED ownerVars
      BY <1>1, WorkerFrame DEF RuntimeInv
    <3> QED BY <3>1 DEF RuntimeInv, SlotsInv, ownerVars
  <2>2. CASE TestRunning(w) \/ LeaveLoop(w) \/ FindNothing(w) \/ Block(w) \/ SpuriouslyWoken(w)
    <3>1. /\ \A v \in Workers : wpc[v] \in Holding \/ wpc'[v] \in Holding => wpc'[v] = wpc[v]
          /\ wpc' \in [Workers -> WorkerPC]
          /\ UNCHANGED <<hand, ending, taskQueue, state, settled, threw>>
      BY <2>2, WorkerIdles DEF RuntimeInv, promiseVars, settleVars
    <3>2. UNCHANGED ownerVars
      BY <1>1, WorkerFrame DEF RuntimeInv
    <3>3. RuntimeTypes'
      BY <3>1, <3>2 DEF RuntimeInv, RuntimeTypes, ownerVars
    <3> QED BY <2>1, <3>1, <3>3, QuietStep DEF RuntimeInv
  <2>3. CASE TakeTask(w)
    BY <2>1, <2>3, TakeKeeps DEF RuntimeInv
  <2>4. CASE WorksOn(w)
    BY <2>1, <2>4, WorkTypes, WorkKeeps DEF RuntimeInv, PromiseInv
  <2> QED BY <1>1, <2>2, <2>3, <2>4 DEF Worker, WorksOn
<1>2. ASSUME UNCHANGED <<taskVars, ownerVars, workVars, settled, threw>> PROVE RuntimeInv'
  BY <1>2 DEF taskVars, ownerVars, workVars, RuntimeInv, RuntimeTypes, SlotsInv, PlacesInv,
     StagesInv, TaskAgreesWithPromise, Queued
<1>3. ASSUME NEW c \in Clients, Client(c) PROVE RuntimeInv'
  BY <1>2, <1>3, SubmitKeeps, ClientIdles DEF Client
<1>4. CASE UNCHANGED vars
  BY <1>2, <1>4 DEF vars, promiseVars, settleVars
<1> QED BY <1>1, <1>3, <1>4, OwnerKeeps DEF Next

----------------------------------------------------------------------------
(* The runtime uses its promises by their operations alone.                *)

\* To a promise a step of the runtime is a step of a promise, or none.
LEMMA RuntimeUsesPromises ==
    RuntimeInv /\ [Next]_vars => [PromiseStep]_promiseVars
<1> SUFFICES ASSUME RuntimeInv, [Next]_vars PROVE [PromiseStep]_promiseVars
  OBVIOUS
<1> USE RuntimeAssumption DEF RuntimeAssumption
<1>1. ASSUME NEW w \in Workers, Worker(w) PROVE [PromiseStep]_promiseVars
  <2>1. w \in Threads
    OBVIOUS
  <2>2. wpc[w] \in {"settle", "callbacks"} =>
          hand[w] \in Promises /\ ending[w] \in {"resolved", "rejected"}
    BY DEF RuntimeInv, StagesInv, Calls
  <2>3. CASE SettleCall(w)
    BY <2>1, <2>2, <2>3 DEF SettleCall, Goto, PromiseStep
  <2>4. CASE RunCallbackOfCall(w) \/ FailInCallback(w) \/ NotifyOfCall(w)
    BY <2>1, <2>2, <2>4 DEF RunCallbackOfCall, FailInCallback, NotifyOfCall, Goto, PromiseStep
  <2>5. CASE TakeTask(w) \/ CountActive(w) \/ BeginExecute(w) \/ RunFunction(w) \/ FinishTask(w)
             \/ NotifyResult(w) \/ CountDone(w) \/ Tally(w)
    BY <2>5 DEF TakeTask, CountActive, BeginExecute, RunFunction, FinishTask, NotifyResult,
       CountDone, Tally
  <2>6. CASE TestRunning(w) \/ LeaveLoop(w) \/ FindNothing(w) \/ Block(w) \/ SpuriouslyWoken(w)
    BY <2>6, WorkerIdles DEF RuntimeInv
  <2> QED BY <1>1, <2>3, <2>4, <2>5, <2>6 DEF Worker
<1>2. ASSUME NEW c \in Clients, Client(c) PROVE [PromiseStep]_promiseVars
  <2>1. CASE UsePromise(c)
    BY <2>1 DEF UsePromise, PromiseStep
  <2>2. CASE \/ \E t \in Tasks : Submit(c, t)
             \/ \E t \in Jobs : BeginWait(c, t)
             \/ TestFinished(c) \/ BlockClient(c)
    BY <2>2 DEF Submit, BeginWait, TestFinished, BlockClient
  <2> QED BY <1>2, <2>1, <2>2 DEF Client
<1>3. CASE Owner
  BY <1>3, OwnerKeeps
<1>4. CASE UNCHANGED vars
  BY <1>4 DEF vars
<1> QED BY <1>1, <1>2, <1>3, <1>4 DEF Next

\* Both invariants hold together.
LEMMA InvariantsCorrect == Spec => [](RuntimeInv /\ PromiseInv)
<1>1. Init => RuntimeInv /\ PromiseInv
  BY RuntimeInitially, PromiseInitially DEF Init
<1>2. (RuntimeInv /\ PromiseInv) /\ [Next]_vars => (RuntimeInv /\ PromiseInv)'
  BY RuntimeStepKeeps, RuntimeUsesPromises, PromiseStepKeeps
<1> QED BY <1>1, <1>2, PTL DEF Spec

\* A callback given to then, catch_ or finally, at whatever moment of the
\* settling, runs once if it is for the outcome and never otherwise; only a
\* callback that throws may cut others off.
THEOREM CallbacksCorrect == Spec => []CallbacksRunOnce
BY InvariantsCorrect, InvRunsOnce, PTL

\* A thread blocked in await on a settled promise has its notify_all still to
\* come, unless a callback of that promise threw.
THEOREM SettlementCorrect == Spec => []NoLostSettlement
<1>1. PromiseInv => NoLostSettlement
  BY DEF PromiseInv, AwaitInv
<1> QED BY <1>1, InvariantsCorrect, PTL

\* getResult of the AsyncTask of a call and await of its promise agree on how
\* the call ended, whichever worker ran it and whatever its callbacks did.
THEOREM AgreementCorrect == Spec => []TaskAgreesWithPromise
<1>1. RuntimeInv => TaskAgreesWithPromise
  BY DEF RuntimeInv
<1> QED BY <1>1, InvariantsCorrect, PTL


----------------------------------------------------------------------------
(* The tasks of the runtime live as TaskLifecycle says: submitTask accepts *)
(* every task, execute starts and ends it.                                 *)

statusOf == [t \in Tasks |->
    CASE state[t] = "new" -> "new"
      [] state[t] = "PENDING" -> "queued"
      [] state[t] = "RUNNING" -> "running"
      [] OTHER -> "done"]

Lifecycle == INSTANCE TaskLifecycle WITH status <- statusOf, Limit <- MaxThreads

Executing(w) == wpc[w] \in {"body", "settle", "callbacks", "finish"}

\* A running task is with a worker that executes it.
RunningInv ==
    \A t \in Tasks : state[t] = "RUNNING" => \E w \in Workers : Executing(w) /\ hand[w] = t

\* Where the states of the tasks change: submitTask, and the two ends of execute.
LEMMA StateChanges ==
    ASSUME RuntimeInv, [Next]_vars
    PROVE  \/ \E c \in Clients, t \in Tasks : Submit(c, t)
           \/ \E w \in Workers : BeginExecute(w) \/ FinishTask(w)
           \/ /\ UNCHANGED state
              /\ \A w \in Workers : Executing(w) => Executing(w)' /\ hand'[w] = hand[w]
<1>1. ASSUME NEW w \in Workers, Worker(w), ~BeginExecute(w), ~FinishTask(w)
      PROVE  /\ UNCHANGED state
             /\ \A v \in Workers : Executing(v) => Executing(v)' /\ hand'[v] = hand[v]
  <2> USE DEF RuntimeInv, RuntimeTypes, taskVars, workVars, Goto, Executing
  <2>1. CASE TestRunning(w) \/ LeaveLoop(w) \/ FindNothing(w) \/ Block(w) \/ SpuriouslyWoken(w)
    BY <2>1, WorkerIdles DEF Holding
  <2>2. CASE TakeTask(w) \/ CountActive(w)
    BY <2>2 DEF TakeTask, CountActive
  <2>3. CASE RunFunction(w) \/ SettleCall(w) \/ RunCallbackOfCall(w)
    BY <2>3 DEF RunFunction, SettleCall, RunCallbackOfCall
  <2>4. CASE FailInCallback(w) \/ NotifyOfCall(w)
    BY <2>4 DEF FailInCallback, NotifyOfCall
  <2>5. CASE NotifyResult(w) \/ CountDone(w) \/ Tally(w)
    BY <2>5 DEF NotifyResult, CountDone, Tally
  <2> QED BY <1>1, <2>1, <2>2, <2>3, <2>4, <2>5 DEF Worker
<1>2. ASSUME UNCHANGED <<taskVars, workVars>>
      PROVE  /\ UNCHANGED state
             /\ \A w \in Workers : Executing(w) => Executing(w)' /\ hand'[w] = hand[w]
  BY <1>2 DEF taskVars, workVars, Executing
<1>3. CASE Owner
  <2>1. /\ UNCHANGED <<state, hand>>
        /\ \A v \in Workers : wpc[v] \in Holding => wpc'[v] = wpc[v]
    <3> USE RuntimeAssumption DEF RuntimeAssumption, Workers, RuntimeInv, RuntimeTypes,
            SlotsInv, WorkerPC, Holding, taskVars, workVars
    <3>1. CASE Spawn
      <4>1. CASE size < goal
        <5>1. /\ size + 1 \in Workers /\ wpc[size + 1] = "none"
              /\ wpc' = [wpc EXCEPT ![size + 1] = "test"]
              /\ UNCHANGED <<state, hand>>
          BY <3>1, <4>1 DEF Spawn
        <5> QED BY <5>1
      <4>2. CASE ~(size < goal)
        BY <3>1, <4>2 DEF Spawn
      <4> QED BY <4>1, <4>2
    <3>2. CASE NotifyWorkers
      BY <3>2 DEF NotifyWorkers
    <3>3. CASE Join
      BY <3>3 DEF Join
    <3>4. CASE Stop \/ \E n \in 0..MaxThreads : Start(n)
      BY <3>4 DEF Stop, Start
    <3> QED BY <1>3, <3>1, <3>2, <3>3, <3>4 DEF Owner
  <2> QED BY <2>1 DEF Executing, Holding
<1>4. ASSUME NEW c \in Clients, Client(c), ~ \E t \in Tasks : Submit(c, t)
      PROVE  UNCHANGED <<taskVars, workVars>>
  BY <1>4, ClientIdles DEF Client
<1> QED BY <1>1, <1>2, <1>3, <1>4 DEF Next, vars

\* A running task is in the hand of a worker that executes it.
LEMMA RunningCorrect == Spec => []RunningInv
<1>1. Init => RunningInv
  BY DEF Init, RunningInv
<1>2. RuntimeInv /\ RunningInv /\ [Next]_vars => RunningInv'
  <2> SUFFICES ASSUME RuntimeInv, RunningInv, [Next]_vars PROVE RunningInv'
    OBVIOUS
  <2> USE DEF RuntimeInv, RuntimeTypes, RunningInv, Executing, Goto
  <2>1. ASSUME NEW c \in Clients, NEW t \in Tasks, Submit(c, t) PROVE RunningInv'
    <3>1. /\ state' = [state EXCEPT ![t] = "PENDING"] /\ hand' = hand
          /\ \A w \in Workers : Executing(w) => Executing(w)'
      BY <2>1 DEF Submit
    <3> QED BY <3>1
  <2>2. ASSUME NEW w \in Workers, BeginExecute(w) PROVE RunningInv'
    <3>1. /\ wpc[w] = "execute" /\ hand[w] \in Tasks
          /\ state' = [state EXCEPT ![hand[w]] = "RUNNING"] /\ hand' = hand
          /\ wpc' = [wpc EXCEPT ![w] = "body"]
      BY <2>2 DEF BeginExecute, PlacesInv, Holding
    <3> QED BY <3>1
  <2>3. ASSUME NEW w \in Workers, FinishTask(w) PROVE RunningInv'
    <3>1. /\ wpc[w] = "finish" /\ hand[w] \in Tasks /\ hand' = hand
          /\ state'[hand[w]] # "RUNNING"
          /\ \A t \in Tasks : t # hand[w] => state'[t] = state[t]
          /\ wpc' = [wpc EXCEPT ![w] = "notify"]
      BY <2>3 DEF FinishTask, PlacesInv, Holding
    <3>2. ASSUME NEW t \in Tasks, state'[t] = "RUNNING"
          PROVE  \E v \in Workers : Executing(v)' /\ hand'[v] = t
      <4>1. t # hand[w] /\ state[t] = "RUNNING"
        BY <3>1, <3>2
      <4>2. PICK v \in Workers : Executing(v) /\ hand[v] = t
        BY <4>1
      <4> QED BY <3>1, <4>1, <4>2
    <3> QED BY <3>2
  <2>4. CASE /\ UNCHANGED state
             /\ \A w \in Workers : Executing(w) => Executing(w)' /\ hand'[w] = hand[w]
    BY <2>4
  <2> QED BY <2>1, <2>2, <2>3, <2>4, StateChanges
<1>3. RuntimeInv /\ PromiseInv => RuntimeInv
  OBVIOUS
<1> QED BY <1>1, <1>2, <1>3, InvariantsCorrect, PTL DEF Spec

\* A worker about to execute leaves at most MaxThreads - 1 tasks to the others.
LEMMA HandFree ==
    ASSUME RuntimeInv, RunningInv, NEW w \in Workers, wpc[w] = "execute"
    PROVE  Cardinality(Lifecycle!Executing) < MaxThreads
<1> USE RuntimeAssumption DEF RuntimeAssumption
<1> DEFINE E == Lifecycle!Executing
           S == {v \in Workers : Executing(v) /\ hand[v] \in E}
           f == [v \in S |-> hand[v]]
<1>1. \A t \in E : t \in Tasks /\ state[t] = "RUNNING"
  BY DEF Lifecycle!Executing, statusOf, RuntimeInv, RuntimeTypes
<1>2. f \in Surjection(S, E)
  <2>1. f \in [S -> E]
    OBVIOUS
  <2>2. \A t \in E : \E v \in S : f[v] = t
    BY <1>1 DEF RunningInv
  <2> QED BY <2>1, <2>2 DEF Surjection
<1>3. IsFiniteSet(Workers) /\ Cardinality(Workers) = MaxThreads
  BY FS_Interval DEF Workers
<1>4. IsFiniteSet(Workers \ {w}) /\ Cardinality(Workers \ {w}) = MaxThreads - 1
  BY <1>3, FS_RemoveElement
<1>5. S \in SUBSET (Workers \ {w})
  BY DEF Executing
<1> HIDE DEF S, E, f
<1>6. IsFiniteSet(S) /\ Cardinality(S) <= MaxThreads - 1
  <2>1. IsFiniteSet(S) /\ Cardinality(S) <= Cardinality(Workers \ {w})
    BY <1>4, <1>5, FS_Subset, Zenon
  <2> QED BY <1>4, <2>1
<1>7. IsFiniteSet(E) /\ Cardinality(E) <= Cardinality(S)
  BY <1>2, <1>6, FS_Surjection
<1>8. Cardinality(S) \in Nat /\ Cardinality(E) \in Nat
  BY <1>6, <1>7, FS_CardinalityType
<1>9. Cardinality(E) < MaxThreads
  BY <1>6, <1>7, <1>8
<1> QED BY <1>9 DEF E

\* A task that alone changes its status makes a move of the lifecycle.
LEMMA StatusMoves ==
    ASSUME NEW t \in Tasks, NEW from, NEW to, statusOf[t] = from, statusOf'[t] = to,
           \A u \in Tasks : u # t => state'[u] = state[u]
    PROVE  Lifecycle!Move(t, from, to)
<1>1. /\ statusOf = [u \in Tasks |-> statusOf[u]]
      /\ statusOf' = [u \in Tasks |-> statusOf'[u]]
      /\ \A u \in Tasks : u # t => statusOf'[u] = statusOf[u]
  BY DEF statusOf
<1>2. statusOf' = [statusOf EXCEPT ![t] = to]
  BY <1>1
<1> QED BY <1>2 DEF Lifecycle!Move

\* Every behaviour of the runtime is one of TaskLifecycle: submitTask accepts a
\* task once, it starts once while fewer than MaxThreads execute, and once it
\* is COMPLETED or FAILED it stays so, through any stop and start.
THEOREM RefinementCorrect == Spec => Lifecycle!Spec
<1>1. Init => Lifecycle!Init
  BY DEF Init, Lifecycle!Init, statusOf
<1>2. RuntimeInv /\ RunningInv /\ [Next]_vars => [Lifecycle!Next]_statusOf
  <2> SUFFICES ASSUME RuntimeInv, RunningInv, [Next]_vars PROVE [Lifecycle!Next]_statusOf
    OBVIOUS
  <2> USE DEF RuntimeInv, RuntimeTypes, Goto
  <2>1. ASSUME NEW c \in Clients, NEW t \in Tasks, Submit(c, t) PROVE Lifecycle!Next
    <3>1. /\ state[t] = "new" /\ state'[t] = "PENDING"
          /\ \A u \in Tasks : u # t => state'[u] = state[u]
      BY <2>1 DEF Submit
    <3>2. statusOf[t] = "new" /\ statusOf'[t] = "queued"
      BY <3>1 DEF statusOf
    <3>3. Lifecycle!Move(t, "new", "queued")
      BY <3>1, <3>2, StatusMoves
    <3> QED BY <3>3 DEF Lifecycle!Accept, Lifecycle!Next
  <2>2. ASSUME NEW w \in Workers, BeginExecute(w) PROVE Lifecycle!Next
    <3> DEFINE t == hand[w]
    <3>1. wpc[w] = "execute" /\ t \in Tasks /\ state[t] = "PENDING"
      BY <2>2 DEF BeginExecute, PlacesInv, StagesInv, Holding
    <3>2. /\ state'[t] = "RUNNING"
          /\ \A u \in Tasks : u # t => state'[u] = state[u]
      BY <2>2, <3>1 DEF BeginExecute
    <3> HIDE DEF t
    <3>3. statusOf[t] = "queued" /\ statusOf'[t] = "running"
      BY <3>1, <3>2 DEF statusOf
    <3>4. Lifecycle!Move(t, "queued", "running")
      BY <3>1, <3>2, <3>3, StatusMoves
    <3>5. Cardinality(Lifecycle!Executing) < MaxThreads
      BY <3>1, HandFree
    <3>6. Lifecycle!Start(t)
      BY <3>4, <3>5 DEF Lifecycle!Start, Lifecycle!Cardinality, Cardinality
    <3> QED BY <3>1, <3>6 DEF Lifecycle!Next
  <2>3. ASSUME NEW w \in Workers, FinishTask(w) PROVE Lifecycle!Next
    <3> DEFINE t == hand[w]
    <3>1. t \in Tasks /\ state[t] = "RUNNING"
      BY <2>3 DEF FinishTask, PlacesInv, StagesInv, Holding
    <3>2. /\ state'[t] \in {"COMPLETED", "FAILED"}
          /\ \A u \in Tasks : u # t => state'[u] = state[u]
      BY <2>3, <3>1 DEF FinishTask
    <3> HIDE DEF t
    <3>3. statusOf[t] = "running" /\ statusOf'[t] = "done"
      BY <3>1, <3>2 DEF statusOf
    <3>4. Lifecycle!Move(t, "running", "done")
      BY <3>1, <3>2, <3>3, StatusMoves
    <3> QED BY <3>1, <3>4 DEF Lifecycle!Finish, Lifecycle!Next
  <2>4. CASE UNCHANGED state
    BY <2>4 DEF statusOf
  <2> QED BY <2>1, <2>2, <2>3, <2>4, StateChanges
<1> QED BY <1>1, <1>2, InvariantsCorrect, RunningCorrect, PTL DEF Spec, Lifecycle!Spec

=============================================================================
