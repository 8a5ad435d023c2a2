--------------------------- MODULE ServicesProofs ---------------------------
(***************************************************************************)
(* What the services beside the interpreter guarantee: ModuleSystem and    *)
(* MemoryManager, for every set of names, files and scopes and for any     *)
(* number of ValuePtr objects in threads of their own, and the             *)
(* CoroutineScheduler, for any coroutines and priorities and any number of *)
(* clients and of calls.  The three share no state.                        *)
(*                                                                         *)
(* No call of scheduleCoroutine is lost and no function runs twice.  The   *)
(* two loops over the queue are recursive functions; what holds of a loop  *)
(* after n turns is proved by looking at the smallest n for which it would *)
(* not (SmallestOf).                                                       *)
(*                                                                         *)
(* An import keeps the scopes of the namespaces that are there, because it *)
(* takes a scope nobody has.  The verdicts of resolveDependencies agree    *)
(* with the relation between modules, because both are about its paths:    *)
(* what the search answers tells of a path, or of the absence of one, and  *)
(* a path longer than there are modules meets a module twice.              *)
(*                                                                         *)
(* Every value is deleted once, by its owner, and counted while it is      *)
(* tracked.                                                                *)
(***************************************************************************)
EXTENDS CoroutineScheduler, ModuleSystem, MemoryManager, SequenceLemmas

----------------------------------------------------------------------------
(* CoroutineScheduler: how often a coroutine stands in a queue.            *)

\* Among the first n places of s.
CountTo(k, s, n) == Cardinality({i \in 1..n : s[i] = k})

\* One for k, nothing for another.
Hit(e, k) == IF e = k THEN 1 ELSE 0

\* One place more is looked at.
LEMMA CountStep ==
    ASSUME NEW k, NEW s, NEW n \in Nat
    PROVE  /\ CountTo(k, s, n) \in Nat
           /\ CountTo(k, s, 0) = 0
           /\ CountTo(k, s, n + 1) = CountTo(k, s, n) + Hit(s[n + 1], k)
<1> DEFINE P == {i \in 1..n : s[i] = k}
           Q == {i \in 1..(n + 1) : s[i] = k}
<1>1. IsFiniteSet(P)
  <2>1. IsFiniteSet(1..n)
    BY FS_Interval
  <2> QED BY <2>1, FS_Subset
<1>2. Cardinality(P) \in Nat
  BY <1>1, FS_CardinalityType
<1>3. {i \in 1..0 : s[i] = k} = {}
  OBVIOUS
<1>4. CountTo(k, s, 0) = 0
  BY <1>3, FS_EmptySet DEF CountTo
<1>5. CASE s[n + 1] = k
  <2>1. Q = P \cup {n + 1} /\ n + 1 \notin P
    BY <1>5
  <2> HIDE DEF P, Q
  <2>2. Cardinality(Q) = Cardinality(P) + 1
    BY <1>1, <2>1, FS_AddElement
  <2>3. Cardinality(Q) = Cardinality(P) + Hit(s[n + 1], k)
    BY <1>5, <2>2 DEF Hit
  <2> QED BY <1>2, <1>4, <2>3 DEF CountTo, P, Q
<1>6. CASE s[n + 1] # k
  <2>1. Q = P
    BY <1>6
  <2> HIDE DEF P, Q
  <2>2. Cardinality(Q) = Cardinality(P) + Hit(s[n + 1], k)
    BY <1>2, <1>6, <2>1 DEF Hit
  <2> QED BY <1>2, <1>4, <2>2 DEF CountTo, P, Q
<1> QED BY <1>5, <1>6

\* A sequence is counted to its length, and two that agree so far alike.
LEMMA CountIsCountTo ==
    ASSUME NEW S, NEW q \in Seq(S), NEW k
    PROVE  Count(k, q) = CountTo(k, q, Len(q)) /\ Count(k, q) \in Nat
<1>1. DOMAIN q = 1..Len(q) /\ Len(q) \in Nat
  OBVIOUS
<1>2. Count(k, q) = CountTo(k, q, Len(q))
  BY <1>1 DEF Count, CountTo
<1> QED BY <1>1, <1>2, CountStep

\* push
LEMMA CountAppend ==
    ASSUME NEW S, NEW q \in Seq(S), NEW e \in S, NEW k
    PROVE  Append(q, e) \in Seq(S) /\ Count(k, Append(q, e)) = Count(k, q) + Hit(e, k)
<1> DEFINE longer == Append(q, e)
<1>1. /\ longer \in Seq(S) /\ Len(longer) = Len(q) + 1 /\ Len(q) \in Nat
      /\ \A i \in 1..Len(q) : longer[i] = q[i]
      /\ longer[Len(q) + 1] = e
  OBVIOUS
<1> HIDE DEF longer
<1>2. CountTo(k, longer, Len(q)) = CountTo(k, q, Len(q))
  <2>1. {i \in 1..Len(q) : longer[i] = k} = {i \in 1..Len(q) : q[i] = k}
    BY <1>1
  <2> QED BY <2>1 DEF CountTo
<1>3. CountTo(k, longer, Len(q) + 1) = CountTo(k, longer, Len(q)) + Hit(e, k)
  BY <1>1, CountStep
<1>4. Count(k, longer) = CountTo(k, longer, Len(q) + 1) /\ Count(k, q) = CountTo(k, q, Len(q))
  BY <1>1, CountIsCountTo
<1> QED BY <1>1, <1>2, <1>3, <1>4 DEF longer

\* pop: the places of the tail are one less than they were.
LEMMA CountTail ==
    ASSUME NEW S, NEW q \in Seq(S), q # <<>>, NEW k
    PROVE  /\ Head(q) \in S /\ Tail(q) \in Seq(S)
           /\ Count(k, q) = Count(k, Tail(q)) + Hit(Head(q), k)
<1>1. /\ Len(q) \in Nat \ {0} /\ Head(q) = q[1] /\ Head(q) \in S
      /\ Tail(q) \in Seq(S) /\ Len(Tail(q)) = Len(q) - 1
      /\ \A i \in 1..(Len(q) - 1) : Tail(q)[i] = q[i + 1]
  OBVIOUS
<1> DEFINE N == Len(q) - 1
           tail == Tail(q)
           Bad == {n \in 0..N : CountTo(k, q, n + 1) # CountTo(k, tail, n) + Hit(q[1], k)}
<1>2. Bad = {}
  <2>1. SUFFICES ASSUME Bad # {} PROVE FALSE
    OBVIOUS
  <2>2. Bad \subseteq Nat
    BY <1>1
  <2>3. PICK n \in Bad : \A m \in Bad : n <= m
    <3> HIDE DEF Bad
    <3> QED BY <2>1, <2>2, SmallestOf
  <2>4. n \in 0..N /\ N \in Nat
    BY <1>1, <2>3
  <2>5. CASE n = 0
    <3>1. CountTo(k, q, 0 + 1) = CountTo(k, q, 0) + Hit(q[0 + 1], k)
          /\ CountTo(k, q, 0) = 0 /\ CountTo(k, tail, 0) = 0
      BY CountStep
    <3>2. Hit(q[1], k) \in Nat
      BY DEF Hit
    <3>3. CountTo(k, q, n + 1) = CountTo(k, tail, n) + Hit(q[1], k)
      BY <2>5, <3>1, <3>2
    <3> QED BY <2>3, <3>3
  <2>6. CASE n # 0
    <3>1. PICK m \in Nat : n = m + 1
      <4>1. n - 1 \in Nat /\ n = (n - 1) + 1
        BY <2>4, <2>6
      <4> QED BY <4>1
    <3>2. m \in 0..N /\ ~(n <= m) /\ m + 1 \in 1..(Len(q) - 1)
      BY <2>4, <3>1
    <3>3. CountTo(k, q, m + 1) = CountTo(k, tail, m) + Hit(q[1], k)
      BY <2>3, <3>2
    <3>4. tail[m + 1] = q[(m + 1) + 1]
      BY <1>1, <3>2
    <3> HIDE DEF tail
    <3>5. CountTo(k, q, (m + 1) + 1) = CountTo(k, q, m + 1) + Hit(q[(m + 1) + 1], k)
      BY <3>1, CountStep
    <3>6. CountTo(k, tail, m + 1) = CountTo(k, tail, m) + Hit(tail[m + 1], k)
          /\ CountTo(k, tail, m) \in Nat
      BY CountStep
    <3>7. Hit(q[1], k) \in Nat /\ Hit(tail[m + 1], k) \in Nat
          /\ Hit(q[(m + 1) + 1], k) = Hit(tail[m + 1], k)
      BY <3>4 DEF Hit
    <3>8. CountTo(k, q, (m + 1) + 1) = CountTo(k, tail, m + 1) + Hit(q[1], k)
      BY <3>3, <3>5, <3>6, <3>7
    <3> QED BY <2>3, <3>1, <3>8
  <2> QED BY <2>5, <2>6
<1>3. N \in 0..N /\ N + 1 = Len(q) /\ Len(tail) = N
  BY <1>1
<1>4. CountTo(k, q, Len(q)) = CountTo(k, tail, N) + Hit(q[1], k)
  BY <1>2, <1>3
<1>5. Count(k, q) = CountTo(k, q, Len(q)) /\ Count(k, tail) = CountTo(k, tail, N)
  BY <1>1, <1>3, CountIsCountTo
<1> QED BY <1>1, <1>4, <1>5

----------------------------------------------------------------------------
(* The two loops over a queue.                                             *)

\* The function Without defines.
IsKept(f, q, t) ==
    f = [n \in 0..Len(q) |->
           IF n = 0 THEN <<>>
           ELSE IF q[n] = t THEN f[n - 1] ELSE Append(f[n - 1], q[n])]

\* There is such a function, and Without is its last value.
LEMMA WithoutIsKept ==
    ASSUME NEW S, NEW q \in Seq(S), NEW t
    PROVE  \E f : IsKept(f, q, t) /\ Without(q, t) = f[Len(q)]
<1> DEFINE step == [n \in 1..Len(q) |->
                      [r \in Seq(S) |-> IF q[n] = t THEN r ELSE Append(r, q[n])]]
<1>1. /\ Len(q) \in Nat /\ 0 \in Nat /\ 0 <= Len(q) /\ <<>> \in Seq(S)
      /\ \A n \in 1..Len(q) : q[n] \in S
  OBVIOUS
<1>2. step \in [(0 + 1)..Len(q) -> [Seq(S) -> Seq(S)]]
  <2>1. ASSUME NEW n \in 1..Len(q), NEW r \in Seq(S)
        PROVE  (IF q[n] = t THEN r ELSE Append(r, q[n])) \in Seq(S)
    BY <1>1, <2>1
  <2> QED BY <2>1
<1> HIDE DEF step
<1>3. PICK f : LoopFrom(f, Seq(S), 0, Len(q), <<>>, step)
  BY <1>1, <1>2, LoopRuns, Zenon
<1>4. /\ f \in [0..Len(q) -> Seq(S)] /\ f[0] = <<>>
      /\ \A n \in 1..Len(q) : f[n] = step[n][f[n - 1]]
  BY <1>3 DEF LoopFrom
<1>5. ASSUME NEW n \in 1..Len(q)
      PROVE  f[n] = IF q[n] = t THEN f[n - 1] ELSE Append(f[n - 1], q[n])
  <2>1. n - 1 \in 0..Len(q)
    BY <1>5
  <2>2. f[n - 1] \in Seq(S)
    BY <1>4, <2>1
  <2> QED BY <1>4, <2>2 DEF step
<1>6. IsKept(f, q, t)
  <2>1. \A n \in 0..Len(q) : n # 0 => n \in 1..Len(q)
    BY <1>1
  <2> QED BY <1>4, <1>5, <2>1 DEF IsKept
<1>7. Without(q, t) = (CHOOSE g : IsKept(g, q, t))[Len(q)]
  BY DEF Without, IsKept
<1>8. IsKept(CHOOSE g : IsKept(g, q, t), q, t)
  BY <1>6, Zenon
<1> QED BY <1>7, <1>8, Zenon

\* Nothing else is lost: what is not k is kept, as often as it was there.
LEMMA WithoutKeeps ==
    ASSUME NEW S, NEW q \in Seq(S), NEW t
    PROVE  /\ Without(q, t) \in Seq(S)
           /\ \A k : k # t => Count(k, Without(q, t)) = Count(k, q)
<1>1. PICK f : IsKept(f, q, t) /\ Without(q, t) = f[Len(q)]
  BY WithoutIsKept
<1>2. /\ f[0] = <<>>
      /\ \A n \in 1..Len(q) : f[n] = IF q[n] = t THEN f[n - 1] ELSE Append(f[n - 1], q[n])
  <2>1. 0 \in 0..Len(q) /\ \A n \in 1..Len(q) : n \in 0..Len(q) /\ n # 0
    OBVIOUS
  <2>2. \A n \in 0..Len(q) :
          f[n] = IF n = 0 THEN <<>>
                 ELSE IF q[n] = t THEN f[n - 1] ELSE Append(f[n - 1], q[n])
    BY <1>1, Zenon DEF IsKept
  <2> HIDE DEF IsKept
  <2> QED BY <2>1, <2>2
<1> DEFINE Good(n) == f[n] \in Seq(S) /\ \A k : k # t => Count(k, f[n]) = CountTo(k, q, n)
           Bad == {n \in 0..Len(q) : ~Good(n)}
<1>3. Len(q) \in Nat /\ Len(q) \in 0..Len(q) /\ \A n \in 1..Len(q) : q[n] \in S
  OBVIOUS
<1>4. Bad = {}
  <2>1. SUFFICES ASSUME Bad # {} PROVE FALSE
    OBVIOUS
  <2>2. Bad \subseteq Nat
    BY <1>3
  <2>3. PICK n \in Bad : \A m \in Bad : n <= m
    <3> HIDE DEF Bad
    <3> QED BY <2>1, <2>2, SmallestOf
  <2>4. n \in 0..Len(q) /\ ~Good(n)
    BY <2>3
  <2>5. CASE n = 0
    <3>1. <<>> \in Seq(S) /\ Len(<<>>) = 0
      OBVIOUS
    <3>2. ASSUME NEW k PROVE Count(k, <<>>) = CountTo(k, q, 0)
      <4>1. Count(k, <<>>) = CountTo(k, <<>>, 0)
        BY <3>1, CountIsCountTo
      <4> QED BY <4>1, CountStep
    <3> QED BY <1>2, <2>4, <2>5, <3>1, <3>2
  <2>6. CASE n # 0
    <3>1. PICK m \in Nat : n = m + 1
      <4>1. n - 1 \in Nat /\ n = (n - 1) + 1
        BY <2>4, <2>6
      <4> QED BY <4>1
    <3>2. m \in 0..Len(q) /\ ~(n <= m) /\ n \in 1..Len(q) /\ n - 1 = m
      BY <2>4, <3>1
    <3>3. Good(m)
      BY <2>3, <3>2
    <3>4. f[n] = IF q[n] = t THEN f[m] ELSE Append(f[m], q[n])
      BY <1>2, <3>2
    <3>5. ASSUME NEW k
          PROVE  /\ CountTo(k, q, n) = CountTo(k, q, m) + Hit(q[n], k)
                 /\ CountTo(k, q, m) \in Nat
      BY <3>1, CountStep
    <3>6. CASE q[n] = t
      <4>1. ASSUME NEW k, k # t PROVE Count(k, f[n]) = CountTo(k, q, n)
        <5>1. Hit(q[n], k) = 0
          BY <3>6, <4>1 DEF Hit
        <5>2. Count(k, f[n]) = CountTo(k, q, m)
          BY <3>3, <3>4, <3>6, <4>1
        <5> QED BY <3>5, <5>1, <5>2
      <4>2. f[n] \in Seq(S)
        BY <3>3, <3>4, <3>6
      <4> QED BY <2>4, <4>1, <4>2
    <3>7. CASE q[n] # t
      <4>1. f[n] = Append(f[m], q[n]) /\ q[n] \in S /\ f[m] \in Seq(S)
        BY <1>3, <3>2, <3>3, <3>4, <3>7
      <4>2. ASSUME NEW k, k # t PROVE Count(k, f[n]) = CountTo(k, q, n)
        <5>1. Count(k, f[n]) = Count(k, f[m]) + Hit(q[n], k)
          BY <4>1, CountAppend
        <5>2. Count(k, f[m]) = CountTo(k, q, m)
          BY <3>3, <4>2
        <5> QED BY <3>5, <5>1, <5>2
      <4>3. f[n] \in Seq(S)
        BY <4>1
      <4> QED BY <2>4, <4>2, <4>3
    <3> QED BY <3>6, <3>7
  <2> QED BY <2>5, <2>6
<1>5. Good(Len(q))
  BY <1>3, <1>4
<1> QED BY <1>1, <1>5, CountIsCountTo

\* What selectNextCoroutine leaves: the one chosen and the others.
Selections(S) == [chosen : S, rest : Seq(S)]

\* One turn of the pass: e is compared with the best so far.
Turn(best, e) ==
    IF Priority[e] > Priority[best.chosen]
    THEN [chosen |-> e, rest |-> Append(best.rest, best.chosen)]
    ELSE [chosen |-> best.chosen, rest |-> Append(best.rest, e)]

\* One turn of the selection loses nothing and makes nothing up.
LEMMA TurnKeeps ==
    ASSUME NEW S, NEW best \in Selections(S), NEW e \in S
    PROVE  /\ Turn(best, e) \in Selections(S)
           /\ \A k : Count(k, Turn(best, e).rest) + Hit(Turn(best, e).chosen, k)
                       = Count(k, best.rest) + Hit(best.chosen, k) + Hit(e, k)
<1>1. best.chosen \in S /\ best.rest \in Seq(S)
  BY DEF Selections
<1>2. ASSUME NEW c \in S PROVE Append(best.rest, c) \in Seq(S)
  BY <1>1
<1>3. ASSUME NEW k, NEW c \in S
      PROVE  /\ Count(k, Append(best.rest, c)) = Count(k, best.rest) + Hit(c, k)
             /\ Count(k, best.rest) \in Nat /\ Hit(c, k) \in Nat
  <2>1. Count(k, Append(best.rest, c)) = Count(k, best.rest) + Hit(c, k)
    BY <1>1, CountAppend
  <2>2. Count(k, best.rest) \in Nat
    BY <1>1, CountIsCountTo
  <2> QED BY <2>1, <2>2 DEF Hit
<1>4. CASE Priority[e] > Priority[best.chosen]
  <2>1. Turn(best, e) = [chosen |-> e, rest |-> Append(best.rest, best.chosen)]
    BY <1>4 DEF Turn
  <2> QED BY <1>1, <1>2, <1>3, <2>1 DEF Selections
<1>5. CASE ~(Priority[e] > Priority[best.chosen])
  <2>1. Turn(best, e) = [chosen |-> best.chosen, rest |-> Append(best.rest, e)]
    BY <1>5 DEF Turn
  <2> QED BY <1>1, <1>2, <1>3, <2>1 DEF Selections
<1> QED BY <1>4, <1>5

\* The function SelectByPriority defines.
IsPass(f, q) ==
    f = [n \in 1..Len(q) |->
           IF n = 1 THEN [chosen |-> q[1], rest |-> <<>>]
           ELSE LET best == f[n - 1] IN
                IF Priority[q[n]] > Priority[best.chosen]
                THEN [chosen |-> q[n], rest |-> Append(best.rest, best.chosen)]
                ELSE [chosen |-> best.chosen, rest |-> Append(best.rest, q[n])]]

\* The selection goes on by such turns.
LEMMA PassTurns ==
    ASSUME NEW f, NEW q
    PROVE  IsPass(f, q) <=>
             f = [n \in 1..Len(q) |-> IF n = 1 THEN [chosen |-> q[1], rest |-> <<>>]
                                      ELSE Turn(f[n - 1], q[n])]
BY Zenon DEF IsPass, Turn

\* There is such a function, and the selection is its last value.
LEMMA SelectIsPass ==
    ASSUME NEW S, NEW q \in Seq(S), q # <<>>
    PROVE  \E f : IsPass(f, q) /\ SelectByPriority(q) = f[Len(q)]
<1> DEFINE step == [n \in 2..Len(q) |-> [best \in Selections(S) |-> Turn(best, q[n])]]
           first == [chosen |-> q[1], rest |-> <<>>]
<1>1. /\ Len(q) \in Nat /\ 1 \in Nat /\ 1 <= Len(q) /\ q[1] \in S /\ <<>> \in Seq(S)
      /\ \A n \in 1..Len(q) : q[n] \in S
  OBVIOUS
<1>2. first \in Selections(S)
  BY <1>1 DEF Selections
<1>3. step \in [(1 + 1)..Len(q) -> [Selections(S) -> Selections(S)]]
  <2>1. ASSUME NEW n \in 2..Len(q), NEW best \in Selections(S)
        PROVE  Turn(best, q[n]) \in Selections(S)
    <3>1. q[n] \in S
      BY <1>1, <2>1
    <3> QED BY <3>1, TurnKeeps
  <2> QED BY <2>1
<1> HIDE DEF step, first
<1>4. PICK f : LoopFrom(f, Selections(S), 1, Len(q), first, step)
  BY <1>1, <1>2, <1>3, LoopRuns, Zenon
<1>5. /\ f \in [1..Len(q) -> Selections(S)] /\ f[1] = first
      /\ \A n \in 2..Len(q) : f[n] = step[n][f[n - 1]]
  BY <1>4 DEF LoopFrom
<1>6. ASSUME NEW n \in 2..Len(q) PROVE f[n] = Turn(f[n - 1], q[n])
  <2>1. n - 1 \in 1..Len(q)
    BY <1>6
  <2>2. f[n - 1] \in Selections(S)
    BY <1>5, <2>1
  <2> QED BY <1>5, <2>2 DEF step
<1>7. IsPass(f, q)
  <2>1. \A n \in 1..Len(q) : n # 1 => n \in 2..Len(q)
    BY <1>1
  <2>2. f = [n \in 1..Len(q) |-> IF n = 1 THEN [chosen |-> q[1], rest |-> <<>>]
                                 ELSE Turn(f[n - 1], q[n])]
    BY <1>5, <1>6, <2>1 DEF first
  <2> QED BY <2>2, PassTurns
<1>8. SelectByPriority(q) = (CHOOSE g : IsPass(g, q))[Len(q)]
  BY DEF SelectByPriority, IsPass
<1>9. IsPass(CHOOSE g : IsPass(g, q), q)
  BY <1>7, Zenon
<1> QED BY <1>8, <1>9, Zenon

\* Whatever the policy, the queue is split into one coroutine and the others.
LEMMA SelectKeeps ==
    ASSUME NEW S, NEW q \in Seq(S), q # <<>>
    PROVE  /\ SelectNext(q) \in Selections(S)
           /\ \A k : Count(k, q) = Count(k, SelectNext(q).rest) + Hit(SelectNext(q).chosen, k)
<1>1. CASE policy # "priority"
  <2>1. SelectNext(q) = [chosen |-> Head(q), rest |-> Tail(q)]
    BY <1>1 DEF SelectNext, SelectFirst
  <2>2. Head(q) \in S /\ Tail(q) \in Seq(S)
    BY CountTail
  <2>3. ASSUME NEW k PROVE Count(k, q) = Count(k, Tail(q)) + Hit(Head(q), k)
    BY CountTail
  <2> QED BY <2>1, <2>2, <2>3 DEF Selections
<1>2. CASE policy = "priority"
  <2>1. PICK f : IsPass(f, q) /\ SelectByPriority(q) = f[Len(q)]
    BY SelectIsPass
  <2>2. /\ Len(q) \in Nat \ {0} /\ Len(q) \in 1..Len(q) /\ 1 \in 1..Len(q)
        /\ \A n \in 1..Len(q) : q[n] \in S
    OBVIOUS
  <2>3. \A n \in 1..Len(q) : f[n] = IF n = 1 THEN [chosen |-> q[1], rest |-> <<>>]
                                    ELSE Turn(f[n - 1], q[n])
    BY <2>1, PassTurns, Zenon
  <2> DEFINE Good(n) == /\ f[n] \in Selections(S)
                        /\ \A k : CountTo(k, q, n) = Count(k, f[n].rest) + Hit(f[n].chosen, k)
             Bad == {n \in 1..Len(q) : ~Good(n)}
  <2>4. Bad = {}
    <3>1. SUFFICES ASSUME Bad # {} PROVE FALSE
      OBVIOUS
    <3>2. Bad \subseteq Nat
      BY <2>2
    <3>3. PICK n \in Bad : \A m \in Bad : n <= m
      <4> HIDE DEF Bad
      <4> QED BY <3>1, <3>2, SmallestOf
    <3>4. n \in 1..Len(q) /\ ~Good(n)
      BY <3>3
    <3>5. CASE n = 1
      <4>1. f[1] = [chosen |-> q[1], rest |-> <<>>] /\ q[1] \in S
        BY <2>2, <2>3
      <4>2. <<>> \in Seq(S) /\ Len(<<>>) = 0
        OBVIOUS
      <4>3. f[1] \in Selections(S)
        BY <4>1, <4>2 DEF Selections
      <4>4. ASSUME NEW k PROVE CountTo(k, q, 1) = Count(k, <<>>) + Hit(q[1], k)
        <5>1. Count(k, <<>>) = CountTo(k, <<>>, 0)
          BY <4>2, CountIsCountTo
        <5>2. CountTo(k, <<>>, 0) = 0 /\ CountTo(k, q, 0) = 0
              /\ CountTo(k, q, 0 + 1) = CountTo(k, q, 0) + Hit(q[0 + 1], k)
          BY CountStep
        <5> QED BY <5>1, <5>2 DEF Hit
      <4> QED BY <3>4, <3>5, <4>1, <4>3, <4>4
    <3>6. CASE n # 1
      <4>1. PICK m \in Nat : n = m + 1
        <5>1. n - 1 \in Nat /\ n = (n - 1) + 1
          BY <3>4, <3>6
        <5> QED BY <5>1
      <4>2. m \in 1..Len(q) /\ ~(n <= m) /\ n - 1 = m
        BY <3>4, <3>6, <4>1
      <4>3. Good(m)
        BY <3>3, <4>2
      <4>4. f[n] = Turn(f[m], q[n]) /\ q[n] \in S
        BY <2>2, <2>3, <3>4, <3>6, <4>2
      <4>5. f[n] \in Selections(S)
        BY <4>3, <4>4, TurnKeeps
      <4>6. ASSUME NEW k
            PROVE  CountTo(k, q, n) = Count(k, f[n].rest) + Hit(f[n].chosen, k)
        <5>1. CountTo(k, q, n) = CountTo(k, q, m) + Hit(q[n], k)
          BY <4>1, CountStep
        <5>2. CountTo(k, q, m) = Count(k, f[m].rest) + Hit(f[m].chosen, k)
          BY <4>3
        <5>3. Count(k, f[n].rest) + Hit(f[n].chosen, k)
                = Count(k, f[m].rest) + Hit(f[m].chosen, k) + Hit(q[n], k)
          BY <4>3, <4>4, TurnKeeps
        <5> QED BY <5>1, <5>2, <5>3
      <4> QED BY <3>4, <4>5, <4>6
    <3> QED BY <3>5, <3>6
  <2>5. Good(Len(q))
    BY <2>2, <2>4
  <2>6. SelectNext(q) = f[Len(q)]
    BY <1>2, <2>1 DEF SelectNext
  <2> QED BY <2>5, <2>6, CountIsCountTo
<1> QED BY <1>1, <1>2

----------------------------------------------------------------------------
(* The inductive invariant.                                                *)

\* The places at which the scheduler holds a coroutine.
Carrying == {"resume", "begin", "body", "collect"}

\* Types; a client that is in the middle of a cancel or a suspend has its
\* coroutine marked, and the scheduler holds one exactly when it carries it.
TypeInv ==
    /\ readyQueue \in Seq(Coroutines)
    /\ completedCoroutines \in Seq(Coroutines)
    /\ state \in [Coroutines -> {"CREATED", "RUNNING", "SUSPENDED", "COMPLETED", "CANCELLED"}]
    /\ runs \in [Coroutines -> Nat]
    /\ calls \in [Coroutines -> Nat]
    /\ disturbed \subseteq Coroutines
    /\ cpc \in [Clients -> {"idle", "cancel", "remove", "suspend"}]
    /\ target \in [Clients -> Coroutines \cup {None}]
    /\ \A c \in Clients : cpc[c] # "idle" => target[c] \in disturbed
    /\ IF pc \in Carrying THEN hand \in Coroutines ELSE hand = None

\* There is no thread while the scheduler is stopped and nobody is stopping it.
ThreadInv == ~running /\ octl \notin {"stopping", "join"} => pc = "none"

\* A coroutine that ran and was not revived is COMPLETED or CANCELLED, and one
\* that the scheduler is about to run has not run: this is why nothing runs
\* twice.  An undisturbed one is never CANCELLED, so what the scheduler
\* collects of them goes to the completed list.
StateInv ==
    /\ \A k \in Coroutines \ revived :
         /\ runs[k] = 0 \/ (runs[k] = 1 /\ state[k] \in {"COMPLETED", "CANCELLED"})
         /\ hand = k /\ pc \in {"begin", "body"} => runs[k] = 0
    /\ \A k \in Coroutines \ disturbed :
         /\ state[k] \in {"CREATED", "RUNNING", "COMPLETED"}
         /\ hand = k /\ pc = "collect" => state[k] = "COMPLETED"

\* At first nothing is scheduled and nobody is inside a call.
LEMMA InitTypes == Init => TypeInv /\ ThreadInv
BY SchedulerAssumption DEF Init, TypeInv, ThreadInv, Carrying

\* Types and the places of the threads are kept by every step.
LEMMA TypesKept == TypeInv /\ ThreadInv /\ [Next]_vars => TypeInv' /\ ThreadInv'
<1> SUFFICES ASSUME TypeInv, ThreadInv, [Next]_vars PROVE TypeInv' /\ ThreadInv'
  OBVIOUS
<1>1. CASE TestRunning \/ LeaveLoop \/ FindNothing \/ Block \/ SpuriousWake
  BY <1>1 DEF TestRunning, LeaveLoop, FindNothing, Block, SpuriousWake, Goto, TypeInv, ThreadInv,
              Carrying, listVars, clientVars, ownerVars
<1>2. CASE PutBack
  <2>1. readyQueue \in Seq(Coroutines) /\ readyQueue # <<>>
    BY <1>2 DEF PutBack, TypeInv
  <2>2. SelectNext(readyQueue) \in Selections(Coroutines)
    BY <2>1, SelectKeeps
  <2>3. readyQueue' = Append(SelectNext(readyQueue).rest, SelectNext(readyQueue).chosen)
    BY <1>2 DEF PutBack
  <2>4. readyQueue' \in Seq(Coroutines)
    BY <2>2, <2>3 DEF Selections
  <2> QED BY <1>2, <2>4 DEF PutBack, Goto, TypeInv, ThreadInv, Carrying, clientVars, ownerVars
<1>3. CASE TakeNext
  <2>1. readyQueue \in Seq(Coroutines) /\ readyQueue # <<>>
    BY <1>3 DEF TakeNext, TypeInv
  <2>2. SelectNext(readyQueue) \in Selections(Coroutines)
    BY <2>1, SelectKeeps
  <2>3. readyQueue' = SelectNext(readyQueue).rest /\ hand' = SelectNext(readyQueue).chosen
    BY <1>3 DEF TakeNext
  <2>4. readyQueue' \in Seq(Coroutines) /\ hand' \in Coroutines
    BY <2>2, <2>3 DEF Selections
  <2> QED BY <1>3, <2>4 DEF TakeNext, Goto, TypeInv, ThreadInv, Carrying, clientVars, ownerVars
<1>4. CASE TestState
  BY <1>4 DEF TestState, Goto, TypeInv, ThreadInv, Carrying, listVars, clientVars, ownerVars
<1>5. CASE SetRunning
  BY <1>5 DEF SetRunning, Goto, TypeInv, ThreadInv, Carrying, listVars, clientVars, ownerVars
<1>6. CASE RunToEnd
  BY <1>6 DEF RunToEnd, Goto, TypeInv, ThreadInv, Carrying, listVars, clientVars, ownerVars
<1>7. CASE Collect
  BY <1>7 DEF Collect, Goto, TypeInv, ThreadInv, Carrying, clientVars, ownerVars
<1>8. ASSUME NEW c \in Clients, NEW k \in Coroutines, ScheduleCoroutine(c, k)
      PROVE  TypeInv' /\ ThreadInv'
  <2>1. /\ calls' = [calls EXCEPT ![k] = @ + 1]
        /\ readyQueue' = Append(readyQueue, k)
        /\ pc' = IF pc = "waiting" THEN "lock" ELSE pc
        /\ UNCHANGED <<completedCoroutines, hand, state, runs, cpc, target, disturbed, revived, ownerVars>>
    BY <1>8, Zenon DEF ScheduleCoroutine
  <2> QED BY <2>1 DEF TypeInv, ThreadInv, Carrying, ownerVars
<1>9. ASSUME NEW c \in Clients, NEW k \in Coroutines, BeginCancel(c, k)
      PROVE  TypeInv' /\ ThreadInv'
  BY <1>9 DEF BeginCancel, TypeInv, ThreadInv, Carrying, listVars, ownerVars
<1>10. ASSUME NEW c \in Clients, NEW k \in Coroutines, BeginSuspend(c, k)
       PROVE  TypeInv' /\ ThreadInv'
  BY <1>10 DEF BeginSuspend, TypeInv, ThreadInv, Carrying, listVars, ownerVars
<1>11. ASSUME NEW c \in Clients, SetCancelled(c) PROVE TypeInv' /\ ThreadInv'
  BY <1>11 DEF SetCancelled, TypeInv, ThreadInv, Carrying, listVars, ownerVars
<1>12. ASSUME NEW c \in Clients, RemoveFromQueues(c) PROVE TypeInv' /\ ThreadInv'
  <2>1. readyQueue' \in Seq(Coroutines)
    BY <1>12, WithoutKeeps DEF RemoveFromQueues, TypeInv
  <2> QED BY <1>12, <2>1 DEF RemoveFromQueues, TypeInv, ThreadInv, Carrying, ownerVars
<1>13. ASSUME NEW c \in Clients, SetSuspended(c) PROVE TypeInv' /\ ThreadInv'
  BY <1>13 DEF SetSuspended, TypeInv, ThreadInv, Carrying, listVars, ownerVars
<1>14. CASE Owner
  BY <1>14 DEF Owner, Start, Stop, Resume, NotifyAll, Join, Pause, SetMaxConcurrent, SetPolicy,
               Goto, TypeInv, ThreadInv, Carrying, listVars, clientVars
<1>15. CASE UNCHANGED vars
  BY <1>15 DEF vars, TypeInv, ThreadInv, listVars, clientVars, ownerVars
<1> QED BY <1>1, <1>2, <1>3, <1>4, <1>5, <1>6, <1>7, <1>8, <1>9, <1>10, <1>11, <1>12, <1>13,
           <1>14, <1>15 DEF Next, Scheduler, Client

----------------------------------------------------------------------------
(* No function runs twice.                                                 *)

\* At first no coroutine has run.
LEMMA InitStates == Init => StateInv
BY SchedulerAssumption DEF Init, StateInv

\* A coroutine that ran is not run again, whatever a cancel does to its state.
LEMMA StatesKept ==
    TypeInv /\ ThreadInv /\ StateInv /\ [Next]_vars => StateInv'
<1> SUFFICES ASSUME TypeInv, ThreadInv, StateInv, [Next]_vars PROVE StateInv'
  OBVIOUS
<1>1. CASE TestRunning \/ LeaveLoop \/ FindNothing \/ Block \/ SpuriousWake
  BY <1>1 DEF TestRunning, LeaveLoop, FindNothing, Block, SpuriousWake, Goto, StateInv,
              listVars, clientVars, ownerVars
<1>2. CASE PutBack
  BY <1>2 DEF PutBack, Goto, StateInv, clientVars, ownerVars
<1>3. CASE TakeNext
  BY <1>3 DEF TakeNext, Goto, StateInv, clientVars, ownerVars
<1>4. CASE TestState
  BY <1>4 DEF TestState, Goto, TypeInv, StateInv, listVars, clientVars, ownerVars
<1>5. CASE SetRunning
  BY <1>5 DEF SetRunning, Goto, TypeInv, Carrying, StateInv, listVars, clientVars, ownerVars
<1>6. CASE RunToEnd
  BY <1>6 DEF RunToEnd, Goto, TypeInv, Carrying, StateInv, listVars, clientVars, ownerVars
<1>7. CASE Collect
  BY <1>7 DEF Collect, Goto, StateInv, clientVars, ownerVars
<1>8. ASSUME NEW c \in Clients, NEW k \in Coroutines, ScheduleCoroutine(c, k)
      PROVE  StateInv'
  BY <1>8 DEF ScheduleCoroutine, StateInv, ownerVars
<1>9. ASSUME NEW c \in Clients, NEW k \in Coroutines, BeginCancel(c, k) \/ BeginSuspend(c, k)
      PROVE  StateInv'
  BY <1>9 DEF BeginCancel, BeginSuspend, StateInv, listVars, ownerVars
<1>10. ASSUME NEW c \in Clients, SetCancelled(c) \/ SetSuspended(c) PROVE StateInv'
  <2>1. target[c] \in disturbed /\ target[c] \in Coroutines
    BY <1>10 DEF SetCancelled, SetSuspended, TypeInv
  <2>2. UNCHANGED <<hand, pc, runs, disturbed>>
    BY <1>10 DEF SetCancelled, SetSuspended
  <2>3. PICK st \in {"CANCELLED", "SUSPENDED"} :
          /\ state' = [state EXCEPT ![target[c]] = st]
          /\ \/ st = "CANCELLED" /\ revived' = revived
             \/ revived' = IF state[target[c]] \in {"COMPLETED", "CANCELLED"}
                           THEN revived \cup {target[c]} ELSE revived
    BY <1>10 DEF SetCancelled, SetSuspended
  <2>4. state \in [Coroutines -> {"CREATED", "RUNNING", "SUSPENDED", "COMPLETED", "CANCELLED"}]
    BY DEF TypeInv
  <2>5. ASSUME NEW k \in Coroutines \ revived'
        PROVE  /\ runs[k] = 0 \/ (runs[k] = 1 /\ state'[k] \in {"COMPLETED", "CANCELLED"})
               /\ hand = k /\ pc \in {"begin", "body"} => runs[k] = 0
    <3>1. k \in Coroutines \ revived
      BY <2>3, <2>5
    <3>2. /\ runs[k] = 0 \/ (runs[k] = 1 /\ state[k] \in {"COMPLETED", "CANCELLED"})
          /\ hand = k /\ pc \in {"begin", "body"} => runs[k] = 0
      BY <3>1 DEF StateInv
    <3> QED BY <2>1, <2>3, <2>4, <2>5, <3>2
  <2>6. ASSUME NEW k \in Coroutines \ disturbed PROVE state'[k] = state[k]
    BY <2>1, <2>3, <2>4, <2>6
  <2> QED BY <2>2, <2>5, <2>6 DEF StateInv
<1>11. ASSUME NEW c \in Clients, RemoveFromQueues(c) PROVE StateInv'
  BY <1>11 DEF RemoveFromQueues, StateInv, ownerVars
<1>12. CASE Owner
  BY <1>12 DEF Owner, Start, Stop, Resume, NotifyAll, Join, Pause, SetMaxConcurrent, SetPolicy,
               Goto, ThreadInv, StateInv, listVars, clientVars
<1>13. CASE UNCHANGED vars
  BY <1>13 DEF vars, StateInv, listVars, clientVars, ownerVars
<1> QED BY <1>1, <1>2, <1>3, <1>4, <1>5, <1>6, <1>7, <1>8, <1>9, <1>10, <1>11, <1>12, <1>13
        DEF Next, Scheduler, Client

\* However often a coroutine is scheduled, from however many threads, whenever
\* it is cancelled and whenever the scheduler is stopped and started again,
\* its function runs at most once, unless a suspend overwrote its end.
THEOREM RunsOnceCorrect == Spec => []RunsOnce
<1>1. Init => TypeInv /\ ThreadInv /\ StateInv
  BY InitTypes, InitStates
<1>2. TypeInv /\ ThreadInv /\ StateInv /\ [Next]_vars => (TypeInv /\ ThreadInv /\ StateInv)'
  BY TypesKept, StatesKept
<1>3. StateInv => RunsOnce
  BY DEF StateInv, RunsOnce
<1> QED BY <1>1, <1>2, <1>3, PTL DEF Spec

----------------------------------------------------------------------------
(* No call is lost.                                                        *)

\* At first no call has been made.
LEMMA InitCalls == Init => NoCallLost
<1> SUFFICES ASSUME Init, NEW k \in Coroutines PROVE
      calls[k] = Count(k, readyQueue) + Count(k, completedCoroutines) + (IF hand = k THEN 1 ELSE 0)
  BY DEF NoCallLost
<1>1. <<>> \in Seq(Coroutines) /\ Len(<<>>) = 0
  OBVIOUS
<1>2. Count(k, <<>>) = CountTo(k, <<>>, 0)
  BY <1>1, CountIsCountTo
<1>3. Count(k, <<>>) = 0
  BY <1>2, CountStep
<1> QED BY <1>3, SchedulerAssumption DEF Init

\* Every step that takes a coroutine from one place puts it in another.
LEMMA CallsKept ==
    TypeInv /\ StateInv /\ NoCallLost /\ [Next]_vars => NoCallLost'
<1> SUFFICES ASSUME TypeInv, StateInv, NoCallLost, [Next]_vars PROVE NoCallLost'
  OBVIOUS
<1> DEFINE Accounted(k) == calls[k] = Count(k, readyQueue) + Count(k, completedCoroutines)
                                        + (IF hand = k THEN 1 ELSE 0)
<1>1. /\ readyQueue \in Seq(Coroutines) /\ completedCoroutines \in Seq(Coroutines)
      /\ calls \in [Coroutines -> Nat]
  BY DEF TypeInv
<1>2. \A k : Count(k, readyQueue) \in Nat /\ Count(k, completedCoroutines) \in Nat
  BY <1>1, CountIsCountTo
<1>3. \A k \in Coroutines \ disturbed : Accounted(k)
  BY DEF NoCallLost
<1>4. ASSUME UNCHANGED <<calls, readyQueue, completedCoroutines, hand>>, disturbed \subseteq disturbed'
      PROVE  NoCallLost'
  BY <1>3, <1>4 DEF NoCallLost
<1>5. CASE TestRunning \/ LeaveLoop \/ FindNothing \/ Block \/ SpuriousWake \/ TestState
           \/ SetRunning \/ RunToEnd
  BY <1>4, <1>5 DEF TestRunning, LeaveLoop, FindNothing, Block, SpuriousWake, TestState,
                    SetRunning, RunToEnd, listVars, clientVars
<1>6. CASE PutBack
  <2> DEFINE next == SelectNext(readyQueue)
  <2>1. /\ readyQueue # <<>> /\ readyQueue' = Append(next.rest, next.chosen)
        /\ UNCHANGED <<calls, completedCoroutines, hand, disturbed>>
    BY <1>6 DEF PutBack, clientVars
  <2>2. /\ next \in Selections(Coroutines)
        /\ \A k : Count(k, readyQueue) = Count(k, next.rest) + Hit(next.chosen, k)
    BY <1>1, <2>1, SelectKeeps
  <2> HIDE DEF next
  <2>3. next.rest \in Seq(Coroutines) /\ next.chosen \in Coroutines
    BY <2>2 DEF Selections
  <2>4. ASSUME NEW k PROVE Count(k, readyQueue') = Count(k, readyQueue)
    <3>1. Count(k, Append(next.rest, next.chosen)) = Count(k, next.rest) + Hit(next.chosen, k)
      BY <2>3, CountAppend
    <3> QED BY <2>1, <2>2, <3>1
  <2> QED BY <1>3, <2>1, <2>4 DEF NoCallLost
<1>7. CASE TakeNext
  <2> DEFINE next == SelectNext(readyQueue)
  <2>1. /\ readyQueue # <<>> /\ readyQueue' = next.rest /\ hand' = next.chosen
        /\ UNCHANGED <<calls, completedCoroutines, disturbed>> /\ pc = "lock"
    BY <1>7 DEF TakeNext, Goto, clientVars
  <2>2. /\ next \in Selections(Coroutines)
        /\ \A k : Count(k, readyQueue) = Count(k, next.rest) + Hit(next.chosen, k)
    BY <1>1, <2>1, SelectKeeps
  <2> HIDE DEF next
  <2>3. next.rest \in Seq(Coroutines) /\ next.chosen \in Coroutines
    BY <2>2 DEF Selections
  <2>4. hand = None
    BY <2>1 DEF TypeInv, Carrying
  <2>5. ASSUME NEW k \in Coroutines \ disturbed PROVE Accounted(k)'
    <3>1. Count(k, next.rest) \in Nat
      BY <2>3, CountIsCountTo
    <3>2. calls[k] = Count(k, readyQueue) + Count(k, completedCoroutines)
      BY <1>2, <1>3, <2>4, <2>5, SchedulerAssumption
    <3>3. Hit(next.chosen, k) = (IF hand' = k THEN 1 ELSE 0) /\ Hit(next.chosen, k) \in Nat
      BY <2>1 DEF Hit
    <3>4. calls[k] = Count(k, next.rest) + Count(k, completedCoroutines) + Hit(next.chosen, k)
      BY <1>2, <2>2, <3>1, <3>2, <3>3
    <3> QED BY <2>1, <3>3, <3>4
  <2> QED BY <2>1, <2>5 DEF NoCallLost
<1>8. CASE Collect
  <2>1. /\ hand \in Coroutines /\ hand' = None /\ pc = "collect"
        /\ UNCHANGED <<calls, readyQueue, disturbed>>
        /\ completedCoroutines' = IF state[hand] = "COMPLETED"
                                  THEN Append(completedCoroutines, hand) ELSE completedCoroutines
    BY <1>8 DEF Collect, Goto, TypeInv, Carrying, clientVars
  <2>2. ASSUME NEW k
        PROVE  Count(k, Append(completedCoroutines, hand))
                 = Count(k, completedCoroutines) + Hit(hand, k)
    BY <1>1, <2>1, CountAppend
  <2>3. ASSUME NEW k \in Coroutines \ disturbed PROVE Accounted(k)'
    <3>1. hand' # k
      BY <2>1, <2>3, SchedulerAssumption
    <3>2. CASE hand = k
      <4>1. state[hand] = "COMPLETED"
        BY <2>1, <2>3, <3>2 DEF StateInv
      <4>2. Count(k, completedCoroutines') = Count(k, completedCoroutines) + 1
        BY <2>1, <2>2, <3>2, <4>1 DEF Hit
      <4> QED BY <1>2, <1>3, <2>1, <2>3, <3>1, <3>2, <4>2
    <3>3. CASE hand # k
      <4>1. Count(k, completedCoroutines') = Count(k, completedCoroutines)
        BY <1>2, <2>1, <2>2, <3>3 DEF Hit
      <4> QED BY <1>3, <2>1, <2>3, <3>1, <3>3, <4>1
    <3> QED BY <3>2, <3>3
  <2> QED BY <2>1, <2>3 DEF NoCallLost
<1>9. ASSUME NEW c \in Clients, NEW e \in Coroutines, ScheduleCoroutine(c, e)
      PROVE  NoCallLost'
  <2>1. /\ calls' = [calls EXCEPT ![e] = @ + 1]
        /\ readyQueue' = Append(readyQueue, e)
        /\ UNCHANGED <<completedCoroutines, hand, disturbed>>
    BY <1>9 DEF ScheduleCoroutine
  <2>2. ASSUME NEW k \in Coroutines \ disturbed PROVE Accounted(k)'
    <3>1. Count(k, readyQueue') = Count(k, readyQueue) + Hit(e, k)
      BY <1>1, <2>1, CountAppend
    <3>2. calls'[k] = calls[k] + Hit(e, k)
      BY <1>1, <2>1, <2>2 DEF Hit
    <3>3. Hit(e, k) \in Nat
      BY DEF Hit
    <3> QED BY <1>2, <1>3, <2>1, <2>2, <3>1, <3>2, <3>3
  <2> QED BY <2>1, <2>2 DEF NoCallLost
<1>10. ASSUME NEW c \in Clients, NEW k \in Coroutines, BeginCancel(c, k) \/ BeginSuspend(c, k)
       PROVE  NoCallLost'
  BY <1>4, <1>10 DEF BeginCancel, BeginSuspend, listVars
<1>11. ASSUME NEW c \in Clients, SetCancelled(c) \/ SetSuspended(c) PROVE NoCallLost'
  BY <1>4, <1>11 DEF SetCancelled, SetSuspended, listVars
<1>12. ASSUME NEW c \in Clients, RemoveFromQueues(c) PROVE NoCallLost'
  <2>1. /\ readyQueue' = Without(readyQueue, target[c])
        /\ UNCHANGED <<calls, completedCoroutines, hand, disturbed>>
    BY <1>12 DEF RemoveFromQueues
  <2>2. target[c] \in disturbed
    BY <1>12 DEF RemoveFromQueues, TypeInv
  <2>3. \A k \in Coroutines \ disturbed : Count(k, readyQueue') = Count(k, readyQueue)
    BY <1>1, <2>1, <2>2, WithoutKeeps
  <2> QED BY <1>3, <2>1, <2>3 DEF NoCallLost
<1>13. CASE Owner
  BY <1>4, <1>13 DEF Owner, Start, Stop, Resume, NotifyAll, Join, Pause, SetMaxConcurrent,
                     SetPolicy, listVars, clientVars
<1>14. CASE UNCHANGED vars
  BY <1>4, <1>14 DEF vars, listVars, clientVars
<1> QED BY <1>5, <1>6, <1>7, <1>8, <1>9, <1>10, <1>11, <1>12, <1>13, <1>14
        DEF Next, Scheduler, Client

\* Whatever the policy, the limit and the moment of a pause, a stop or
\* another coroutine's cancellation, every call of scheduleCoroutine is still
\* in the ready queue, in the scheduler's hand or among the completed ones.
THEOREM CallsCorrect == Spec => []NoCallLost
<1>1. Init => TypeInv /\ ThreadInv /\ StateInv /\ NoCallLost
  BY InitTypes, InitStates, InitCalls
<1>2. TypeInv /\ ThreadInv /\ StateInv /\ NoCallLost /\ [Next]_vars
        => (TypeInv /\ ThreadInv /\ StateInv /\ NoCallLost)'
  BY TypesKept, StatesKept, CallsKept
<1> QED BY <1>1, <1>2, PTL DEF Spec

----------------------------------------------------------------------------
(* ModuleSystem: types.                                                    *)

Verdicts == {"circular", "endless", "failed", "resolved"}

ModuleTypes ==
    /\ disk \subseteq Paths
    /\ searchPaths \in Seq(Dirs)
    /\ moduleCache \in [Names -> Modules \cup {Nothing}]
    /\ namespaces \in [Namespaces -> Scopes \cup {Nothing}]
    /\ symbols \in [Scopes -> [Symbols -> SymbolValues \cup {Nothing}]]
    /\ verdict \in {NoVerdict} \cup (Names \X Verdicts)

\* What is in the cache is a module, and its dependencies are names.
LEMMA CachedIsModule ==
    ASSUME ModuleTypes, NEW n \in Names
    PROVE  IsCached(moduleCache, n) =>
             /\ moduleCache[n] \in Modules
             /\ moduleCache[n].dependencies \in Seq(Names)
             /\ \A i \in DOMAIN moduleCache[n].dependencies :
                  moduleCache[n].dependencies[i] \in Names
<1> SUFFICES ASSUME IsCached(moduleCache, n)
             PROVE  /\ moduleCache[n] \in Modules
                    /\ moduleCache[n].dependencies \in Seq(Names)
                    /\ \A i \in DOMAIN moduleCache[n].dependencies :
                         moduleCache[n].dependencies[i] \in Names
  OBVIOUS
<1>1. moduleCache[n] \in Modules
  BY DEF ModuleTypes, IsCached
<1>2. moduleCache[n].dependencies \in Seq(Names)
  BY <1>1 DEF Modules
<1>3. \A q \in Seq(Names) : \A i \in DOMAIN q : q[i] \in Names
  OBVIOUS
<1> QED BY <1>1, <1>2, <1>3

\* A module that is found is found in a file that exists.
LEMMA PathFound ==
    ASSUME ModuleTypes, NEW n \in Names, ResolveModulePath(n) # Nothing
    PROVE  ResolveModulePath(n) \in Paths
<1> DEFINE found == {i \in DOMAIN Candidates(n) : Candidates(n)[i] \in disk}
<1>1. found # {}
  BY DEF ResolveModulePath
<1>2. DOMAIN Candidates(n) \subseteq Nat
  <2>1. PICK m \in Nat : m = Len(searchPaths)
    BY DEF ModuleTypes
  <2> DEFINE S    == [dir : {searchPaths[k] : k \in Nat} \cup {Nothing}, name : Names, txt : BOOLEAN]
             own  == <<[dir |-> Nothing, name |-> n, txt |-> FALSE]>>
             rest == [k \in 1 .. 2 * m |->
                        [dir |-> searchPaths[(k + 1) \div 2], name |-> n, txt |-> k % 2 = 0]]
  <2>2. own \in Seq(S)
    OBVIOUS
  <2>3. rest \in Seq(S)
    <3>1. 2 * m \in Nat
      BY <2>1
    <3>2. ASSUME NEW k \in 1 .. 2 * m PROVE rest[k] \in S
      <4>1. (k + 1) \div 2 \in Nat
        BY <2>1
      <4>2. (k % 2 = 0) \in BOOLEAN
        OBVIOUS
      <4> QED BY <4>1, <4>2
    <3> HIDE DEF S
    <3> QED BY <3>1, <3>2
  <2>4. Candidates(n) = own \o rest
    BY <2>1 DEF Candidates
  <2> HIDE DEF own, rest, S
  <2> QED BY <2>2, <2>3, <2>4
<1>3. found \subseteq Nat
  BY <1>2
<1> HIDE DEF found
<1>4. \E i \in found : \A j \in found : i <= j
  BY <1>1, <1>3, SmallestOf
<1>5. (CHOOSE i \in found : \A j \in found : i <= j) \in found
  BY <1>4
<1>6. ResolveModulePath(n) \in disk
  BY <1>1, <1>5 DEF ResolveModulePath, found
<1> QED BY <1>6 DEF ModuleTypes

\* loadModule adds a module without dependencies, or leaves the cache.
LEMMA LoadedAdds ==
    ASSUME ModuleTypes, NEW n \in Names
    PROVE  /\ Loaded(moduleCache, n) \in [Names -> Modules \cup {Nothing}]
           /\ \A m \in Names \ {n} : Loaded(moduleCache, n)[m] = moduleCache[m]
           /\ IsCached(moduleCache, n) => Loaded(moduleCache, n)[n] = moduleCache[n]
           /\ Loadable(n) => Loaded(moduleCache, n)[n] \in Modules
           /\ ~IsCached(moduleCache, n) /\ Loadable(n)
                => Loaded(moduleCache, n)[n].dependencies = <<>>
<1> DEFINE new == [path |-> ModuleFile(n), scope |-> Nothing, dependencies |-> <<>>]
<1>1. moduleCache \in [Names -> Modules \cup {Nothing}]
  BY DEF ModuleTypes
<1>2. CASE IsCached(moduleCache, n) \/ ModuleFile(n) = Nothing
  <2>1. Loaded(moduleCache, n) = moduleCache
    BY <1>2 DEF Loaded
  <2>2. IsCached(moduleCache, n) => moduleCache[n] \in Modules
    BY CachedIsModule
  <2> QED BY <1>1, <1>2, <2>1, <2>2 DEF Loadable
<1>3. CASE ~(IsCached(moduleCache, n) \/ ModuleFile(n) = Nothing)
  <2>1. Loaded(moduleCache, n) = [moduleCache EXCEPT ![n] = new]
    BY <1>3 DEF Loaded
  <2>2. new \in Modules /\ new.dependencies = <<>>
    <3>1. ModuleFile(n) = ResolveModulePath(n) /\ ResolveModulePath(n) # Nothing
      BY <1>3 DEF ModuleFile
    <3>2. ModuleFile(n) \in Paths
      BY <3>1, PathFound
    <3> QED BY <3>2 DEF Modules
  <2> HIDE DEF new
  <2> QED BY <1>1, <1>3, <2>1, <2>2
<1> QED BY <1>2, <1>3

\* A change of the cache that adds modules without dependencies only, and
\* leaves those that are there their own, leaves the relation between modules.
Grows ==
    \A n \in Names :
      /\ IsCached(moduleCache, n) =>
           /\ IsCached(moduleCache', n)
           /\ moduleCache'[n].dependencies = moduleCache[n].dependencies
      /\ ~IsCached(moduleCache, n) /\ IsCached(moduleCache', n) =>
           moduleCache'[n].dependencies = <<>>

\* A cache that grows so keeps the relation.
LEMMA GrowthKeepsDepends ==
    ASSUME Grows, NEW n \in Names
    PROVE  Depends(n)' = Depends(n)
<1>1. CASE IsCached(moduleCache, n)
  BY <1>1 DEF Grows, Depends, IsCached
<1>2. CASE ~IsCached(moduleCache, n) /\ IsCached(moduleCache', n)
  <2>1. moduleCache'[n].dependencies = <<>>
    BY <1>2 DEF Grows
  <2>2. DOMAIN moduleCache'[n].dependencies = {}
    BY <2>1
  <2> QED BY <1>2, <2>2 DEF Depends, IsCached
<1>3. CASE ~IsCached(moduleCache, n) /\ ~IsCached(moduleCache', n)
  BY <1>3 DEF Depends, IsCached
<1> QED BY <1>1, <1>2, <1>3

\* What is in the cache is not Nothing.
LEMMA ModuleIsCached ==
    ASSUME NEW cache, NEW n, cache[n] \in Modules
    PROVE  IsCached(cache, n)
BY ModuleAssumption DEF ModuleAssumption, IsCached

\* loadModule makes the cache grow so.
LEMMA LoadedGrows ==
    ASSUME ModuleTypes, NEW n \in Names, Loadable(n),
           moduleCache' = Loaded(moduleCache, n)
    PROVE  Grows
<1>1. ASSUME NEW m \in Names \ {n} PROVE moduleCache'[m] = moduleCache[m]
  BY LoadedAdds
<1>2. /\ IsCached(moduleCache, n) => moduleCache'[n] = moduleCache[n]
      /\ moduleCache'[n] \in Modules
      /\ ~IsCached(moduleCache, n) => moduleCache'[n].dependencies = <<>>
  BY LoadedAdds
<1>3. IsCached(moduleCache', n)
  BY <1>2, ModuleIsCached
<1> QED BY <1>1, <1>2, <1>3 DEF Grows, IsCached

----------------------------------------------------------------------------
(* Imports.                                                                *)

\* What an import does to the cache, the namespaces and the scopes.
LEMMA ImportSteps ==
    ASSUME ModuleTypes, NEW n \in Names, NEW space \in Namespaces,
           NEW scope \in Scopes, NEW parsed \in BOOLEAN, Import(n, space, scope, parsed)
    PROVE  /\ moduleCache' \in [Names -> Modules \cup {Nothing}] /\ Grows
           /\ namespaces' \in [Namespaces -> Scopes \cup {Nothing}]
           /\ \A m \in Namespaces : namespaces[m] # Nothing =>
                namespaces'[m] = namespaces[m] /\ namespaces[m] # scope
           /\ disk' \subseteq Paths /\ searchPaths' \in Seq(Dirs)
           /\ UNCHANGED verdict
<1> DEFINE cache == Loaded(moduleCache, n)
<1>1. /\ cache \in [Names -> Modules \cup {Nothing}]
      /\ \A m \in Names \ {n} : cache[m] = moduleCache[m]
      /\ IsCached(moduleCache, n) => cache[n] = moduleCache[n]
      /\ cache[n] \in Modules
      /\ ~IsCached(moduleCache, n) => cache[n].dependencies = <<>>
  BY LoadedAdds DEF Import
<1>2. moduleCache' = IF parsed THEN [cache EXCEPT ![n].scope = scope] ELSE cache
  BY DEF Import
<1> HIDE DEF cache
<1>3. ASSUME NEW r \in Modules
      PROVE  /\ [r EXCEPT !.scope = scope] \in Modules
             /\ [r EXCEPT !.scope = scope].dependencies = r.dependencies
  BY DEF Modules
<1>4. /\ moduleCache'[n] \in Modules
      /\ moduleCache'[n].dependencies = cache[n].dependencies
      /\ \A m \in Names \ {n} : moduleCache'[m] = cache[m]
      /\ moduleCache' \in [Names -> Modules \cup {Nothing}]
  <2>1. CASE parsed
    <3>1. moduleCache' = [cache EXCEPT ![n] = [cache[n] EXCEPT !.scope = scope]]
      BY <1>2, <2>1
    <3> QED BY <1>1, <1>3, <3>1
  <2>2. CASE ~parsed
    BY <1>1, <1>2, <2>2
  <2> QED BY <2>1, <2>2
<1>5. IsCached(moduleCache', n)
  BY <1>4, ModuleIsCached
<1>6. Grows
  BY <1>1, <1>4, <1>5 DEF Grows, IsCached
<1>7. /\ namespaces' = IF namespaces[space] = Nothing
                       THEN [namespaces EXCEPT ![space] = scope] ELSE namespaces
      /\ scope \notin {namespaces[m] : m \in Namespaces}
      /\ UNCHANGED <<disk, searchPaths, verdict>>
  BY Zenon DEF Import, Created, InUse
<1>8. namespaces \in [Namespaces -> Scopes \cup {Nothing}]
  BY DEF ModuleTypes
<1> QED BY <1>4, <1>6, <1>7, <1>8 DEF ModuleTypes

\* An import clears the scope it takes and touches no other: what is imported
\* by name goes to the namespace "", which has no scope.
LEMMA ImportedSymbols ==
    ASSUME ModuleTypes, NEW n \in Names, NEW scope \in Scopes, NEW parsed \in BOOLEAN,
           ProcessImport(n, scope, parsed)
    PROVE  /\ \E space \in Namespaces : Import(n, space, scope, parsed)
           /\ symbols' = [symbols EXCEPT ![scope] = NoSymbols]
<1>1. n \in Namespaces /\ \A alias \in Aliases : alias \in Namespaces
  BY DEF Namespaces
<1>2. ASSUME NEW s \in Symbols, NEW alias \in Symbols,
             HandleSelectiveImport(n, s, alias, scope, parsed)
      PROVE  symbols' = [symbols EXCEPT ![scope] = NoSymbols]
  <2>1. TargetScope(namespaces', "") = Nothing
    BY ModuleAssumption, Zenon DEF ModuleAssumption, TargetScope
  <2> QED BY <1>2, <2>1, Zenon DEF HandleSelectiveImport, Imported
<1> QED BY <1>1, <1>2, Zenon DEF ProcessImport, HandleDefaultImport, HandleWildcardImport,
             HandleNamespaceImport, HandleSelectiveImport

----------------------------------------------------------------------------
(* The search.                                                             *)

Answers == {"no", "yes", "endless"}
Bound == Cardinality(Names)

\* There are as many steps to search as there are names.
LEMMA BoundIsNat == Bound \in Nat /\ 0 \in 0 .. Bound /\ Bound \in 0 .. Bound
<1>1. Bound \in Nat
  <2>1. IsFiniteSet(Names)
    BY ModuleAssumption, Zenon DEF ModuleAssumption
  <2> QED BY <2>1, FS_CardinalityType DEF Bound
<1> QED BY <1>1

\* The answers of the dependencies of a module, in their order.
Outcomes(m, goal, below) ==
    [i \in DOMAIN moduleCache[m].dependencies |->
       IF moduleCache[m].dependencies[i] = goal THEN "yes"
       ELSE below[moduleCache[m].dependencies[i]]]

\* The function HasCircularDependency defines.
IsSearch(f, goal) ==
    f = [left \in 0 .. Cardinality(Names) |->
           [m \in Names |->
              IF ~IsCached(moduleCache, m) THEN "no"
              ELSE IF left = 0 THEN "endless"
              ELSE CircularVia(Outcomes(m, goal, f[left - 1]))]]

\* The first answer that is not "no" decides, and it is one of the answers.
LEMMA FirstDecides ==
    ASSUME NEW len \in Nat, NEW rest \in [1 .. len -> Answers]
    PROVE  /\ CircularVia(rest) \in Answers
           /\ CircularVia(rest) = "no" => \A i \in 1 .. len : rest[i] = "no"
           /\ CircularVia(rest) # "no" => \E i \in 1 .. len : rest[i] = CircularVia(rest)
<1> DEFINE Others == {i \in 1 .. len : rest[i] # "no"}
<1>1. CASE Others = {}
  <2>1. CircularVia(rest) = "no"
    BY <1>1 DEF CircularVia
  <2> QED BY <1>1, <2>1 DEF Answers
<1>2. CASE Others # {}
  <2>1. Others \subseteq Nat
    OBVIOUS
  <2>2. PICK i \in Others : \A j \in Others : i <= j
    <3> HIDE DEF Others
    <3> QED BY <1>2, <2>1, SmallestOf
  <2>3. i \in DOMAIN rest /\ rest[i] # "no" /\ \A j \in 1 .. i - 1 : rest[j] = "no"
    BY <2>2
  <2> DEFINE First(k) == rest[k] # "no" /\ \A j \in 1 .. k - 1 : rest[j] = "no"
             c == CHOOSE k \in DOMAIN rest : First(k)
  <2>4. c \in DOMAIN rest /\ First(c)
    BY <2>3, Zenon
  <2>5. CircularVia(rest) = rest[c]
    BY <2>3, Zenon DEF CircularVia
  <2> HIDE DEF c
  <2> QED BY <2>4, <2>5
<1> QED BY <1>1, <1>2

\* What the answers below a cached module mean for it.
LEMMA OutcomesDecide ==
    ASSUME ModuleTypes, NEW m \in Names, IsCached(moduleCache, m), NEW goal,
           NEW below \in [Names -> Answers], NEW answer,
           answer = CircularVia(Outcomes(m, goal, below))
    PROVE  /\ answer \in Answers
           /\ answer = "yes" => \E d \in Depends(m) : d = goal \/ below[d] = "yes"
           /\ answer = "endless" => \E d \in Depends(m) : below[d] = "endless"
           /\ answer = "no" => \A d \in Depends(m) : d # goal /\ below[d] = "no"
<1> DEFINE deps == moduleCache[m].dependencies
<1>1. PICK len \in Nat : DOMAIN deps = 1 .. len
  BY CachedIsModule
<1>2. \A i \in 1 .. len : deps[i] \in Names
  BY <1>1, CachedIsModule
<1>3. Depends(m) = {deps[i] : i \in 1 .. len}
  BY <1>1 DEF Depends
<1> DEFINE rest == Outcomes(m, goal, below)
<1>4. rest = [i \in 1 .. len |-> IF deps[i] = goal THEN "yes" ELSE below[deps[i]]]
  BY <1>1 DEF Outcomes
<1> HIDE DEF deps, rest
<1>5. rest \in [1 .. len -> Answers]
  BY <1>2, <1>4 DEF Answers
<1>6. /\ answer \in Answers
      /\ answer = "no" => \A i \in 1 .. len : rest[i] = "no"
      /\ answer # "no" => \E i \in 1 .. len : rest[i] = answer
  BY <1>5, FirstDecides DEF rest
<1>7. \A i \in 1 .. len : /\ deps[i] \in Depends(m)
                          /\ rest[i] = IF deps[i] = goal THEN "yes" ELSE below[deps[i]]
  BY <1>3, <1>4
<1>8. answer = "no" => \A d \in Depends(m) : d # goal /\ below[d] = "no"
  BY <1>3, <1>6, <1>7
<1> QED BY <1>6, <1>7, <1>8

\* The function, level by level.
LEMMA SearchLevels ==
    ASSUME NEW f, NEW goal, IsSearch(f, goal)
    PROVE  /\ DOMAIN f = 0 .. Bound
           /\ \A left \in 0 .. Bound : f[left] =
                [m \in Names |->
                   IF ~IsCached(moduleCache, m) THEN "no"
                   ELSE IF left = 0 THEN "endless"
                   ELSE CircularVia(Outcomes(m, goal, f[left - 1]))]
<1> DEFINE level(left) == [m \in Names |->
                             IF ~IsCached(moduleCache, m) THEN "no"
                             ELSE IF left = 0 THEN "endless"
                             ELSE CircularVia(Outcomes(m, goal, f[left - 1]))]
<1>1. f = [left \in 0 .. Bound |-> level(left)]
  BY DEF IsSearch, Bound
<1> HIDE DEF level
<1>2. DOMAIN f = 0 .. Bound /\ \A left \in 0 .. Bound : f[left] = level(left)
  BY <1>1
<1> QED BY <1>2 DEF level

\* Every level answers: the smallest one that did not would follow one that did.
LEMMA SearchTyped ==
    ASSUME ModuleTypes, NEW f, NEW goal, IsSearch(f, goal)
    PROVE  \A left \in 0 .. Bound : f[left] \in [Names -> Answers]
<1> DEFINE Bad == {left \in 0 .. Bound : f[left] \notin [Names -> Answers]}
<1>1. SUFFICES ASSUME Bad # {} PROVE FALSE
  OBVIOUS
<1>2. Bad \subseteq Nat
  OBVIOUS
<1>3. PICK left \in Bad : \A l \in Bad : left <= l
  <2> HIDE DEF Bad
  <2> QED BY <1>1, <1>2, SmallestOf
<1>4. left \in 0 .. Bound /\ f[left] \notin [Names -> Answers]
  OBVIOUS
<1>5. CASE left = 0
  <2>1. f[left] = [m \in Names |-> IF ~IsCached(moduleCache, m) THEN "no" ELSE "endless"]
    <3> HIDE DEF Bad
    <3>1. f[left] = [m \in Names |->
                       IF ~IsCached(moduleCache, m) THEN "no"
                       ELSE IF left = 0 THEN "endless"
                       ELSE CircularVia(Outcomes(m, goal, f[left - 1]))]
      BY <1>4, SearchLevels
    <3> QED BY ONLY <1>5, <3>1
  <2> QED BY <1>4, <2>1 DEF Answers
<1>6. CASE left # 0
  <2>1. left - 1 \in 0 .. Bound /\ ~(left <= left - 1)
    BY <1>4, <1>6, BoundIsNat
  <2>2. f[left - 1] \in [Names -> Answers]
    BY <1>3, <2>1
  <2>3. f[left] = [m \in Names |->
                     IF ~IsCached(moduleCache, m) THEN "no"
                     ELSE CircularVia(Outcomes(m, goal, f[left - 1]))]
    BY <1>4, <1>6, SearchLevels
  <2>4. ASSUME NEW m \in Names, IsCached(moduleCache, m)
        PROVE  CircularVia(Outcomes(m, goal, f[left - 1])) \in Answers
    BY <2>2, <2>4, OutcomesDecide
  <2> QED BY <1>4, <2>3, <2>4 DEF Answers
<1> QED BY <1>5, <1>6

\* There is such a function: the search always answers.
LEMMA SearchIsSearch ==
    ASSUME ModuleTypes, NEW n \in Names, NEW goal
    PROVE  /\ HasCircularDependency(n, goal) \in Answers
           /\ \E f : IsSearch(f, goal) /\ HasCircularDependency(n, goal) = f[Bound][n]
<1> DEFINE R == [Names -> Answers]
           base == [m \in Names |-> IF ~IsCached(moduleCache, m) THEN "no" ELSE "endless"]
           turn(below) == [m \in Names |->
                             IF ~IsCached(moduleCache, m) THEN "no"
                             ELSE CircularVia(Outcomes(m, goal, below))]
           step == [left \in 1 .. Bound |-> [below \in R |-> turn(below)]]
<1>1. base \in R
  BY DEF Answers
<1>2. ASSUME NEW below \in R PROVE turn(below) \in R
  <2>1. ASSUME NEW m \in Names, IsCached(moduleCache, m)
        PROVE  CircularVia(Outcomes(m, goal, below)) \in Answers
    BY <2>1, OutcomesDecide
  <2> QED BY <2>1 DEF Answers
<1> HIDE DEF R, base, turn
<1>3. step \in [(0 + 1) .. Bound -> [R -> R]]
  BY <1>2, BoundIsNat
<1> HIDE DEF step
<1>4. PICK f : LoopFrom(f, R, 0, Bound, base, step)
  <2>1. 0 \in Nat /\ Bound \in Nat /\ 0 <= Bound
    BY BoundIsNat
  <2> QED BY <1>1, <1>3, <2>1, LoopRuns, Zenon
<1>5. /\ f \in [0 .. Bound -> R] /\ f[0] = base
      /\ \A left \in 1 .. Bound : f[left] = step[left][f[left - 1]]
  BY <1>4 DEF LoopFrom
<1>6. ASSUME NEW left \in 1 .. Bound PROVE f[left] = turn(f[left - 1])
  <2>1. left - 1 \in 0 .. Bound
    BY <1>6, BoundIsNat
  <2>2. f[left - 1] \in R
    BY <1>5, <2>1
  <2> QED BY <1>5, <2>2 DEF step
<1>7. IsSearch(f, goal)
  <2> DEFINE level(left) == [m \in Names |->
                               IF ~IsCached(moduleCache, m) THEN "no"
                               ELSE IF left = 0 THEN "endless"
                               ELSE CircularVia(Outcomes(m, goal, f[left - 1]))]
  <2>1. ASSUME NEW left \in 0 .. Bound PROVE f[left] = level(left)
    <3>1. CASE left = 0
      BY <1>5, <3>1 DEF base
    <3>2. CASE left # 0
      <4>1. left \in 1 .. Bound
        BY <2>1, <3>2, BoundIsNat
      <4>2. f[left] = turn(f[left - 1])
        BY <1>6, <4>1
      <4> QED BY <3>2, <4>2 DEF turn
    <3> QED BY <3>1, <3>2
  <2> HIDE DEF level
  <2>2. f = [left \in 0 .. Bound |-> level(left)]
    BY <1>5, <2>1
  <2> QED BY <2>2 DEF IsSearch, level, Bound
<1>8. HasCircularDependency(n, goal) = (CHOOSE g : IsSearch(g, goal))[Bound][n]
  BY DEF HasCircularDependency, IsSearch, Outcomes, Bound
<1>9. IsSearch(CHOOSE g : IsSearch(g, goal), goal)
  BY <1>7, Zenon
<1> DEFINE g == CHOOSE h : IsSearch(h, goal)
<1>10. IsSearch(g, goal) /\ HasCircularDependency(n, goal) = g[Bound][n]
  BY <1>8, <1>9
<1> HIDE DEF g
<1>11. g[Bound] \in [Names -> Answers]
  BY <1>10, SearchTyped, BoundIsNat
<1> QED BY <1>10, <1>11

----------------------------------------------------------------------------
(* Every step.                                                             *)

\* Nothing is cached and no namespace is made.
LEMMA TypesInitially == ModuleInit => ModuleTypes
<1>1. Files \subseteq Paths /\ DefaultDirs \in Seq(Dirs)
  BY ModuleAssumption, Zenon DEF ModuleAssumption
<1> QED BY <1>1 DEF ModuleInit, ModuleTypes, NoSymbols

\* An import of any kind.
LEMMA ImportKept ==
    ASSUME ModuleTypes, NEW n \in Names, NEW scope \in Scopes, NEW parsed \in BOOLEAN,
           ProcessImport(n, scope, parsed)
    PROVE  ModuleTypes' /\ Grows /\ UNCHANGED verdict
<1>1. PICK space \in Namespaces : Import(n, space, scope, parsed)
  BY ImportedSymbols
<1>2. symbols' = [symbols EXCEPT ![scope] = NoSymbols]
  BY ImportedSymbols
<1>3. symbols' \in [Scopes -> [Symbols -> SymbolValues \cup {Nothing}]]
  BY <1>2 DEF ModuleTypes, NoSymbols
<1>4. verdict' \in {NoVerdict} \cup (Names \X Verdicts)
  BY <1>1, ImportSteps DEF ModuleTypes
<1> QED BY <1>1, <1>3, <1>4, ImportSteps DEF ModuleTypes

\* loadModule, called by itself.
LEMMA LoadKept ==
    ASSUME ModuleTypes, NEW n \in Names, LoadModule(n)
    PROVE  ModuleTypes' /\ Grows /\ UNCHANGED verdict
<1>1. /\ Loadable(n) /\ moduleCache' = Loaded(moduleCache, n)
      /\ UNCHANGED <<disk, searchPaths, namespaces, symbols, verdict>>
  BY DEF LoadModule
<1>2. moduleCache' \in [Names -> Modules \cup {Nothing}]
  BY <1>1, LoadedAdds
<1>3. Grows
  BY <1>1, LoadedGrows
<1> QED BY <1>1, <1>2, <1>3 DEF ModuleTypes

\* resolveDependencies adds modules; what it says, it says of the module asked for.
LEMMA ResolveKept ==
    ASSUME ModuleTypes, NEW n \in Names, ResolveDependencies(n)
    PROVE  /\ ModuleTypes' /\ Grows /\ IsCached(moduleCache, n)
           /\ verdict'[1] = n /\ verdict'[2] \in Verdicts
           /\ verdict'[2] = "circular" => HasCircularDependency(n, n) = "yes"
           /\ verdict'[2] = "endless" => HasCircularDependency(n, n) = "endless"
           /\ verdict'[2] \in {"failed", "resolved"} => HasCircularDependency(n, n) = "no"
           /\ verdict'[2] = "resolved" => \A d \in Depends(n) : IsCached(moduleCache', d)
<1> DEFINE deps == moduleCache[n].dependencies
           circular == HasCircularDependency(n, n)
           failed   == {i \in DOMAIN deps : ~Loadable(deps[i])}
           reached  == {i \in DOMAIN deps : \A j \in 1 .. i : j \notin failed}
           wanted   == {deps[i] : i \in reached}
<1>0. circular \in Answers
  BY SearchIsSearch
<1>1. /\ IsCached(moduleCache, n)
      /\ moduleCache' =
            IF circular # "no" THEN moduleCache
            ELSE [m \in Names |-> IF m \in wanted THEN Loaded(moduleCache, m)[m] ELSE moduleCache[m]]
      /\ verdict' = <<n, CASE circular = "yes" -> "circular"
                           [] circular = "endless" -> "endless"
                           [] circular = "no" /\ failed # {} -> "failed"
                           [] circular = "no" /\ failed = {} -> "resolved">>
      /\ UNCHANGED <<disk, searchPaths, namespaces, symbols>>
  BY Zenon DEF ResolveDependencies
<1>2. deps \in Seq(Names) /\ \A i \in DOMAIN deps : deps[i] \in Names
  BY <1>1, CachedIsModule
<1>3. ASSUME NEW m \in wanted PROVE m \in Names /\ Loadable(m)
  <2>1. PICK i \in reached : m = deps[i]
    OBVIOUS
  <2>2. i \in DOMAIN deps /\ i \in 1 .. i
    BY <1>2, <2>1
  <2>3. i \notin failed
    BY <2>1, <2>2
  <2> QED BY <1>2, <2>1, <2>2, <2>3
<1>4. failed = {} => \A d \in Depends(n) : d \in wanted
  BY <1>1 DEF Depends
<1> HIDE DEF circular, failed, wanted, deps
<1>5. ASSUME NEW m \in Names
      PROVE  /\ moduleCache'[m] \in Modules \cup {Nothing}
             /\ IsCached(moduleCache, m) => moduleCache'[m] = moduleCache[m]
             /\ ~IsCached(moduleCache, m) /\ IsCached(moduleCache', m) =>
                  moduleCache'[m].dependencies = <<>>
             /\ circular = "no" /\ m \in wanted => moduleCache'[m] \in Modules
  <2>1. CASE circular # "no" \/ m \notin wanted
    <3>1. moduleCache'[m] = moduleCache[m]
      BY <1>1, <2>1
    <3> QED BY <2>1, <3>1 DEF ModuleTypes, IsCached
  <2>2. CASE circular = "no" /\ m \in wanted
    <3>1. moduleCache'[m] = Loaded(moduleCache, m)[m]
      BY <1>1, <2>2
    <3>2. Loadable(m)
      BY <1>3, <2>2
    <3> QED BY <3>1, <3>2, LoadedAdds
  <2> QED BY <2>1, <2>2
<1>6. moduleCache' \in [Names -> Modules \cup {Nothing}]
  <2>1. moduleCache' = [m \in Names |-> moduleCache'[m]]
    BY <1>1 DEF ModuleTypes
  <2> QED BY <1>5, <2>1
<1>7. Grows
  BY <1>5 DEF Grows, IsCached
<1>8. /\ verdict' \in Names \X Verdicts
      /\ verdict'[1] = n
      /\ verdict'[2] = "circular" => circular = "yes"
      /\ verdict'[2] = "endless" => circular = "endless"
      /\ verdict'[2] \in {"failed", "resolved"} => circular = "no"
      /\ verdict'[2] = "resolved" => failed = {}
  <2>1. CASE circular = "yes"
    <3>1. verdict' = <<n, "circular">>
      BY <1>1, <2>1
    <3> QED BY <2>1, <3>1 DEF Verdicts
  <2>2. CASE circular = "endless"
    <3>1. verdict' = <<n, "endless">>
      BY <1>1, <2>2
    <3> QED BY <2>2, <3>1 DEF Verdicts
  <2>3. CASE circular = "no" /\ failed # {}
    <3>1. verdict' = <<n, "failed">>
      BY <1>1, <2>3
    <3> QED BY <2>3, <3>1 DEF Verdicts
  <2>4. CASE circular = "no" /\ failed = {}
    <3>1. verdict' = <<n, "resolved">>
      BY <1>1, <2>4
    <3> QED BY <2>4, <3>1 DEF Verdicts
  <2> QED BY <2>1, <2>2, <2>3, <2>4, <1>0 DEF Answers
<1>9. ModuleTypes'
  BY <1>1, <1>6, <1>8 DEF ModuleTypes
<1>10. verdict'[2] = "resolved" => \A d \in Depends(n) : IsCached(moduleCache', d)
  <2> SUFFICES ASSUME verdict'[2] = "resolved", NEW d \in Depends(n)
               PROVE  IsCached(moduleCache', d)
    OBVIOUS
  <2>1. d \in wanted
    BY <1>4, <1>8
  <2>2. d \in Names
    BY <1>3, <2>1
  <2>3. moduleCache'[d] \in Modules
    BY <1>5, <1>8, <2>1, <2>2
  <2> QED BY <2>3, ModuleIsCached
<1>11. verdict'[2] \in Verdicts
  BY <1>8
<1>12. circular = HasCircularDependency(n, n)
  BY DEF circular
<1> QED BY <1>1, <1>7, <1>8, <1>9, <1>10, <1>11, <1>12, Zenon

\* A change of the cache that is none.
LEMMA NothingGrows ==
    ASSUME UNCHANGED moduleCache
    PROVE  Grows
BY DEF Grows, IsCached

\* The dependencies of one module get one more.
LEMMA DependencyKept ==
    ASSUME ModuleTypes, NEW n \in Names, NEW d \in Names, AddDependency(n, d)
    PROVE  ModuleTypes' /\ verdict' = NoVerdict
<1>1. /\ IsCached(moduleCache, n) /\ verdict' = NoVerdict
      /\ moduleCache' = [moduleCache EXCEPT ![n].dependencies = Append(@, d)]
      /\ UNCHANGED <<disk, searchPaths, namespaces, symbols>>
  BY DEF AddDependency
<1>2. ASSUME NEW r \in Modules
      PROVE  [r EXCEPT !.dependencies = Append(@, d)] \in Modules
  <2>1. r.dependencies \in Seq(Names)
    BY DEF Modules
  <2>2. Append(r.dependencies, d) \in Seq(Names)
    BY <2>1
  <2> DEFINE longer == Append(r.dependencies, d)
  <2> HIDE DEF longer
  <2>3. [r EXCEPT !.dependencies = longer] \in Modules
    BY <2>2 DEF Modules, longer
  <2> QED BY <2>3 DEF longer
<1>3. moduleCache[n] \in Modules
  BY <1>1, CachedIsModule
<1>4. moduleCache' = [moduleCache EXCEPT ![n] = [moduleCache[n] EXCEPT !.dependencies = Append(@, d)]]
  BY <1>1
<1>5. moduleCache' \in [Names -> Modules \cup {Nothing}]
  BY <1>2, <1>3, <1>4 DEF ModuleTypes
<1> QED BY <1>1, <1>5 DEF ModuleTypes

\* Every other step leaves what was said or forgets it, and leaves the relation
\* between modules when it does not forget.
LEMMA StepKept ==
    ASSUME ModuleTypes, [ModuleNext]_moduleVars
    PROVE  /\ ModuleTypes'
           /\ \/ UNCHANGED verdict /\ Grows
              \/ verdict' = NoVerdict
              \/ \E n \in Names : ResolveDependencies(n)
<1>1. CASE \E n \in Names, scope \in Scopes, parsed \in BOOLEAN : ProcessImport(n, scope, parsed)
  BY <1>1, ImportKept
<1>2. CASE \E n \in Names : LoadModule(n)
  BY <1>2, LoadKept
<1>3. CASE \E n \in Names : ResolveDependencies(n)
  BY <1>3, ResolveKept
<1>4. CASE \E n, d \in Names : AddDependency(n, d)
  BY <1>4, DependencyKept
<1>5. ASSUME NEW d \in Dirs, AddSearchPath(d) PROVE ModuleTypes' /\ UNCHANGED verdict /\ Grows
  BY <1>5, NothingGrows DEF AddSearchPath, ModuleTypes
<1>6. ASSUME NEW n \in Namespaces, NEW s \in Symbols, NEW v \in SymbolValues, Define(n, s, v)
      PROVE  ModuleTypes' /\ UNCHANGED verdict /\ Grows
  <2>1. UNCHANGED <<disk, searchPaths, moduleCache, namespaces, verdict>>
    BY <1>6 DEF Define
  <2>2. namespaces[n] \in Scopes
    BY <1>6 DEF Define, ModuleTypes
  <2>3. symbols' = [symbols EXCEPT ![namespaces[n]] = [symbols[namespaces[n]] EXCEPT ![s] = v]]
    BY <1>6 DEF Define
  <2>4. symbols' \in [Scopes -> [Symbols -> SymbolValues \cup {Nothing}]]
    BY <2>2, <2>3 DEF ModuleTypes
  <2> QED BY <2>1, <2>4, NothingGrows DEF ModuleTypes
<1>7. ASSUME NEW n \in Namespaces, NEW s \in Symbols, NEW to \in Namespaces, NEW alias \in Symbols,
             ImportSymbol(s, n, to, alias)
      PROVE  ModuleTypes' /\ UNCHANGED verdict /\ Grows
  <2>1. UNCHANGED <<disk, searchPaths, moduleCache, namespaces, verdict>>
    BY <1>7 DEF ImportSymbol
  <2>2. \/ symbols' = symbols
        \/ /\ namespaces[n] \in Scopes /\ namespaces[to] \in Scopes
           /\ symbols' = [symbols EXCEPT ![namespaces[to]][alias] = symbols[namespaces[n]][s]]
    BY <1>7 DEF ImportSymbol, Imported, TargetScope, ModuleTypes
  <2>3. symbols' \in [Scopes -> [Symbols -> SymbolValues \cup {Nothing}]]
    BY SMTT(30), <2>2 DEF ModuleTypes
  <2> QED BY <2>1, <2>3, NothingGrows DEF ModuleTypes
<1>8. ASSUME NEW n \in Namespaces, RemoveNamespace(n)
      PROVE  ModuleTypes' /\ UNCHANGED verdict /\ Grows
  BY <1>8, NothingGrows DEF RemoveNamespace, ModuleTypes
<1>9. CASE ClearCache
  BY <1>9 DEF ClearCache, ModuleTypes
<1>10. CASE ChangeDisk
  <2>1. disk' \subseteq disk
    BY <1>10 DEF ChangeDisk
  <2>2. UNCHANGED <<searchPaths, moduleCache, namespaces, symbols, verdict>>
    BY <1>10 DEF ChangeDisk
  <2> QED BY <2>1, <2>2, NothingGrows DEF ModuleTypes
<1>11. CASE UNCHANGED moduleVars
  BY <1>11, NothingGrows DEF moduleVars, ModuleTypes
<1> QED BY <1>1, <1>2, <1>3, <1>4, <1>5, <1>6, <1>7, <1>8, <1>9, <1>10, <1>11, Zenon DEF ModuleNext

----------------------------------------------------------------------------
(* Namespaces.                                                             *)

\* An import that makes a namespace leaves every other its scope and what is
\* found in it, whatever was imported, removed, dropped from the cache and
\* imported again before.
THEOREM NamespacesCorrect == ModuleSpec => NamespacesKeepSymbols
<1> DEFINE Makes == \E m \in Namespaces : namespaces'[m] \notin {Nothing, namespaces[m]}
           Keeps == \A n \in Namespaces : Makes /\ namespaces[n] # Nothing =>
                      /\ namespaces'[n] = namespaces[n]
                      /\ symbols'[namespaces'[n]] = symbols[namespaces[n]]
<1>1. ASSUME ModuleTypes, [ModuleNext]_moduleVars PROVE Keeps
  <2>1. ASSUME NEW n \in Names, NEW scope \in Scopes, NEW parsed \in BOOLEAN,
               ProcessImport(n, scope, parsed)
        PROVE  Keeps
    <3>1. PICK space \in Namespaces : Import(n, space, scope, parsed)
      BY <1>1, <2>1, ImportedSymbols
    <3>2. \A m \in Namespaces : namespaces[m] # Nothing =>
            namespaces'[m] = namespaces[m] /\ namespaces[m] # scope
      BY <1>1, <3>1, ImportSteps
    <3>3. symbols' = [symbols EXCEPT ![scope] = NoSymbols]
      BY <1>1, <2>1, ImportedSymbols
    <3> QED BY <1>1, <3>2, <3>3 DEF ModuleTypes
  <2>2. ASSUME NEW n \in Namespaces, RemoveNamespace(n) PROVE ~Makes
    BY <1>1, <2>2 DEF RemoveNamespace, ModuleTypes
  <2>3. CASE UNCHANGED namespaces
    BY <2>3
  <2>4. \/ UNCHANGED namespaces
        \/ \E n \in Namespaces : RemoveNamespace(n)
        \/ \E n \in Names, scope \in Scopes, parsed \in BOOLEAN : ProcessImport(n, scope, parsed)
    BY <1>1, Zenon DEF ModuleNext, moduleVars, LoadModule, ResolveDependencies, AddDependency,
         AddSearchPath, Define, ImportSymbol, ClearCache, ChangeDisk
  <2> QED BY <2>1, <2>2, <2>3, <2>4
<1>2. ModuleTypes /\ [ModuleNext]_moduleVars => [Keeps]_moduleVars
  BY <1>1
<1>3. ModuleTypes /\ [ModuleNext]_moduleVars => ModuleTypes'
  BY StepKept
<1> QED BY <1>2, <1>3, TypesInitially, PTL DEF ModuleSpec, NamespacesKeepSymbols

----------------------------------------------------------------------------
(* Paths.                                                                  *)

\* p goes from module to module, each a dependency of the one before.
IsPath(p, len) ==
    p \in [0 .. len -> Names] /\ \A i \in 1 .. len : p[i] \in Depends(p[i - 1])
Leads(a, b, len) == \E p : IsPath(p, len) /\ p[0] = a /\ p[len] = b

\* Depends is a relation between names.
LEMMA DependsAreNames ==
    ASSUME ModuleTypes, NEW n \in Names
    PROVE  Depends(n) \subseteq Names
BY CachedIsModule DEF Depends

\* Every module leads to itself in no step.
LEMMA LeadsNowhere ==
    ASSUME NEW n \in Names
    PROVE  Leads(n, n, 0)
<1> DEFINE p == [i \in 0 .. 0 |-> n]
<1>1. IsPath(p, 0) /\ p[0] = n
  BY DEF IsPath
<1> QED BY <1>1 DEF Leads

\* A path may begin one step earlier,
LEMMA LeadsFrontStep ==
    ASSUME NEW n \in Names, NEW d \in Depends(n), NEW len \in Nat, NEW x, Leads(d, x, len)
    PROVE  Leads(n, x, len + 1)
<1>1. PICK p : IsPath(p, len) /\ p[0] = d /\ p[len] = x
  BY DEF Leads
<1>2. p \in [0 .. len -> Names] /\ \A i \in 1 .. len : p[i] \in Depends(p[i - 1])
  BY <1>1 DEF IsPath
<1> DEFINE q == [i \in 0 .. len + 1 |-> IF i = 0 THEN n ELSE p[i - 1]]
<1>3. q \in [0 .. len + 1 -> Names]
  BY <1>2
<1>4. q[0] = n /\ \A i \in 1 .. len + 1 : q[i] = p[i - 1]
  OBVIOUS
<1> HIDE DEF q
<1>5. ASSUME NEW i \in 1 .. len + 1 PROVE q[i] \in Depends(q[i - 1])
  <2>1. CASE i = 1
    BY <1>1, <1>4, <2>1
  <2>2. CASE i # 1
    <3>1. i - 1 \in 1 .. len /\ i - 1 \in 1 .. len + 1
      BY <1>5, <2>2
    <3>2. q[i - 1] = p[(i - 1) - 1] /\ p[i - 1] \in Depends(p[(i - 1) - 1])
      BY <1>2, <1>4, <3>1
    <3> QED BY <1>4, <3>2
  <2> QED BY <2>1, <2>2
<1>6. q[len + 1] = x
  BY <1>1, <1>4
<1> QED BY <1>3, <1>4, <1>5, <1>6 DEF Leads, IsPath

\* or end one step later.
LEMMA LeadsBackStep ==
    ASSUME ModuleTypes, NEW n, NEW m \in Names, NEW len \in Nat, Leads(n, m, len),
           NEW d \in Depends(m)
    PROVE  Leads(n, d, len + 1)
<1>1. PICK p : IsPath(p, len) /\ p[0] = n /\ p[len] = m
  BY DEF Leads
<1>2. p \in [0 .. len -> Names] /\ \A i \in 1 .. len : p[i] \in Depends(p[i - 1])
  BY <1>1 DEF IsPath
<1> DEFINE q == [i \in 0 .. len + 1 |-> IF i = len + 1 THEN d ELSE p[i]]
<1>3. d \in Names
  BY DependsAreNames
<1>4. q \in [0 .. len + 1 -> Names]
  BY <1>2, <1>3
<1>5. q[len + 1] = d /\ \A i \in 0 .. len : q[i] = p[i]
  OBVIOUS
<1> HIDE DEF q
<1>6. ASSUME NEW i \in 1 .. len + 1 PROVE q[i] \in Depends(q[i - 1])
  <2>1. i - 1 \in 0 .. len
    BY <1>6
  <2>2. CASE i = len + 1
    BY <1>1, <1>5, <2>1, <2>2
  <2>3. CASE i # len + 1
    BY <1>2, <1>5, <2>1, <2>3
  <2> QED BY <2>2, <2>3
<1>7. q[0] = n
  BY <1>1, <1>5
<1> QED BY <1>4, <1>5, <1>6, <1>7 DEF Leads, IsPath

\* A piece of a path is a path.
LEMMA PathPiece ==
    ASSUME NEW len \in Nat, NEW p, IsPath(p, len),
           NEW i \in 0 .. len, NEW j \in 0 .. len, i <= j
    PROVE  Leads(p[i], p[j], j - i)
<1>1. p \in [0 .. len -> Names] /\ \A k \in 1 .. len : p[k] \in Depends(p[k - 1])
  BY DEF IsPath
<1> DEFINE q == [k \in 0 .. j - i |-> p[i + k]]
<1>2. \A k \in 0 .. j - i : q[k] = p[i + k] /\ i + k \in 0 .. len
  OBVIOUS
<1>3. q \in [0 .. j - i -> Names]
  BY <1>1
<1> HIDE DEF q
<1>4. ASSUME NEW k \in 1 .. j - i PROVE q[k] \in Depends(q[k - 1])
  <2>1. k - 1 \in 0 .. j - i /\ i + k \in 1 .. len /\ i + (k - 1) = (i + k) - 1
    BY <1>4
  <2>2. p[i + k] \in Depends(p[(i + k) - 1])
    BY <1>1, <2>1
  <2>3. q[k - 1] = p[(i + k) - 1]
    BY <1>2, <2>1
  <2> QED BY <1>2, <2>2, <2>3
<1>5. q[0] = p[i] /\ q[j - i] = p[j]
  BY <1>2
<1> QED BY <1>3, <1>4, <1>5 DEF Leads, IsPath

\* A path has a last step.
LEMMA LeadsLastStep ==
    ASSUME NEW n, NEW x, NEW len \in Nat, Leads(n, x, len + 1)
    PROVE  \E m \in Names : Leads(n, m, len) /\ x \in Depends(m)
<1>1. PICK p : IsPath(p, len + 1) /\ p[0] = n /\ p[len + 1] = x
  BY DEF Leads
<1>2. len \in 0 .. len + 1 /\ 0 \in 0 .. len + 1 /\ len - 0 = len /\ len + 1 \in 1 .. len + 1
      /\ (len + 1) - 1 = len /\ 0 <= len
  OBVIOUS
<1>3. Leads(p[0], p[len], len)
  BY <1>1, <1>2, PathPiece
<1>4. p[len] \in Names /\ x \in Depends(p[len])
  BY <1>1, <1>2 DEF IsPath
<1> QED BY <1>1, <1>3, <1>4

\* The function Reached defines.
IsWithin(f, n) ==
    f = [k \in 0 .. Cardinality(Names) |->
           IF k = 0 THEN Depends(n)
           ELSE f[k - 1] \cup UNION {Depends(m) : m \in f[k - 1]}]

\* There is such a function, and Reached is its last value.
LEMMA ReachedIsWithin ==
    ASSUME ModuleTypes, NEW n \in Names
    PROVE  \E f : IsWithin(f, n) /\ Reached(n) = f[Bound]
<1> DEFINE R == SUBSET Names
           turn(before) == before \cup UNION {Depends(m) : m \in before}
           step == [k \in 1 .. Bound |-> [before \in R |-> turn(before)]]
<1>1. Depends(n) \in R
  BY DependsAreNames
<1>2. \A before \in R : turn(before) \in R
  BY DependsAreNames
<1> HIDE DEF R, turn
<1>3. step \in [(0 + 1) .. Bound -> [R -> R]]
  BY <1>2, BoundIsNat
<1> HIDE DEF step
<1>4. PICK f : LoopFrom(f, R, 0, Bound, Depends(n), step)
  <2>1. 0 \in Nat /\ Bound \in Nat /\ 0 <= Bound
    BY BoundIsNat
  <2> QED BY <1>1, <1>3, <2>1, LoopRuns, Zenon
<1>5. /\ f \in [0 .. Bound -> R] /\ f[0] = Depends(n)
      /\ \A k \in 1 .. Bound : f[k] = step[k][f[k - 1]]
  BY <1>4 DEF LoopFrom
<1>6. ASSUME NEW k \in 1 .. Bound PROVE f[k] = turn(f[k - 1])
  <2>1. k - 1 \in 0 .. Bound
    BY <1>6, BoundIsNat
  <2>2. f[k - 1] \in R
    BY <1>5, <2>1
  <2> QED BY <1>5, <2>2 DEF step
<1>7. IsWithin(f, n)
  <2> DEFINE level(k) == IF k = 0 THEN Depends(n) ELSE turn(f[k - 1])
  <2>1. ASSUME NEW k \in 0 .. Bound PROVE f[k] = level(k)
    <3>1. k = 0 \/ k \in 1 .. Bound
      BY BoundIsNat
    <3>2. k \in 1 .. Bound => k # 0
      OBVIOUS
    <3> QED BY <1>5, <1>6, <3>1, <3>2
  <2> HIDE DEF level
  <2>2. f = [k \in 0 .. Bound |-> level(k)]
    BY <1>5, <2>1
  <2> QED BY <2>2 DEF IsWithin, level, turn, Bound
<1>8. Reached(n) = (CHOOSE g : IsWithin(g, n))[Bound]
  BY DEF Reached, IsWithin, Bound
<1>9. IsWithin(CHOOSE g : IsWithin(g, n), n)
  BY <1>7, Zenon
<1> QED BY <1>8, <1>9

\* The function, round by round.
LEMMA WithinLevels ==
    ASSUME NEW f, NEW n, IsWithin(f, n)
    PROVE  /\ f[0] = Depends(n)
           /\ \A k \in 1 .. Bound : f[k] = f[k - 1] \cup UNION {Depends(m) : m \in f[k - 1]}
<1> DEFINE level(k) == IF k = 0 THEN Depends(n)
                       ELSE f[k - 1] \cup UNION {Depends(m) : m \in f[k - 1]}
<1>1. f = [k \in 0 .. Bound |-> level(k)]
  BY DEF IsWithin, Bound
<1> HIDE DEF level
<1>2. \A k \in 0 .. Bound : f[k] = level(k)
  BY <1>1
<1>3. \A k \in 1 .. Bound : k \in 0 .. Bound /\ k # 0
  BY BoundIsNat
<1> QED BY <1>2, <1>3, BoundIsNat DEF level

\* A module is reached if a path of at most one step more than there are
\* modules leads to it.
LEMMA ReachedByPath ==
    ASSUME ModuleTypes, NEW n \in Names, NEW x
    PROVE  x \in Reached(n) <=> \E len \in 1 .. Bound + 1 : Leads(n, x, len)
<1>1. PICK f : IsWithin(f, n) /\ Reached(n) = f[Bound]
  BY ReachedIsWithin
<1>2. /\ f[0] = Depends(n)
      /\ \A k \in 1 .. Bound : f[k] = f[k - 1] \cup UNION {Depends(m) : m \in f[k - 1]}
  BY <1>1, WithinLevels
<1> DEFINE Good(k) == \A y : y \in f[k] <=> \E len \in 1 .. k + 1 : Leads(n, y, len)
           Bad == {k \in 0 .. Bound : ~Good(k)}
<1>3. Bad = {}
  <2>1. SUFFICES ASSUME Bad # {} PROVE FALSE
    OBVIOUS
  <2>2. Bad \subseteq Nat
    OBVIOUS
  <2>3. PICK k \in Bad : \A j \in Bad : k <= j
    <3> HIDE DEF Bad
    <3> QED BY <2>1, <2>2, SmallestOf
  <2>4. k \in 0 .. Bound /\ ~Good(k)
    OBVIOUS
  <2>5. CASE k = 0
    <3>1. \A y : Leads(n, y, 1) <=> y \in Depends(n)
      <4>1. ASSUME NEW y \in Depends(n) PROVE Leads(n, y, 1)
        <5>1. Leads(n, y, 0 + 1)
          BY LeadsNowhere, LeadsBackStep
        <5> QED BY <5>1
      <4>2. ASSUME NEW y, Leads(n, y, 1) PROVE y \in Depends(n)
        BY <4>2 DEF Leads, IsPath
      <4> QED BY <4>1, <4>2
    <3> QED BY <1>2, <2>4, <2>5, <3>1
  <2>6. CASE k # 0
    <3>1. PICK j \in Nat : k = j + 1
      <4>1. k - 1 \in Nat /\ k = (k - 1) + 1
        BY <2>4, <2>6
      <4> QED BY <4>1
    <3>2. j \in 0 .. Bound /\ ~(k <= j) /\ k \in 1 .. Bound /\ k - 1 = j
      BY <2>4, <3>1, BoundIsNat
    <3>3. Good(j)
      BY <2>3, <3>2
    <3>4. f[k] = f[j] \cup UNION {Depends(m) : m \in f[j]}
      BY <1>2, <3>2
    <3>5. ASSUME NEW y \in f[k] PROVE \E len \in 1 .. k + 1 : Leads(n, y, len)
      <4>1. CASE y \in f[j]
        <5>1. PICK len \in 1 .. j + 1 : Leads(n, y, len)
          BY <3>3, <4>1
        <5>2. len \in 1 .. k + 1
          BY <3>1
        <5> QED BY <5>1, <5>2
      <4>2. CASE y \notin f[j]
        <5>1. PICK m \in f[j] : y \in Depends(m)
          BY <3>4, <3>5, <4>2
        <5>2. PICK len \in 1 .. j + 1 : Leads(n, m, len)
          BY <3>3, <5>1
        <5>3. m \in Names
          BY <5>2 DEF Leads, IsPath
        <5>4. Leads(n, y, len + 1) /\ len + 1 \in 1 .. k + 1
          BY <3>1, <5>1, <5>2, <5>3, LeadsBackStep
        <5> QED BY <5>4
      <4> QED BY <4>1, <4>2
    <3>6. ASSUME NEW y, NEW len \in 1 .. k + 1, Leads(n, y, len) PROVE y \in f[k]
      <4>1. CASE len \in 1 .. j + 1
        BY <3>3, <3>4, <3>6, <4>1
      <4>2. CASE len \notin 1 .. j + 1
        <5>1. len = (j + 1) + 1 /\ j + 1 \in Nat /\ j + 1 \in 1 .. j + 1
          BY <3>1, <4>2
        <5>2. PICK m \in Names : Leads(n, m, j + 1) /\ y \in Depends(m)
          BY <3>6, <5>1, LeadsLastStep
        <5>3. m \in f[j]
          BY <3>3, <5>1, <5>2
        <5> QED BY <3>4, <5>2, <5>3
      <4> QED BY <4>1, <4>2
    <3> QED BY <2>4, <3>5, <3>6
  <2> QED BY <2>5, <2>6
<1>4. Good(Bound)
  BY <1>3, BoundIsNat
<1> QED BY <1>1, <1>4

----------------------------------------------------------------------------
(* What the search says of paths.                                          *)

\* One level of the search.
LEMMA SearchStep ==
    ASSUME ModuleTypes, NEW f, NEW goal, IsSearch(f, goal),
           NEW left \in 0 .. Bound, NEW m \in Names
    PROVE  /\ f[left][m] = "yes" =>
                left # 0 /\ \E d \in Depends(m) : d = goal \/ f[left - 1][d] = "yes"
           /\ f[left][m] = "endless" =>
                left = 0 \/ \E d \in Depends(m) : f[left - 1][d] = "endless"
           /\ f[left][m] = "no" =>
                \A d \in Depends(m) : left # 0 /\ d # goal /\ f[left - 1][d] = "no"
<1>1. f[left][m] = IF ~IsCached(moduleCache, m) THEN "no"
                   ELSE IF left = 0 THEN "endless"
                   ELSE CircularVia(Outcomes(m, goal, f[left - 1]))
  <2>1. f[left] = [l \in Names |->
                     IF ~IsCached(moduleCache, l) THEN "no"
                     ELSE IF left = 0 THEN "endless"
                     ELSE CircularVia(Outcomes(l, goal, f[left - 1]))]
    BY SearchLevels
  <2> QED BY <2>1
<1>2. CASE ~IsCached(moduleCache, m)
  BY <1>1, <1>2 DEF Depends
<1>3. CASE IsCached(moduleCache, m) /\ left = 0
  BY <1>1, <1>3
<1>4. CASE IsCached(moduleCache, m) /\ left # 0
  <2>1. left - 1 \in 0 .. Bound
    BY <1>4, BoundIsNat
  <2>2. f[left - 1] \in [Names -> Answers]
    BY <2>1, SearchTyped
  <2>3. f[left][m] = CircularVia(Outcomes(m, goal, f[left - 1]))
    BY <1>1, <1>4
  <2> QED BY <1>4, <2>2, <2>3, OutcomesDecide
<1> QED BY <1>2, <1>3, <1>4

\* "yes" tells of a path to the goal.
LEMMA YesLeads ==
    ASSUME ModuleTypes, NEW f, NEW goal, IsSearch(f, goal)
    PROVE  \A left \in 0 .. Bound : \A m \in Names :
             f[left][m] = "yes" => \E len \in 1 .. left : Leads(m, goal, len)
<1> DEFINE Good(left) == \A m \in Names :
                           f[left][m] = "yes" => \E len \in 1 .. left : Leads(m, goal, len)
           Bad == {left \in 0 .. Bound : ~Good(left)}
<1>1. SUFFICES ASSUME Bad # {} PROVE FALSE
  OBVIOUS
<1>2. Bad \subseteq Nat
  OBVIOUS
<1>3. PICK left \in Bad : \A l \in Bad : left <= l
  <2> HIDE DEF Bad
  <2> QED BY <1>1, <1>2, SmallestOf
<1>4. left \in 0 .. Bound /\ ~Good(left)
  OBVIOUS
<1>5. PICK m \in Names : f[left][m] = "yes" /\ \A len \in 1 .. left : ~Leads(m, goal, len)
  BY <1>4
<1>6. left # 0 /\ \E d \in Depends(m) : d = goal \/ f[left - 1][d] = "yes"
  BY <1>4, <1>5, SearchStep
<1>7. left - 1 \in 0 .. Bound /\ ~(left <= left - 1) /\ 1 \in 1 .. left
  BY <1>4, <1>6, BoundIsNat
<1>8. Good(left - 1)
  BY <1>3, <1>7
<1>9. PICK d \in Depends(m) : d = goal \/ f[left - 1][d] = "yes"
  BY <1>6
<1>10. d \in Names
  BY DependsAreNames
<1>11. CASE d = goal
  <2>1. Leads(m, goal, 0 + 1)
    BY <1>10, <1>11, LeadsNowhere, LeadsFrontStep
  <2> QED BY <1>5, <1>7, <2>1
<1>12. CASE f[left - 1][d] = "yes"
  <2>1. PICK len \in 1 .. left - 1 : Leads(d, goal, len)
    BY <1>8, <1>10, <1>12
  <2>2. Leads(m, goal, len + 1) /\ len + 1 \in 1 .. left
    BY <1>7, <2>1, LeadsFrontStep
  <2> QED BY <1>5, <2>2
<1> QED BY <1>9, <1>11, <1>12

\* "endless" tells of a path of every step the search could take.
LEMMA EndlessLeads ==
    ASSUME ModuleTypes, NEW f, NEW goal, IsSearch(f, goal)
    PROVE  \A left \in 0 .. Bound : \A m \in Names :
             f[left][m] = "endless" => \E x : Leads(m, x, left)
<1> DEFINE Good(left) == \A m \in Names : f[left][m] = "endless" => \E x : Leads(m, x, left)
           Bad == {left \in 0 .. Bound : ~Good(left)}
<1>1. SUFFICES ASSUME Bad # {} PROVE FALSE
  OBVIOUS
<1>2. Bad \subseteq Nat
  OBVIOUS
<1>3. PICK left \in Bad : \A l \in Bad : left <= l
  <2> HIDE DEF Bad
  <2> QED BY <1>1, <1>2, SmallestOf
<1>4. left \in 0 .. Bound /\ ~Good(left)
  OBVIOUS
<1>5. PICK m \in Names : f[left][m] = "endless" /\ \A x : ~Leads(m, x, left)
  BY <1>4
<1>6. left # 0
  BY <1>5, LeadsNowhere
<1>7. PICK d \in Depends(m) : f[left - 1][d] = "endless"
  BY <1>4, <1>5, <1>6, SearchStep
<1>8. PICK l \in Nat : left = l + 1
  <2>1. left - 1 \in Nat /\ left = (left - 1) + 1
    BY <1>4, <1>6
  <2> QED BY <2>1
<1>9. l \in 0 .. Bound /\ ~(left <= l) /\ left - 1 = l
  BY <1>4, <1>8, BoundIsNat
<1>10. Good(l) /\ d \in Names
  BY <1>3, <1>9, DependsAreNames
<1>11. PICK x : Leads(d, x, l)
  BY <1>7, <1>9, <1>10
<1>12. Leads(m, x, left)
  BY <1>8, <1>11, LeadsFrontStep
<1> QED BY <1>5, <1>12

\* "no" follows every path: whatever it leads to, the search said "no" there.
LEMMA NoFollows ==
    ASSUME ModuleTypes, NEW f, NEW goal, IsSearch(f, goal),
           NEW n \in Names, f[Bound][n] = "no"
    PROVE  \A k \in 0 .. Bound : \A x : Leads(n, x, k) => f[Bound - k][x] = "no"
<1> DEFINE Good(k) == \A x : Leads(n, x, k) => f[Bound - k][x] = "no"
           Bad == {k \in 0 .. Bound : ~Good(k)}
<1>1. SUFFICES ASSUME Bad # {} PROVE FALSE
  OBVIOUS
<1>2. Bad \subseteq Nat
  OBVIOUS
<1>3. PICK k \in Bad : \A j \in Bad : k <= j
  <2> HIDE DEF Bad
  <2> QED BY <1>1, <1>2, SmallestOf
<1>4. k \in 0 .. Bound /\ ~Good(k)
  OBVIOUS
<1>5. CASE k = 0
  <2>1. \A x : Leads(n, x, 0) => x = n
    BY DEF Leads
  <2>2. Bound - 0 = Bound
    BY BoundIsNat
  <2> QED BY <1>4, <1>5, <2>1, <2>2
<1>6. CASE k # 0
  <2>1. PICK j \in Nat : k = j + 1
    <3>1. k - 1 \in Nat /\ k = (k - 1) + 1
      BY <1>4, <1>6
    <3> QED BY <3>1
  <2>2. j \in 0 .. Bound /\ ~(k <= j) /\ Bound - j \in 0 .. Bound /\ (Bound - j) - 1 = Bound - k
    BY <1>4, <2>1, BoundIsNat
  <2>3. Good(j)
    BY <1>3, <2>2
  <2>4. ASSUME NEW x, Leads(n, x, k) PROVE f[Bound - k][x] = "no"
    <3>1. PICK m \in Names : Leads(n, m, j) /\ x \in Depends(m)
      BY <2>1, <2>4, LeadsLastStep
    <3>2. f[Bound - j][m] = "no"
      BY <2>3, <3>1
    <3>3. f[(Bound - j) - 1][x] = "no"
      BY <2>2, <3>1, <3>2, SearchStep
    <3> QED BY <2>2, <3>3
  <2> QED BY <1>4, <2>4
<1> QED BY <1>5, <1>6

\* The three answers of the search of all levels.
LEMMA NoMeansNotReached ==
    ASSUME ModuleTypes, NEW n \in Names, NEW goal, HasCircularDependency(n, goal) = "no"
    PROVE  goal \notin Reached(n)
<1>1. PICK f : IsSearch(f, goal) /\ f[Bound][n] = "no"
  BY SearchIsSearch
<1>2. SUFFICES ASSUME NEW len \in 1 .. Bound + 1, Leads(n, goal, len) PROVE FALSE
  BY ReachedByPath
<1>3. PICK k \in Nat : len = k + 1
  <2>1. len - 1 \in Nat /\ len = (len - 1) + 1
    BY BoundIsNat
  <2> QED BY <2>1
<1>4. k \in 0 .. Bound /\ Bound - k \in 0 .. Bound
  BY <1>3, BoundIsNat
<1>5. PICK m \in Names : Leads(n, m, k) /\ goal \in Depends(m)
  BY <1>2, <1>3, LeadsLastStep
<1>6. f[Bound - k][m] = "no"
  BY <1>1, <1>4, <1>5, NoFollows
<1> QED BY <1>1, <1>4, <1>5, <1>6, SearchStep

\* "yes" is right.
LEMMA YesMeansReached ==
    ASSUME ModuleTypes, NEW n \in Names, NEW goal, HasCircularDependency(n, goal) = "yes"
    PROVE  goal \in Reached(n)
<1>1. PICK f : IsSearch(f, goal) /\ f[Bound][n] = "yes"
  BY SearchIsSearch
<1>2. PICK len \in 1 .. Bound : Leads(n, goal, len)
  BY <1>1, BoundIsNat, YesLeads
<1>3. len \in 1 .. Bound + 1
  BY BoundIsNat
<1> QED BY <1>2, <1>3, ReachedByPath

\* A path of as many steps as there are modules meets one of them twice.
LEMMA EndlessMeansCycle ==
    ASSUME ModuleTypes, NEW n \in Names, NEW goal, HasCircularDependency(n, goal) = "endless"
    PROVE  \E m \in Reached(n) : m \in Reached(m)
<1>1. PICK f : IsSearch(f, goal) /\ f[Bound][n] = "endless"
  BY SearchIsSearch
<1>2. PICK x : Leads(n, x, Bound)
  BY <1>1, BoundIsNat, EndlessLeads
<1>3. PICK p : IsPath(p, Bound) /\ p[0] = n
  BY <1>2 DEF Leads
<1>4. p \in [0 .. Bound -> Names]
  BY <1>3 DEF IsPath
<1>5. IsFiniteSet(0 .. Bound) /\ Cardinality(0 .. Bound) = Bound + 1
  <2>1. Bound \in Nat /\ 0 \in Int /\ Bound \in Int /\ ~(0 > Bound)
    BY BoundIsNat
  <2>2. Cardinality(0 .. Bound) = Bound - 0 + 1
    BY <2>1, FS_Interval
  <2>3. Bound - 0 + 1 = Bound + 1
    BY <2>1
  <2> QED BY <2>1, <2>2, <2>3, FS_Interval
<1>6. IsFiniteSet(Names) /\ Cardinality(Names) = Bound /\ Cardinality(Names) < Cardinality(0 .. Bound)
  <2>1. IsFiniteSet(Names)
    BY ModuleAssumption, Zenon DEF ModuleAssumption
  <2>2. Bound < Bound + 1
    BY BoundIsNat
  <2> QED BY <1>5, <2>1, <2>2 DEF Bound
<1>7. \E a, b \in 0 .. Bound : a # b /\ p[a] = p[b]
  BY ZenonT(40), <1>4, <1>5, <1>6, FS_PigeonHole
<1>8. PICK i \in 0 .. Bound, j \in 0 .. Bound : i < j /\ p[i] = p[j]
  <2>1. PICK a \in 0 .. Bound, b \in 0 .. Bound : a # b /\ p[a] = p[b]
    BY <1>7
  <2>2. a < b \/ b < a
    BY <2>1
  <2> QED BY <2>1, <2>2
<1>9. i <= j /\ j - i \in 1 .. Bound + 1 /\ j \in 1 .. Bound + 1
      /\ 0 <= j /\ 0 \in 0 .. Bound /\ j - 0 = j
  BY <1>8, BoundIsNat
<1>10. Leads(p[i], p[j], j - i) /\ Leads(p[0], p[j], j)
  <2>1. Leads(p[i], p[j], j - i)
    BY <1>3, <1>9, PathPiece, BoundIsNat
  <2>2. Leads(p[0], p[j], j - 0)
    BY <1>3, <1>9, PathPiece, BoundIsNat
  <2> QED BY <1>9, <2>1, <2>2
<1>11. p[j] \in Names
  BY <1>4
<1>12. p[j] \in Reached(p[j])
  BY <1>8, <1>9, <1>10, <1>11, ReachedByPath
<1>13. p[j] \in Reached(n)
  BY <1>3, <1>9, <1>10, ReachedByPath
<1> QED BY <1>12, <1>13

----------------------------------------------------------------------------
(* The verdicts.                                                           *)

\* The same in the next state.
LEMMA ReachedByPaths ==
    ModuleTypes => \A n \in Names : \A x :
      x \in Reached(n) <=> \E len \in 1 .. Bound + 1 : Leads(n, x, len)
BY ReachedByPath

\* A statement about every state is true of the next one.
LEMMA ReachedByPathNext ==
    ModuleTypes' => \A n \in Names : \A x :
      x \in Reached(n)' <=> (\E len \in 1 .. Bound + 1 : Leads(n, x, len))'
<1>1. (ModuleTypes => \A n \in Names : \A x :
         x \in Reached(n) <=> \E len \in 1 .. Bound + 1 : Leads(n, x, len))'
  BY ReachedByPaths, PTL
<1> QED BY <1>1

\* The relation is what decides who is reached.
LEMMA SameRelationSameReached ==
    ASSUME ModuleTypes, ModuleTypes', \A n \in Names : Depends(n)' = Depends(n)
    PROVE  \A n \in Names : Reached(n)' = Reached(n)
<1>1. \A n \in Names : \A x : x \in Reached(n) <=> \E len \in 1 .. Bound + 1 : Leads(n, x, len)
  BY ReachedByPath
<1>2. \A n \in Names : \A x :
        x \in Reached(n)' <=> (\E len \in 1 .. Bound + 1 : Leads(n, x, len))'
  BY ReachedByPathNext
<1>3. ASSUME NEW n, NEW x, NEW len \in Nat PROVE Leads(n, x, len)' <=> Leads(n, x, len)
  <2>1. \A p : IsPath(p, len)' <=> IsPath(p, len)
    <3>1. ASSUME NEW p \in [0 .. len -> Names], NEW i \in 1 .. len
          PROVE  Depends(p[i - 1])' = Depends(p[i - 1])
      <4>1. i - 1 \in 0 .. len
        OBVIOUS
      <4> QED BY <4>1
    <3> QED BY <3>1 DEF IsPath
  <2> QED BY <2>1 DEF Leads
<1>4. 1 .. Bound + 1 \subseteq Nat /\ Bound' = Bound
  BY BoundIsNat DEF Bound
<1>5. ASSUME NEW n \in Names, NEW x PROVE x \in Reached(n)' <=> x \in Reached(n)
  BY <1>1, <1>2, <1>3, <1>4
<1> QED BY <1>5

\* What is reached is a name.
LEMMA ReachedAreNames ==
    ASSUME ModuleTypes, NEW n \in Names
    PROVE  Reached(n) \subseteq Names
<1>1. ASSUME NEW x \in Reached(n) PROVE x \in Names
  <2>1. PICK len \in 1 .. Bound + 1 : Leads(n, x, len)
    BY ReachedByPath
  <2>2. len \in 0 .. len
    BY BoundIsNat
  <2> QED BY <2>1, <2>2 DEF Leads, IsPath
<1> QED BY <1>1

\* VerdictsAgree in the next state, from the parts.
LEMMA AgreesNext ==
    ASSUME NEW n, verdict'[1] = n, verdict'[2] \in Verdicts,
           verdict'[2] = "circular" => n \in Reached(n)',
           verdict'[2] \in {"failed", "resolved"} => n \notin Reached(n)',
           verdict'[2] = "resolved" => \A d \in Depends(n)' : IsCached(moduleCache', d),
           verdict'[2] = "endless" => \E m \in Reached(n)' : m \in Reached(m)'
    PROVE  VerdictsAgree'
BY DEF VerdictsAgree, Verdicts

\* What resolveDependencies says of a module agrees with the relation it
\* searched, and goes on to agree while modules are loaded and imported: only a
\* dependency more or a cleared cache can make it out of date.
THEOREM VerdictsCorrect == ModuleSpec => []VerdictsAgree
<1>1. ModuleInit => VerdictsAgree
  BY DEF ModuleInit, VerdictsAgree, NoVerdict
<1>2. ASSUME ModuleTypes, VerdictsAgree, [ModuleNext]_moduleVars PROVE VerdictsAgree'
  <2>1. ModuleTypes'
    BY <1>2, StepKept
  <2>2. CASE verdict' = NoVerdict
    BY <2>2 DEF VerdictsAgree, NoVerdict
  <2>3. ASSUME Grows
        PROVE  /\ \A n \in Names : Depends(n)' = Depends(n)
               /\ \A n \in Names : Reached(n)' = Reached(n)
    BY <1>2, <2>1, <2>3, GrowthKeepsDepends, SameRelationSameReached
  <2>4. CASE UNCHANGED verdict /\ Grows /\ verdict # NoVerdict
    <3>0. PICK n \in Names : n = verdict[1]
      BY <1>2, <2>4 DEF ModuleTypes
    <3>1. n \in Names /\ verdict[2] \in Verdicts
      BY <1>2, <2>4 DEF ModuleTypes
    <3>2. verdict'[1] = n /\ verdict'[2] = verdict[2]
      BY <2>4, <3>0
    <3>3. /\ verdict[2] = "circular" => n \in Reached(n)
          /\ verdict[2] = "resolved" =>
               n \notin Reached(n) /\ \A d \in Depends(n) : IsCached(moduleCache, d)
          /\ verdict[2] = "failed" => n \notin Reached(n)
          /\ verdict[2] = "endless" => \E m \in Reached(n) : m \in Reached(m)
      BY <1>2, <2>4, <3>0, <3>1 DEF VerdictsAgree, Verdicts
    <3>4. Reached(n)' = Reached(n) /\ Depends(n)' = Depends(n)
      BY <2>3, <2>4, <3>1
    <3>5. \A d \in Depends(n) : IsCached(moduleCache, d) => IsCached(moduleCache', d)
      <4>1. Depends(n) \subseteq Names
        BY <1>2, <3>1, DependsAreNames
      <4>2. \A m \in Names : IsCached(moduleCache, m) => IsCached(moduleCache', m)
        BY <2>4, Zenon DEF Grows
      <4> QED BY <4>1, <4>2
    <3>6. \A m \in Reached(n) : Reached(m)' = Reached(m)
      BY <1>2, <2>3, <2>4, <3>1, ReachedAreNames
    <3>7. verdict'[2] = "endless" => \E m \in Reached(n)' : m \in Reached(m)'
      BY <3>2, <3>3, <3>4, <3>6
    <3>8. verdict'[2] = "resolved" => \A d \in Depends(n)' : IsCached(moduleCache', d)
      BY <3>2, <3>3, <3>4, <3>5
    <3>9. /\ verdict'[2] = "circular" => n \in Reached(n)'
          /\ verdict'[2] \in {"failed", "resolved"} => n \notin Reached(n)'
      BY <3>2, <3>3, <3>4
    <3> QED BY <3>1, <3>2, <3>7, <3>8, <3>9, AgreesNext
  <2>5. ASSUME NEW n \in Names, ResolveDependencies(n) PROVE VerdictsAgree'
    <3>1. /\ Grows /\ verdict'[1] = n /\ verdict'[2] \in Verdicts
          /\ verdict'[2] = "circular" => HasCircularDependency(n, n) = "yes"
          /\ verdict'[2] = "endless" => HasCircularDependency(n, n) = "endless"
          /\ verdict'[2] \in {"failed", "resolved"} => HasCircularDependency(n, n) = "no"
          /\ verdict'[2] = "resolved" => \A d \in Depends(n) : IsCached(moduleCache', d)
      BY <1>2, <2>5, ResolveKept
    <3>2. verdict'[2] = "circular" => n \in Reached(n)
      BY <1>2, <3>1, YesMeansReached
    <3>3. verdict'[2] \in {"failed", "resolved"} => n \notin Reached(n)
      BY <1>2, <3>1, NoMeansNotReached
    <3>4. verdict'[2] = "endless" => \E m \in Reached(n) : m \in Reached(m)
      BY <1>2, <3>1, EndlessMeansCycle
    <3>5. Reached(n)' = Reached(n) /\ Depends(n)' = Depends(n)
      BY <2>3, <3>1
    <3>6. \A m \in Reached(n) : Reached(m)' = Reached(m)
      BY <1>2, <2>3, <3>1, ReachedAreNames
    <3> QED BY <3>1, <3>2, <3>3, <3>4, <3>5, <3>6, AgreesNext
  <2> QED BY <1>2, <2>2, <2>4, <2>5, StepKept
<1>3. ModuleTypes /\ [ModuleNext]_moduleVars => ModuleTypes'
  BY StepKept
<1> QED BY <1>1, <1>2, <1>3, TypesInitially, PTL DEF ModuleSpec

----------------------------------------------------------------------------
(* MemoryManager.                                                         *)

----------------------------------------------------------------------------
(* The inductive invariant.                                                *)

Field == [at : Addresses \cup {Null}, managed : BOOLEAN]
Call  == [stage : {"idle", "delete", "take"}, at : Addresses \cup {Null}, source : Field,
          from : Pointers \cup {Null}, moves : BOOLEAN]

MemoryTypes ==
    /\ alive \subseteq Addresses
    /\ raw \subseteq Addresses
    /\ scoped \subseteq Addresses
    /\ tracked \subseteq Addresses
    /\ pool \in Seq(Addresses)
    /\ ptrs \in [Pointers -> Field]
    /\ doing \in [Pointers -> Call]
    /\ current \in 0 .. Wrap - 1
    /\ fault \in BOOLEAN

\* Calls under way.  The pointer a call copies or moves from is at rest, is that
\* of no other call and keeps the fields the call has read.
CallInv ==
    \A p \in Pointers :
      /\ doing[p].stage = "idle" => doing[p] = Idle
      /\ doing[p].stage = "delete" <=> doing[p].at # Null
      /\ doing[p].moves => doing[p].from \in Pointers
      /\ "copied" \notin history /\ doing[p].from \in Pointers => doing[p].moves
      /\ \A q \in Pointers :
           doing[p].from = q =>
             /\ doing[p].stage # "idle" /\ q # p
             /\ doing[q] = Idle
             /\ ptrs[q] = doing[p].source
             /\ \A r \in Pointers : doing[r].from = q => r = p

\* What a pointer holds: the value it points at, owned or not, unless a call
\* that runs on it is about to replace it or has it from another pointer; and
\* what such a call has still to delete and to take.
Held(p) ==
    ({doing[p].at, doing[p].source.at} \cup (IF Quiet(p) THEN {ptrs[p].at} ELSE {})) \ {Null}

\* What voids the promise that a value has one owner.
Promises == {"copied", "cleaned up", "pooled"}

\* A value is held in one place, by one pointer, and once there.
Apart ==
    /\ raw \cap scoped = {} /\ raw \cap Pooled = {} /\ scoped \cap Pooled = {}
    /\ IsInjective(pool)
    /\ \A p \in Pointers : Held(p) \cap (raw \cup scoped \cup Pooled) = {}
    /\ \A p, q \in Pointers : p # q => Held(p) \cap Held(q) = {}
    /\ \A p \in Pointers : doing[p].at # Null => doing[p].at # doing[p].source.at

\* What is held or tracked is alive, and what is about to be deleted not tracked.
HeldAlive ==
    /\ tracked \subseteq alive
    /\ raw \cup scoped \cup Pooled \subseteq alive
    /\ \A p \in Pointers : Held(p) \subseteq alive
    /\ \A p \in Pointers : doing[p].at \notin tracked

Owned == ~fault /\ Apart /\ HeldAlive

OwnerInv == history \cap Promises = {} => Owned

MemoryInv == MemoryTypes /\ CallInv /\ OwnerInv

\* There is no value yet.
LEMMA MemoryInitial == MemoryInit => MemoryInv /\ CountersMatch
<1> SUFFICES ASSUME MemoryInit PROVE MemoryInv /\ CountersMatch
  OBVIOUS
<1>1. MemoryTypes
  <2>1. Empty \in Field
    BY DEF Empty, Field
  <2>2. Idle \in Call
    BY <2>1 DEF Idle, Call
  <2>3. <<>> \in Seq(Addresses) /\ 0 \in 0 .. Wrap - 1
    BY MemoryAssumption
  <2> QED BY <2>1, <2>2, <2>3 DEF MemoryInit, MemoryTypes
<1>2. CallInv
  BY MemoryAssumption DEF MemoryInit, CallInv, Idle, Empty
<1>3. Pooled = {} /\ IsInjective(pool)
  <2>1. pool = <<>> /\ DOMAIN <<>> = {}
    BY DEF MemoryInit
  <2> QED BY <2>1 DEF Pooled, Range, IsInjective
<1>4. \A p \in Pointers : Held(p) = {}
  BY DEF MemoryInit, Held, Idle, Empty
<1>5. Owned
  BY <1>3, <1>4, MemoryAssumption DEF MemoryInit, Owned, Apart, HeldAlive, Idle
<1>6. CountersMatch
  BY FS_EmptySet DEF MemoryInit, CountersMatch
<1> QED BY <1>1, <1>2, <1>5, <1>6 DEF MemoryInv, OwnerInv

----------------------------------------------------------------------------
(* Types and calls.                                                        *)

\* Types, one operation at a time.
LEMMA UntrackedTypes ==
    ASSUME MemoryTypes, NEW as, Untracked(as)
    PROVE  tracked' \subseteq Addresses /\ current' \in 0 .. Wrap - 1
<1>1. IsFiniteSet(as \cap tracked)
  BY FS_Subset, MemoryAssumption DEF MemoryTypes
<1>2. Cardinality(as \cap tracked) \in Nat
  BY <1>1, FS_CardinalityType
<1>3. (current - Cardinality(as \cap tracked)) % Wrap \in 0 .. Wrap - 1
  BY <1>2, MemoryAssumption DEF MemoryTypes
<1> QED BY <1>3 DEF Untracked, MemoryTypes

\* The counter stays a size_t.
LEMMA TrackingTypes ==
    ASSUME MemoryTypes, NEW a \in Addresses, Tracking(a)
    PROVE  tracked' \subseteq Addresses /\ current' \in 0 .. Wrap - 1 /\ fault' \in BOOLEAN
<1>1. (current + 1) % Wrap \in 0 .. Wrap - 1
  BY MemoryAssumption DEF MemoryTypes
<1> QED BY <1>1 DEF Tracking, MemoryTypes

\* A call that begins has an address and fields.
LEMMA BeginTypes ==
    ASSUME MemoryTypes, NEW p \in Pointers, NEW source \in Field,
           NEW from \in Pointers \cup {Null}, NEW moves \in BOOLEAN,
           raw' \subseteq raw, Begin(p, source, from, moves)
    PROVE  MemoryTypes'
<1> DEFINE old == IF Owns(p) THEN ptrs[p].at ELSE Null
           call == [stage |-> IF Owns(p) THEN "delete" ELSE "take", at |-> old,
                    source |-> source, from |-> from, moves |-> moves]
<1>1. /\ doing' = [doing EXCEPT ![p] = call]
      /\ UNCHANGED <<alive, scoped, pool, ptrs, fault>>
      /\ Untracked(IF Owns(p) THEN {ptrs[p].at} ELSE {})
  BY DEF Begin
<1>2. old \in Addresses \cup {Null}
  BY DEF MemoryTypes, Field
<1>3. call \in Call
  BY <1>2 DEF Call
<1>4. tracked' \subseteq Addresses /\ current' \in 0 .. Wrap - 1
  BY <1>1, UntrackedTypes
<1> HIDE DEF call
<1>5. doing' \in [Pointers -> Call]
  BY <1>1, <1>3 DEF MemoryTypes
<1> QED BY <1>1, <1>4, <1>5 DEF MemoryTypes

\* The five calls that begin the same way.
Begins(p, source, from, moves) ==
    \/ \E a \in Addresses :
         /\ a \in raw /\ raw' = raw \ {a} /\ UNCHANGED history
         /\ source.at = a /\ from = Null /\ ~moves
    \/ source = Empty /\ from = Null /\ ~moves /\ UNCHANGED <<raw, history>>
    \/ /\ from \in Pointers /\ from # p /\ Quiet(from) /\ source = ptrs[from]
       /\ UNCHANGED raw
       /\ IF moves THEN UNCHANGED history ELSE history' = history \cup {"copied"}

\* What a step of a pointer is.
LEMMA PointerCalls ==
    ASSUME MemoryTypes, NEW p \in Pointers, UsePointer(p)
    PROVE  \/ DeleteOld(p) \/ Take(p) \/ Release(p)
           \/ \E source \in Field, from \in Pointers \cup {Null}, moves \in BOOLEAN :
                /\ Quiet(p)
                /\ Begin(p, source, from, moves)
                /\ Begins(p, source, from, moves)
<1>1. Empty \in Field
  BY DEF Empty, Field
<1>2. ASSUME NEW a \in Addresses, Reset(p, a) PROVE
        \E source \in Field, from \in Pointers \cup {Null}, moves \in BOOLEAN :
          Quiet(p) /\ Begin(p, source, from, moves) /\ Begins(p, source, from, moves)
  <2> DEFINE source == [at |-> a, managed |-> ptrs[p].managed]
  <2>1. source \in Field /\ source.at = a
    BY DEF MemoryTypes, Field
  <2>2. Quiet(p) /\ Begin(p, source, Null, FALSE) /\ a \in raw /\ raw' = raw \ {a}
        /\ UNCHANGED history
    BY <1>2, Zenon DEF Reset
  <2> HIDE DEF source
  <2>3. Begins(p, source, Null, FALSE)
    BY <2>1, <2>2 DEF Begins
  <2> QED BY <2>1, <2>2, <2>3, Zenon
<1>3. ASSUME NEW a \in Addresses, NEW b \in BOOLEAN, Construct(p, a, b) PROVE
        \E source \in Field, from \in Pointers \cup {Null}, moves \in BOOLEAN :
          Quiet(p) /\ Begin(p, source, from, moves) /\ Begins(p, source, from, moves)
  <2> DEFINE source == [at |-> a, managed |-> b]
  <2>1. source \in Field /\ source.at = a
    BY DEF Field
  <2>2. Quiet(p) /\ Begin(p, source, Null, FALSE) /\ a \in raw /\ raw' = raw \ {a}
        /\ UNCHANGED history
    BY <1>3, Zenon DEF Construct
  <2> HIDE DEF source
  <2>3. Begins(p, source, Null, FALSE)
    BY <2>1, <2>2 DEF Begins
  <2> QED BY <2>1, <2>2, <2>3, Zenon
<1>4. ASSUME NEW q \in Pointers, CopyAssign(p, q) PROVE
        \E source \in Field, from \in Pointers \cup {Null}, moves \in BOOLEAN :
          Quiet(p) /\ Begin(p, source, from, moves) /\ Begins(p, source, from, moves)
  <2>1. ptrs[q] \in Field
    BY DEF MemoryTypes
  <2>2. Quiet(p) /\ Begin(p, ptrs[q], q, FALSE) /\ Begins(p, ptrs[q], q, FALSE)
    BY <1>4, Zenon DEF CopyAssign, Begins
  <2> QED BY <2>1, <2>2, Zenon
<1>5. ASSUME NEW q \in Pointers, MoveAssign(p, q) PROVE
        \E source \in Field, from \in Pointers \cup {Null}, moves \in BOOLEAN :
          Quiet(p) /\ Begin(p, source, from, moves) /\ Begins(p, source, from, moves)
  <2>1. ptrs[q] \in Field
    BY DEF MemoryTypes
  <2>2. Quiet(p) /\ Begin(p, ptrs[q], q, TRUE) /\ Begins(p, ptrs[q], q, TRUE)
    BY <1>5, Zenon DEF MoveAssign, Begins
  <2> QED BY <2>1, <2>2, Zenon
<1>6. ASSUME Destroy(p) PROVE
        \E source \in Field, from \in Pointers \cup {Null}, moves \in BOOLEAN :
          Quiet(p) /\ Begin(p, source, from, moves) /\ Begins(p, source, from, moves)
  <2>1. Quiet(p) /\ Begin(p, Empty, Null, FALSE) /\ Begins(p, Empty, Null, FALSE)
    BY <1>6, Zenon DEF Destroy, Begins
  <2> QED BY <1>1, <2>1, Zenon
<1> QED BY <1>2, <1>3, <1>4, <1>5, <1>6, Zenon DEF UsePointer

\* What the program, the scope manager and the pool do touches no pointer.
ProgramStep ==
    \/ \E a \in Addresses : \/ TrackValue(a) \/ UntrackValue(a)
                            \/ Allocate(a) \/ AddValue(a) \/ GiveBack(a)
    \/ CleanupAll \/ ResetStatistics \/ Cleanup \/ Acquire

\* Types under the steps that are no pointer's.
LEMMA ProgramTypes == MemoryTypes /\ ProgramStep => MemoryTypes'
<1> SUFFICES ASSUME MemoryTypes, ProgramStep PROVE MemoryTypes'
  OBVIOUS
<1>1. ASSUME NEW a \in Addresses, TrackValue(a) PROVE MemoryTypes'
  <2>1. tracked' \subseteq Addresses /\ current' \in 0 .. Wrap - 1 /\ fault' \in BOOLEAN
    BY <1>1, TrackingTypes DEF TrackValue
  <2> QED BY <1>1, <2>1 DEF TrackValue, MemoryTypes
<1>2. ASSUME NEW a \in Addresses, UntrackValue(a) PROVE MemoryTypes'
  <2>1. tracked' \subseteq Addresses /\ current' \in 0 .. Wrap - 1
    BY <1>2, UntrackedTypes DEF UntrackValue
  <2> QED BY <1>2, <2>1 DEF UntrackValue, MemoryTypes
<1>3. ASSUME NEW a \in Addresses, Allocate(a) PROVE MemoryTypes'
  BY <1>3 DEF Allocate, MemoryTypes
<1>4. ASSUME NEW a \in Addresses, AddValue(a) PROVE MemoryTypes'
  BY <1>4 DEF AddValue, MemoryTypes
<1>5. ASSUME NEW a \in Addresses, GiveBack(a) PROVE MemoryTypes'
  <2>1. Append(pool, a) \in Seq(Addresses)
    BY DEF MemoryTypes
  <2>2. fault' \in BOOLEAN
    BY <1>5, Zenon DEF GiveBack, MemoryTypes
  <2>3. /\ raw' = raw \ {a}
        /\ pool' = Append(pool, a) \/ UNCHANGED pool
        /\ alive' = alive \ {a} \/ UNCHANGED alive
        /\ UNCHANGED <<scoped, ptrs, doing, tracked, current>>
    BY <1>5, Zenon DEF GiveBack
  <2> QED BY <2>1, <2>2, <2>3 DEF MemoryTypes
<1>6. CASE CleanupAll
  <2>1. fault' \in BOOLEAN
    BY <1>6, Zenon DEF CleanupAll
  <2>2. 0 \in 0 .. Wrap - 1
    BY MemoryAssumption
  <2> QED BY <1>6, <2>1, <2>2 DEF CleanupAll, MemoryTypes
<1>7. CASE ResetStatistics
  BY <1>7, MemoryAssumption DEF ResetStatistics, MemoryTypes
<1>8. CASE Cleanup
  <2>1. tracked' \subseteq Addresses /\ current' \in 0 .. Wrap - 1
    BY <1>8, UntrackedTypes DEF Cleanup
  <2> QED BY <1>8, <2>1 DEF Cleanup, MemoryTypes
<1>9. CASE Acquire
  <2>1. pool[Len(pool)] \in Addresses /\ SubSeq(pool, 1, Len(pool) - 1) \in Seq(Addresses)
    BY <1>9, PopBack DEF Acquire, MemoryTypes
  <2> QED BY <1>9, <2>1 DEF Acquire, MemoryTypes
<1> QED BY <1>1, <1>2, <1>3, <1>4, <1>5, <1>6, <1>7, <1>8, <1>9 DEF ProgramStep

\* Those steps leave the pointers and their calls.
LEMMA ProgramCalls ==
    ProgramStep => UNCHANGED <<ptrs, doing>> /\ history \subseteq history'
<1> SUFFICES ASSUME ProgramStep PROVE UNCHANGED <<ptrs, doing>> /\ history \subseteq history'
  OBVIOUS
<1>1. ASSUME NEW a \in Addresses, TrackValue(a) \/ UntrackValue(a)
      PROVE  UNCHANGED <<ptrs, doing>> /\ history \subseteq history'
  BY <1>1 DEF TrackValue, UntrackValue, Tracking
<1>2. ASSUME NEW a \in Addresses, Allocate(a) \/ AddValue(a) \/ GiveBack(a)
      PROVE  UNCHANGED <<ptrs, doing>> /\ history \subseteq history'
  BY <1>2 DEF Allocate, AddValue, GiveBack
<1>3. CASE CleanupAll \/ ResetStatistics \/ Cleanup \/ Acquire
  BY <1>3 DEF CleanupAll, ResetStatistics, Cleanup, Acquire
<1> QED BY <1>1, <1>2, <1>3 DEF ProgramStep

\* The fields of a pointer and of a call, one by one.
LEMMA FieldTypes ==
    ASSUME MemoryTypes, NEW p \in Pointers
    PROVE  /\ ptrs[p] \in Field /\ ptrs[p].at \in Addresses \cup {Null} /\ ptrs[p].managed \in BOOLEAN
           /\ doing[p].at \in Addresses \cup {Null}
           /\ doing[p].source \in Field /\ doing[p].source.at \in Addresses \cup {Null}
           /\ doing[p].from \in Pointers \cup {Null} /\ doing[p].moves \in BOOLEAN
           /\ doing[p].stage \in {"idle", "delete", "take"}
BY DEF MemoryTypes, Field, Call

\* Types under the steps of a pointer.
LEMMA DeleteTypes ==
    ASSUME MemoryTypes, NEW p \in Pointers, DeleteOld(p)
    PROVE  MemoryTypes'
<1>1. [doing[p] EXCEPT !.stage = "take", !.at = Null] \in Call
  BY DEF MemoryTypes, Call
<1>2. doing' \in [Pointers -> Call]
  BY <1>1 DEF DeleteOld, MemoryTypes
<1> QED BY <1>2 DEF DeleteOld, MemoryTypes

\* What Take leaves, in terms of the call it ends.
LEMMA TakeStep ==
    ASSUME MemoryTypes, CallInv, NEW p \in Pointers, Take(p)
    PROVE  /\ doing[p].stage = "take" /\ doing' = [doing EXCEPT ![p] = Idle]
           /\ ptrs' \in [Pointers -> Field]
           /\ ptrs'[p] = doing[p].source
           /\ \A q \in Pointers : q # p =>
                ptrs'[q] = IF doing[p].moves /\ q = doing[p].from THEN Empty ELSE ptrs[q]
           /\ \/ /\ doing[p].source.at \in Addresses /\ Tracking(doing[p].source.at)
                 /\ doing[p].source.managed /\ ~doing[p].moves
              \/ UNCHANGED <<tracked, current, history, fault>>
           /\ UNCHANGED <<alive, raw, scoped, pool>>
<1>1. doing[p].source \in Field /\ Empty \in Field
  BY FieldTypes DEF Empty, Field
<1>2. doing[p].moves => doing[p].from \in Pointers /\ doing[p].from # p
  BY DEF CallInv
<1> DEFINE given == [ptrs EXCEPT ![p] = doing[p].source]
<1>3. given \in [Pointers -> Field] /\ given[p] = doing[p].source
      /\ \A q \in Pointers : q # p => given[q] = ptrs[q]
  BY <1>1 DEF MemoryTypes
<1>4. /\ doing[p].stage = "take" /\ doing' = [doing EXCEPT ![p] = Idle]
      /\ ptrs' = IF doing[p].moves THEN [given EXCEPT ![doing[p].from] = Empty] ELSE given
      /\ UNCHANGED <<alive, raw, scoped, pool>>
  BY DEF Take, Emptied
<1>5. IF doing[p].source.at # Null /\ doing[p].source.managed /\ ~doing[p].moves
      THEN Tracking(doing[p].source.at) ELSE UNCHANGED <<tracked, current, history, fault>>
  BY Zenon DEF Take
<1> HIDE DEF given
<1>6. /\ ptrs' \in [Pointers -> Field] /\ ptrs'[p] = doing[p].source
      /\ \A q \in Pointers : q # p =>
           ptrs'[q] = IF doing[p].moves /\ q = doing[p].from THEN Empty ELSE ptrs[q]
  BY <1>1, <1>2, <1>3, <1>4
<1>7. \/ /\ doing[p].source.at \in Addresses /\ Tracking(doing[p].source.at)
         /\ doing[p].source.managed /\ ~doing[p].moves
      \/ UNCHANGED <<tracked, current, history, fault>>
  BY <1>5, FieldTypes
<1> QED BY <1>4, <1>6, <1>7

\* The new value of a pointer is an address or null.
LEMMA TakeTypes ==
    ASSUME MemoryTypes, CallInv, NEW p \in Pointers, Take(p)
    PROVE  MemoryTypes'
<1>1. Idle \in Call
  BY DEF Idle, Call, Empty, Field
<1>2. doing' \in [Pointers -> Call]
  BY <1>1, TakeStep DEF MemoryTypes
<1>3. tracked' \subseteq Addresses /\ current' \in 0 .. Wrap - 1 /\ fault' \in BOOLEAN
  BY TakeStep, TrackingTypes DEF MemoryTypes
<1> QED BY <1>2, <1>3, TakeStep DEF MemoryTypes

\* What scopes and pools release are addresses.
LEMMA ReleaseTypes ==
    ASSUME MemoryTypes, NEW p \in Pointers, Release(p)
    PROVE  MemoryTypes'
<1>1. ptrs[p].at \in Addresses
  BY FieldTypes DEF Release
<1>2. tracked' \subseteq Addresses /\ current' \in 0 .. Wrap - 1
  BY UntrackedTypes DEF Release
<1>3. Empty \in Field
  BY DEF Empty, Field
<1>4. ptrs' \in [Pointers -> Field]
  BY <1>3 DEF Release, MemoryTypes
<1> QED BY <1>1, <1>2, <1>4 DEF Release, MemoryTypes

----------------------------------------------------------------------------
(* Calls under way.                                                        *)

\* Where no pointer moves, the invariant of calls stays.
LEMMA CallsLeftAlone ==
    CallInv /\ UNCHANGED <<ptrs, doing>> /\ history \subseteq history' => CallInv'
BY DEF CallInv

\* What Begin leaves of p and of the others.
LEMMA BeginStep ==
    ASSUME MemoryTypes, NEW p \in Pointers, NEW source \in Field,
           NEW from \in Pointers \cup {Null}, NEW moves \in BOOLEAN,
           Begin(p, source, from, moves)
    PROVE  /\ doing'[p].stage = IF Owns(p) THEN "delete" ELSE "take"
           /\ doing'[p].at = IF Owns(p) THEN ptrs[p].at ELSE Null
           /\ doing'[p].source = source /\ doing'[p].from = from /\ doing'[p].moves = moves
           /\ doing'[p] # Idle
           /\ \A r \in Pointers : r # p => doing'[r] = doing[r]
           /\ UNCHANGED <<alive, scoped, pool, ptrs, fault>>
           /\ tracked' = tracked \ (IF Owns(p) THEN {ptrs[p].at} ELSE {})
<1> DEFINE call == [stage |-> IF Owns(p) THEN "delete" ELSE "take",
                    at |-> IF Owns(p) THEN ptrs[p].at ELSE Null,
                    source |-> source, from |-> from, moves |-> moves]
<1>1. doing' = [doing EXCEPT ![p] = call] /\ UNCHANGED <<alive, scoped, pool, ptrs, fault>>
      /\ tracked' = tracked \ (IF Owns(p) THEN {ptrs[p].at} ELSE {})
  BY DEF Begin, Untracked
<1>2. doing'[p] = call /\ \A r \in Pointers : r # p => doing'[r] = doing[r]
  BY <1>1 DEF MemoryTypes
<1>3. call.stage # "idle"
  OBVIOUS
<1>4. call # Idle
  BY <1>3 DEF Idle
<1> QED BY <1>1, <1>2, <1>4

\* The steps of a pointer, begun, halfway and ended, keep the invariant of calls.
LEMMA BeginCalls ==
    ASSUME MemoryTypes, CallInv, NEW p \in Pointers, NEW source \in Field,
           NEW from \in Pointers \cup {Null}, NEW moves \in BOOLEAN,
           Quiet(p), Begin(p, source, from, moves), Begins(p, source, from, moves)
    PROVE  CallInv'
<1>1. /\ doing'[p].stage = IF Owns(p) THEN "delete" ELSE "take"
      /\ doing'[p].at = IF Owns(p) THEN ptrs[p].at ELSE Null
      /\ doing'[p].source = source /\ doing'[p].from = from /\ doing'[p].moves = moves
      /\ \A r \in Pointers : r # p => doing'[r] = doing[r]
      /\ UNCHANGED ptrs
  BY BeginStep
<1>2. Null \notin Pointers
  BY MemoryAssumption
<1>3. doing[p] = Idle /\ \A r \in Pointers : doing[r].from # p
  BY DEF Quiet
<1>4. from \in Pointers => /\ from # p /\ source = ptrs[from] /\ doing[from] = Idle
                           /\ \A r \in Pointers : doing[r].from # from
  BY <1>2 DEF Begins, Quiet
<1>5. history \subseteq history' /\ (moves => from \in Pointers)
      /\ ("copied" \notin history' /\ from \in Pointers => moves)
  BY <1>2 DEF Begins
<1>6. ASSUME NEW r \in Pointers
      PROVE  /\ doing'[r].stage = "idle" => doing'[r] = Idle
             /\ doing'[r].stage = "delete" <=> doing'[r].at # Null
             /\ doing'[r].moves => doing'[r].from \in Pointers
             /\ "copied" \notin history' /\ doing'[r].from \in Pointers => doing'[r].moves
  <2>1. CASE r = p
    BY <1>1, <1>5, <2>1 DEF Owns
  <2>2. CASE r # p
    BY <1>1, <1>5, <2>2 DEF CallInv
  <2> QED BY <2>1, <2>2
<1>7. ASSUME NEW r \in Pointers, NEW q \in Pointers, doing'[r].from = q
      PROVE  /\ doing'[r].stage # "idle" /\ q # r
             /\ doing'[q] = Idle
             /\ ptrs'[q] = doing'[r].source
             /\ \A s \in Pointers : doing'[s].from = q => s = r
  <2>1. CASE r = p
    BY <1>1, <1>4, <1>7, <2>1
  <2>2. CASE r # p
    <3>1. doing[r].from = q /\ doing'[r] = doing[r]
      BY <1>1, <1>7, <2>2
    <3>2. /\ doing[r].stage # "idle" /\ q # r /\ doing[q] = Idle /\ ptrs[q] = doing[r].source
          /\ \A s \in Pointers : doing[s].from = q => s = r
      BY <3>1 DEF CallInv
    <3>3. q # p
      BY <1>3, <3>1
    <3>4. from # q
      BY <1>4, <3>1
    <3> QED BY <1>1, <3>1, <3>2, <3>3, <3>4
  <2> QED BY <2>1, <2>2
<1> QED BY <1>6, <1>7 DEF CallInv

\* What DeleteOld leaves of p and of the others.
LEMMA DeleteStep ==
    ASSUME MemoryTypes, NEW p \in Pointers, DeleteOld(p)
    PROVE  /\ doing[p].stage = "delete"
           /\ doing'[p].stage = "take" /\ doing'[p].at = Null
           /\ doing'[p].source = doing[p].source
           /\ doing'[p].from = doing[p].from /\ doing'[p].moves = doing[p].moves
           /\ \A r \in Pointers : r # p => doing'[r] = doing[r]
           /\ alive' = alive \ {doing[p].at} /\ (fault' <=> doing[p].at \notin alive)
           /\ UNCHANGED <<raw, scoped, pool, ptrs, tracked, current, history>>
<1>1. doing[p] \in Call
  BY DEF MemoryTypes
<1>2. /\ doing[p].stage = "delete" /\ alive' = alive \ {doing[p].at}
      /\ doing' = [doing EXCEPT ![p].stage = "take", ![p].at = Null]
      /\ UNCHANGED <<raw, scoped, pool, ptrs, tracked, current, history>>
  BY DEF DeleteOld
<1>3. doing'[p] = [doing[p] EXCEPT !.stage = "take", !.at = Null]
      /\ \A r \in Pointers : r # p => doing'[r] = doing[r]
  BY <1>2 DEF MemoryTypes
<1>4. fault' <=> doing[p].at \notin alive
  BY Zenon DEF DeleteOld
<1>5. ASSUME NEW c \in Call, NEW d, d = [c EXCEPT !.stage = "take", !.at = Null]
      PROVE  /\ d.stage = "take" /\ d.at = Null
             /\ d.source = c.source /\ d.from = c.from /\ d.moves = c.moves
  BY <1>5 DEF Call
<1>6. /\ doing'[p].stage = "take" /\ doing'[p].at = Null /\ doing'[p].source = doing[p].source
      /\ doing'[p].from = doing[p].from /\ doing'[p].moves = doing[p].moves
  BY <1>1, <1>3, <1>5
<1> QED BY <1>2, <1>3, <1>4, <1>6

\* A delete under way is left alone by the other pointers.
LEMMA DeleteCalls ==
    ASSUME MemoryTypes, CallInv, NEW p \in Pointers, DeleteOld(p)
    PROVE  CallInv'
<1>1. /\ doing[p].stage = "delete"
      /\ doing'[p].stage = "take" /\ doing'[p].at = Null /\ doing'[p].source = doing[p].source
      /\ doing'[p].from = doing[p].from /\ doing'[p].moves = doing[p].moves
      /\ \A r \in Pointers : r # p => doing'[r] = doing[r]
      /\ UNCHANGED <<ptrs, history>>
  BY DeleteStep
<1>2. ASSUME NEW r \in Pointers
      PROVE  /\ doing'[r].stage = "idle" => doing'[r] = Idle
             /\ doing'[r].stage = "delete" <=> doing'[r].at # Null
             /\ doing'[r].moves => doing'[r].from \in Pointers
             /\ "copied" \notin history' /\ doing'[r].from \in Pointers => doing'[r].moves
  <2>1. CASE r = p
    BY <1>1, <2>1 DEF CallInv
  <2>2. CASE r # p
    BY <1>1, <2>2 DEF CallInv
  <2> QED BY <2>1, <2>2
<1>3. ASSUME NEW r \in Pointers, NEW q \in Pointers, doing'[r].from = q
      PROVE  /\ doing'[r].stage # "idle" /\ q # r
             /\ doing'[q] = Idle
             /\ ptrs'[q] = doing'[r].source
             /\ \A s \in Pointers : doing'[s].from = q => s = r
  <2>1. \A s \in Pointers : doing'[s].from = doing[s].from /\ doing'[s].source = doing[s].source
    BY <1>1
  <2>2. /\ doing[r].stage # "idle" /\ q # r /\ doing[q] = Idle /\ ptrs[q] = doing[r].source
        /\ \A s \in Pointers : doing[s].from = q => s = r
    BY <1>3, <2>1 DEF CallInv
  <2>3. q # p
    BY <1>1, <2>2 DEF Idle
  <2>4. doing'[r].stage # "idle"
    BY <1>1, <2>2
  <2> QED BY <1>1, <2>1, <2>2, <2>3, <2>4
<1> QED BY <1>2, <1>3 DEF CallInv

\* A pointer that takes its value reads the fields it was promised.
LEMMA TakeCalls ==
    ASSUME MemoryTypes, CallInv, NEW p \in Pointers, Take(p)
    PROVE  CallInv'
<1>1. /\ doing[p].stage = "take"
      /\ \A q \in Pointers : q # p =>
           ptrs'[q] = IF doing[p].moves /\ q = doing[p].from THEN Empty ELSE ptrs[q]
      /\ doing' = [doing EXCEPT ![p] = Idle]
  BY TakeStep
<1>2. doing'[p] = Idle /\ \A r \in Pointers : r # p => doing'[r] = doing[r]
  BY <1>1 DEF MemoryTypes
<1>3. Null \notin Pointers /\ Idle.from = Null /\ Idle.stage = "idle" /\ Idle.at = Null
      /\ Idle.moves = FALSE
  BY MemoryAssumption DEF Idle
<1>4. history \subseteq history'
  BY TakeStep DEF Tracking
<1>5. ASSUME NEW r \in Pointers
      PROVE  /\ doing'[r].stage = "idle" => doing'[r] = Idle
             /\ doing'[r].stage = "delete" <=> doing'[r].at # Null
             /\ doing'[r].moves => doing'[r].from \in Pointers
             /\ "copied" \notin history' /\ doing'[r].from \in Pointers => doing'[r].moves
  <2>1. CASE r = p
    BY <1>2, <1>3, <2>1
  <2>2. CASE r # p
    BY <1>2, <1>4, <2>2 DEF CallInv
  <2> QED BY <2>1, <2>2
<1>6. ASSUME NEW r \in Pointers, NEW q \in Pointers, doing'[r].from = q
      PROVE  /\ doing'[r].stage # "idle" /\ q # r
             /\ doing'[q] = Idle
             /\ ptrs'[q] = doing'[r].source
             /\ \A s \in Pointers : doing'[s].from = q => s = r
  <2>1. r # p
    BY <1>2, <1>3, <1>6
  <2>2. doing[r].from = q /\ doing'[r] = doing[r]
    BY <1>2, <1>6, <2>1
  <2>3. /\ doing[r].stage # "idle" /\ q # r /\ doing[q] = Idle /\ ptrs[q] = doing[r].source
        /\ \A s \in Pointers : doing[s].from = q => s = r
    BY <2>2 DEF CallInv
  <2>4. q # p
    BY <1>1, <1>3, <2>3
  <2>5. doing[p].from # q
    BY <2>1, <2>3
  <2>6. ptrs'[q] = ptrs[q]
    BY <1>1, <2>4, <2>5
  <2>7. ASSUME NEW s \in Pointers, doing'[s].from = q PROVE s = r
    <3>1. s # p
      BY <1>2, <1>3, <2>7
    <3> QED BY <1>2, <2>3, <2>7, <3>1
  <2> QED BY <1>2, <2>2, <2>3, <2>4, <2>6, <2>7
<1> QED BY <1>5, <1>6 DEF CallInv

\* Scopes and pools leave the calls of pointers alone.
LEMMA ReleaseCalls ==
    ASSUME MemoryTypes, CallInv, NEW p \in Pointers, Release(p)
    PROVE  CallInv'
<1>1. UNCHANGED <<doing, history>> /\ \A r \in Pointers : doing[r].from # p
  BY DEF Release, Quiet
<1>2. \A q \in Pointers : q # p => ptrs'[q] = ptrs[q]
  BY DEF Release, MemoryTypes
<1> QED BY <1>1, <1>2 DEF CallInv

----------------------------------------------------------------------------
(* One owner.                                                              *)

\* A quiet pointer holds what it points at.
LEMMA QuietHeld ==
    ASSUME NEW p \in Pointers, Quiet(p)
    PROVE  Held(p) = {ptrs[p].at} \ {Null}
BY DEF Held, Quiet, Idle, Empty

\* A pointer that another call reads from, or that has a call of its own, does
\* not hold what it points at.
LEMMA BusyHeld ==
    ASSUME NEW p \in Pointers, ~Quiet(p)
    PROVE  Held(p) = {doing[p].at, doing[p].source.at} \ {Null}
BY DEF Held

\* What a new call takes over leaves the pointer it comes from.
LEMMA BeginHeld ==
    ASSUME MemoryTypes, CallInv, NEW p \in Pointers, NEW source \in Field,
           NEW from \in Pointers \cup {Null}, NEW moves \in BOOLEAN,
           Quiet(p), Begin(p, source, from, moves), Begins(p, source, from, moves)
    PROVE  /\ Held(p) = {ptrs[p].at} \ {Null}
           /\ Held(p)' = {IF Owns(p) THEN ptrs[p].at ELSE Null, source.at} \ {Null}
           /\ \A r \in Pointers : r # p => Held(r)' = IF r = from THEN {} ELSE Held(r)
           /\ from \in Pointers => from # p /\ Held(from) = {source.at} \ {Null}
<1>1. /\ doing'[p].at = IF Owns(p) THEN ptrs[p].at ELSE Null
      /\ doing'[p].source = source /\ doing'[p].from = from /\ doing'[p] # Idle
      /\ \A r \in Pointers : r # p => doing'[r] = doing[r]
      /\ UNCHANGED ptrs
  BY BeginStep
<1>2. Null \notin Pointers /\ Idle.from = Null /\ Idle.at = Null /\ Idle.source.at = Null
  BY MemoryAssumption DEF Idle, Empty
<1>3. doing[p] = Idle /\ \A r \in Pointers : doing[r].from # p
  BY DEF Quiet
<1>4. from \in Pointers => from # p /\ source = ptrs[from] /\ Quiet(from)
  BY <1>2 DEF Begins
<1>5. ~Quiet(p)'
  BY <1>1 DEF Quiet
<1>6. Held(p)' = {IF Owns(p) THEN ptrs[p].at ELSE Null, source.at} \ {Null}
  BY <1>1, <1>5 DEF Held
<1>7. ASSUME NEW r \in Pointers, r # p
      PROVE  Held(r)' = IF r = from THEN {} ELSE Held(r)
  <2>1. doing'[r] = doing[r] /\ ptrs'[r] = ptrs[r]
    BY <1>1, <1>7
  <2>2. CASE r = from
    <3>1. ~Quiet(r)'
      BY <1>1, <2>2 DEF Quiet
    <3>2. doing[r] = Idle
      BY <1>4, <2>2 DEF Quiet
    <3>3. Held(r)' = {}
      BY <1>2, <2>1, <3>1, <3>2 DEF Held
    <3> QED BY <2>2, <3>3
  <2>3. CASE r # from
    <3>1. \A s \in Pointers : doing'[s].from = r <=> doing[s].from = r
      <4>1. doing'[p].from # r /\ doing[p].from # r
        BY <1>1, <1>2, <1>3, <2>3
      <4> QED BY <1>1, <4>1
    <3>2. Quiet(r)' <=> Quiet(r)
      BY <2>1, <3>1 DEF Quiet
    <3>3. Held(r)' = Held(r)
      BY <2>1, <3>2 DEF Held
    <3> QED BY <2>3, <3>3
  <2> QED BY <2>2, <2>3
<1>8. from \in Pointers => from # p /\ Held(from) = {source.at} \ {Null}
  BY <1>4, QuietHeld
<1>9. Held(p) = {ptrs[p].at} \ {Null}
  BY QuietHeld
<1> QED BY <1>6, <1>7, <1>8, <1>9

\* A value that a pointer lets go of is its call's to delete, and nobody else's.
LEMMA BeginOwned ==
    ASSUME MemoryTypes, CallInv, Owned, NEW p \in Pointers, NEW source \in Field,
           NEW from \in Pointers \cup {Null}, NEW moves \in BOOLEAN,
           Quiet(p), Begin(p, source, from, moves), Begins(p, source, from, moves)
    PROVE  Owned'
<1> DEFINE old == IF Owns(p) THEN ptrs[p].at ELSE Null
           new == {source.at} \ {Null}
<1>1. /\ Held(p) = {ptrs[p].at} \ {Null}
      /\ Held(p)' = {old, source.at} \ {Null}
      /\ \A r \in Pointers : r # p => Held(r)' = IF r = from THEN {} ELSE Held(r)
      /\ from \in Pointers => from # p /\ Held(from) = new
  BY BeginHeld
<1>2. /\ doing'[p].at = old /\ doing'[p].source = source
      /\ \A r \in Pointers : r # p => doing'[r] = doing[r]
      /\ UNCHANGED <<alive, scoped, pool, ptrs, fault>>
      /\ tracked' = tracked \ (IF Owns(p) THEN {ptrs[p].at} ELSE {})
  BY BeginStep
<1>3. Null \notin Pointers /\ Null \notin Addresses
  BY MemoryAssumption
<1>4. \/ new \subseteq raw /\ new \cap raw' = {} /\ raw' \subseteq raw
      \/ new = {} /\ raw' = raw
      \/ from \in Pointers /\ raw' = raw
  BY DEF Begins, Empty
<1>5. Pooled' = Pooled
  BY <1>2 DEF Pooled
<1>6. old \in {ptrs[p].at, Null} /\ Held(p)' \subseteq Held(p) \cup new
  BY <1>1
<1>7. raw' \subseteq raw
  BY <1>4
<1> HIDE DEF old, new
<1>8. \A r \in Pointers : r # p => Held(r)' \subseteq Held(r)
  BY <1>1
<1>9. new \cap (raw' \cup scoped \cup Pooled) = {} /\ new \subseteq alive
      /\ \A r \in Pointers : r # p => new \cap Held(r)' = {}
  <2>1. CASE new \subseteq raw /\ new \cap raw' = {}
    BY <1>8, <2>1 DEF Owned, Apart, HeldAlive
  <2>2. CASE new = {}
    BY <2>2
  <2>3. CASE from \in Pointers /\ raw' = raw
    BY <1>1, <2>3 DEF Owned, Apart, HeldAlive
  <2> QED BY <1>4, <2>1, <2>2, <2>3
<1>10. Held(p)' \cap (raw' \cup scoped \cup Pooled) = {} /\ Held(p)' \subseteq alive
       /\ \A r \in Pointers : r # p => Held(p)' \cap Held(r)' = {}
  BY <1>6, <1>7, <1>8, <1>9 DEF Owned, Apart, HeldAlive
<1>11. doing'[p].at # Null => doing'[p].at # doing'[p].source.at /\ doing'[p].at \notin tracked'
  <2>1. ASSUME old # Null PROVE old \notin new
    <3>1. old \in Held(p)
      BY <1>1, <1>6, <2>1
    <3>2. new \cap Held(p) = {}
      <4>1. CASE new \subseteq raw
        BY <4>1 DEF Owned, Apart
      <4>2. CASE new = {}
        BY <4>2
      <4>3. CASE from \in Pointers
        BY <1>1, <4>3 DEF Owned, Apart
      <4> QED BY <1>4, <4>1, <4>2, <4>3
    <3> QED BY <3>1, <3>2
  <2>2. old # Null => old # source.at
    BY <2>1 DEF new
  <2>3. old # Null => old \notin tracked'
    BY <1>2 DEF old
  <2> QED BY <1>2, <2>2, <2>3
<1>12. Apart'
  <2>1. raw' \cap scoped' = {} /\ raw' \cap Pooled' = {} /\ scoped' \cap Pooled' = {}
        /\ IsInjective(pool')
    BY <1>2, <1>5, <1>7 DEF Owned, Apart
  <2>2. ASSUME NEW r \in Pointers PROVE Held(r)' \cap (raw' \cup scoped' \cup Pooled') = {}
    BY <1>2, <1>5, <1>7, <1>8, <1>10 DEF Owned, Apart
  <2>3. ASSUME NEW r \in Pointers, NEW q \in Pointers, r # q PROVE Held(r)' \cap Held(q)' = {}
    BY <1>8, <1>10, <2>3 DEF Owned, Apart
  <2>4. ASSUME NEW r \in Pointers, doing'[r].at # Null PROVE doing'[r].at # doing'[r].source.at
    BY <1>2, <1>11, <2>4 DEF Owned, Apart
  <2> QED BY <2>1, <2>2, <2>3, <2>4 DEF Apart
<1>13. HeldAlive'
  <2>1. tracked' \subseteq alive' /\ raw' \cup scoped' \cup Pooled' \subseteq alive'
    BY <1>2, <1>5, <1>7 DEF Owned, HeldAlive
  <2>2. ASSUME NEW r \in Pointers PROVE Held(r)' \subseteq alive'
    BY <1>2, <1>8, <1>10 DEF Owned, HeldAlive
  <2>3. ASSUME NEW r \in Pointers PROVE doing'[r].at \notin tracked'
    <3>1. Null \notin tracked'
      BY <1>2, <1>3 DEF MemoryTypes
    <3> QED BY <1>2, <1>11, <3>1 DEF Owned, HeldAlive
  <2> QED BY <2>1, <2>2, <2>3 DEF HeldAlive
<1> QED BY <1>2, <1>12, <1>13 DEF Owned

\* The value deleted was held for nothing else.
LEMMA DeleteOwned ==
    ASSUME MemoryTypes, CallInv, Owned, NEW p \in Pointers, DeleteOld(p)
    PROVE  Owned'
<1>1. /\ doing[p].stage = "delete"
      /\ doing'[p].stage = "take" /\ doing'[p].at = Null /\ doing'[p].source = doing[p].source
      /\ doing'[p].from = doing[p].from
      /\ \A r \in Pointers : r # p => doing'[r] = doing[r]
      /\ alive' = alive \ {doing[p].at} /\ (fault' <=> doing[p].at \notin alive)
      /\ UNCHANGED <<raw, scoped, pool, ptrs, tracked>>
  BY DeleteStep
<1>2. Pooled' = Pooled
  BY <1>1 DEF Pooled
<1>3. doing[p].at # Null /\ ~Quiet(p) /\ ~Quiet(p)'
  BY <1>1 DEF CallInv, Quiet, Idle
<1>4. Held(p) = {doing[p].at, doing[p].source.at} \ {Null}
      /\ Held(p)' = {doing[p].source.at} \ {Null}
  BY <1>1, <1>3 DEF Held
<1>5. ASSUME NEW r \in Pointers, r # p PROVE Held(r)' = Held(r)
  <2>1. \A s \in Pointers : doing'[s].from = doing[s].from
    BY <1>1
  <2>2. doing'[r] = doing[r] /\ ptrs'[r] = ptrs[r]
    BY <1>1, <1>5
  <2>3. Quiet(r)' <=> Quiet(r)
    BY <2>1, <2>2 DEF Quiet
  <2> QED BY <2>2, <2>3 DEF Held
<1>6. doing[p].at \in Held(p) /\ doing[p].at \notin Held(p)' /\ Held(p)' \subseteq Held(p)
  BY <1>3, <1>4 DEF Owned, Apart
<1>7. \A r \in Pointers : Held(r)' \subseteq Held(r) /\ doing[p].at \notin Held(r)'
  BY <1>5, <1>6 DEF Owned, Apart
<1>8. ~fault'
  BY <1>1, <1>6 DEF Owned, HeldAlive
<1>9. Apart'
  <2>1. \A r \in Pointers : Held(r)' \cap (raw' \cup scoped' \cup Pooled') = {}
    BY <1>1, <1>2, <1>7 DEF Owned, Apart
  <2>2. \A r, q \in Pointers : r # q => Held(r)' \cap Held(q)' = {}
    BY <1>7 DEF Owned, Apart
  <2>3. \A r \in Pointers : doing'[r].at # Null => doing'[r].at # doing'[r].source.at
    BY <1>1 DEF Owned, Apart
  <2> QED BY <1>1, <1>2, <2>1, <2>2, <2>3 DEF Owned, Apart
<1>10. HeldAlive'
  <2>1. doing[p].at \notin tracked /\ doing[p].at \notin raw \cup scoped \cup Pooled
    BY <1>6 DEF Owned, Apart, HeldAlive
  <2>2. Null \notin tracked
    BY MemoryAssumption DEF MemoryTypes
  <2>3. \A r \in Pointers : doing'[r].at \notin tracked
    BY <1>1, <2>2 DEF Owned, HeldAlive
  <2>4. \A r \in Pointers : Held(r)' \subseteq alive'
    BY <1>1, <1>7 DEF Owned, HeldAlive
  <2> QED BY <1>1, <1>2, <2>1, <2>3, <2>4 DEF Owned, HeldAlive
<1> QED BY <1>8, <1>9, <1>10 DEF Owned

\* A pointer that is moved from is emptied as it gives up its value.
LEMMA TakeOwned ==
    ASSUME MemoryTypes, CallInv, Owned, NEW p \in Pointers, Take(p), "copied" \notin history
    PROVE  Owned'
<1>1. /\ doing[p].stage = "take" /\ doing' = [doing EXCEPT ![p] = Idle]
      /\ ptrs'[p] = doing[p].source
      /\ \A q \in Pointers : q # p =>
           ptrs'[q] = IF doing[p].moves /\ q = doing[p].from THEN Empty ELSE ptrs[q]
      /\ \/ doing[p].source.at \in Addresses /\ Tracking(doing[p].source.at)
         \/ UNCHANGED <<tracked, current, history, fault>>
      /\ UNCHANGED <<alive, raw, scoped, pool>>
  BY TakeStep
<1>2. doing'[p] = Idle /\ \A r \in Pointers : r # p => doing'[r] = doing[r]
  BY <1>1 DEF MemoryTypes
<1>3. /\ Null \notin Pointers /\ Null \notin Addresses /\ Null \notin tracked
      /\ Idle.from = Null /\ Idle.stage = "idle" /\ Idle.at = Null /\ Idle.source.at = Null
      /\ Empty.at = Null
  BY MemoryAssumption DEF Idle, Empty, MemoryTypes
<1>4. doing[p].at = Null /\ ~Quiet(p)
  BY <1>1, <1>3 DEF CallInv, Quiet
<1>5. Held(p) = {doing[p].source.at} \ {Null}
  BY <1>4 DEF Held
<1>6. Held(p)' \subseteq Held(p)
  BY <1>1, <1>2, <1>3, <1>5 DEF Held
<1>7. ASSUME NEW r \in Pointers, r # p PROVE Held(r)' \subseteq Held(r)
  <2>1. doing'[r] = doing[r]
    BY <1>2, <1>7
  <2>2. CASE r = doing[p].from
    <3>1. doing[p].moves /\ doing[r] = Idle
      BY <2>2 DEF CallInv
    <3>2. ptrs'[r] = Empty
      BY <1>1, <1>7, <2>2, <3>1
    <3> QED BY <1>3, <2>1, <3>1, <3>2 DEF Held
  <2>3. CASE r # doing[p].from
    <3>1. ptrs'[r] = ptrs[r]
      BY <1>1, <1>7, <2>3
    <3>2. \A s \in Pointers : doing'[s].from = r <=> doing[s].from = r
      <4>1. doing'[p].from # r
        BY <1>2, <1>3
      <4> QED BY <1>2, <2>3, <4>1
    <3>3. Quiet(r)' <=> Quiet(r)
      BY <2>1, <3>2 DEF Quiet
    <3> QED BY <2>1, <3>1, <3>3 DEF Held
  <2> QED BY <2>2, <2>3
<1>8. \A r \in Pointers : Held(r)' \subseteq Held(r)
  BY <1>6, <1>7
<1>9. Pooled' = Pooled
  BY <1>1 DEF Pooled
<1>10. /\ ~fault' /\ tracked' \subseteq tracked \cup Held(p)
  <2>1. CASE doing[p].source.at \in Addresses /\ Tracking(doing[p].source.at)
    <3>1. doing[p].source.at \in Held(p)
      BY <1>3, <1>5, <2>1
    <3>2. fault' <=> doing[p].source.at \notin alive
      BY <2>1, Zenon DEF Tracking
    <3>3. tracked' = tracked \cup {doing[p].source.at}
      BY <2>1, Zenon DEF Tracking
    <3> QED BY <3>1, <3>2, <3>3 DEF Owned, HeldAlive
  <2>2. CASE UNCHANGED <<tracked, current, history, fault>>
    BY <2>2 DEF Owned
  <2> QED BY <1>1, <2>1, <2>2
<1>11. Apart'
  <2>1. \A r \in Pointers : Held(r)' \cap (raw' \cup scoped' \cup Pooled') = {}
    BY <1>1, <1>8, <1>9 DEF Owned, Apart
  <2>2. \A r, q \in Pointers : r # q => Held(r)' \cap Held(q)' = {}
    BY <1>8 DEF Owned, Apart
  <2>3. \A r \in Pointers : doing'[r].at # Null => doing'[r].at # doing'[r].source.at
    BY <1>2, <1>3 DEF Owned, Apart
  <2> QED BY <1>1, <1>9, <2>1, <2>2, <2>3 DEF Owned, Apart
<1>12. HeldAlive'
  <2>1. tracked' \subseteq alive'
    BY <1>1, <1>10 DEF Owned, HeldAlive
  <2>2. ASSUME NEW r \in Pointers PROVE doing'[r].at \notin tracked'
    <3>1. CASE r = p
      <4>1. Null \notin Held(p)
        BY <1>5
      <4> QED BY <1>2, <1>3, <1>10, <3>1, <4>1
    <3>2. CASE r # p
      <4>1. doing'[r].at = doing[r].at
        BY <1>2, <3>2
      <4>2. CASE doing[r].at = Null
        BY <1>3, <1>5, <1>10, <4>1, <4>2
      <4>3. CASE doing[r].at # Null
        <5>1. doing[r].at \in Held(r)
          BY <4>3 DEF Held
        <5>2. doing[r].at \notin Held(p)
          BY <3>2, <5>1 DEF Owned, Apart
        <5> QED BY <1>10, <4>1, <5>2 DEF Owned, HeldAlive
      <4> QED BY <4>2, <4>3
    <3> QED BY <3>1, <3>2
  <2>3. \A r \in Pointers : Held(r)' \subseteq alive'
    BY <1>1, <1>8 DEF Owned, HeldAlive
  <2> QED BY <1>1, <1>9, <2>1, <2>2, <2>3 DEF Owned, HeldAlive
<1> QED BY <1>10, <1>11, <1>12 DEF Owned

\* A value that is released passes to the program, as the only owner.
LEMMA ReleaseOwned ==
    ASSUME MemoryTypes, Owned, NEW p \in Pointers, Release(p)
    PROVE  Owned'
<1>1. /\ Quiet(p) /\ ptrs[p].at # Null
      /\ raw' = raw \cup {ptrs[p].at}
      /\ tracked' \subseteq tracked
      /\ UNCHANGED <<alive, scoped, pool, doing, fault>>
  BY DEF Release, Untracked
<1>2. ptrs'[p] = Empty /\ \A r \in Pointers : r # p => ptrs'[r] = ptrs[r]
  BY DEF Release, MemoryTypes
<1>3. Held(p) = {ptrs[p].at}
  BY <1>1, QuietHeld
<1>4. \A r \in Pointers : Quiet(r)' <=> Quiet(r)
  BY <1>1 DEF Quiet
<1>5. \A r \in Pointers : r # p => Held(r)' = Held(r)
  BY <1>1, <1>2, <1>4 DEF Held
<1>6. Held(p)' = {}
  BY <1>1, <1>2 DEF Held, Quiet, Idle, Empty
<1>7. Pooled' = Pooled
  BY <1>1 DEF Pooled
<1>8. ptrs[p].at \notin raw \cup scoped \cup Pooled /\ ptrs[p].at \in alive
      /\ \A r \in Pointers : r # p => ptrs[p].at \notin Held(r)
  BY <1>3 DEF Owned, Apart, HeldAlive
<1>9. Apart'
  <2>1. \A r \in Pointers : Held(r)' \cap (raw' \cup scoped' \cup Pooled') = {}
    BY <1>1, <1>5, <1>6, <1>7, <1>8 DEF Owned, Apart
  <2>2. \A r, q \in Pointers : r # q => Held(r)' \cap Held(q)' = {}
    BY <1>5, <1>6 DEF Owned, Apart
  <2>3. raw' \cap scoped' = {} /\ raw' \cap Pooled' = {}
    BY <1>1, <1>7, <1>8 DEF Owned, Apart
  <2> QED BY <1>1, <1>7, <2>1, <2>2, <2>3 DEF Owned, Apart
<1>10. HeldAlive'
  <2>1. \A r \in Pointers : Held(r)' \subseteq alive'
    BY <1>1, <1>5, <1>6 DEF Owned, HeldAlive
  <2> QED BY <1>1, <1>7, <1>8, <2>1 DEF Owned, HeldAlive
<1> QED BY <1>1, <1>9, <1>10 DEF Owned

\* No pointer moves, and what the program gives away it held alone.
LEMMA ProgramOwned ==
    ASSUME MemoryTypes, Owned, ProgramStep, history' \cap Promises = {}
    PROVE  Owned'
<1> USE DEF Owned, Apart, HeldAlive
<1>1. UNCHANGED <<ptrs, doing>>
  BY ProgramCalls
<1>2. \A r \in Pointers : Held(r)' = Held(r)
  <2>1. \A r \in Pointers : Quiet(r)' <=> Quiet(r)
    BY <1>1 DEF Quiet
  <2> QED BY <1>1, <2>1 DEF Held
<1>3. ASSUME UNCHANGED pool PROVE Pooled' = Pooled /\ (IsInjective(pool') <=> IsInjective(pool))
  BY <1>3 DEF Pooled
<1>4. ASSUME NEW a \in Addresses, TrackValue(a) PROVE Owned'
  <2>1. /\ a \in raw /\ tracked' = tracked \cup {a} /\ UNCHANGED <<alive, raw, scoped, pool>>
    BY <1>4, Zenon DEF TrackValue, Tracking
  <2>2. fault' <=> a \notin alive
    BY <1>4, Zenon DEF TrackValue, Tracking
  <2>3. \A r \in Pointers : doing[r].at # a
    <3>1. ASSUME NEW r \in Pointers, doing[r].at = a PROVE FALSE
      <4>1. a \in Held(r)
        BY <3>1, MemoryAssumption DEF Held
      <4> QED BY <2>1, <4>1
    <3> QED BY <3>1
  <2> QED BY <1>1, <1>2, <1>3, <2>1, <2>2, <2>3
<1>5. ASSUME NEW a \in Addresses, UntrackValue(a) PROVE Owned'
  <2>1. tracked' \subseteq tracked /\ UNCHANGED <<alive, raw, scoped, pool, fault>>
    BY <1>5 DEF UntrackValue, Untracked
  <2> QED BY <1>1, <1>2, <1>3, <2>1
<1>6. ASSUME NEW a \in Addresses, Allocate(a) PROVE Owned'
  <2>1. /\ a \notin alive /\ alive' = alive \cup {a} /\ raw' = raw \cup {a}
        /\ UNCHANGED <<scoped, pool, tracked, fault>>
    BY <1>6 DEF Allocate
  <2> QED BY <1>1, <1>2, <1>3, <2>1
<1>7. ASSUME NEW a \in Addresses, AddValue(a) PROVE Owned'
  <2>1. /\ a \in raw /\ raw' = raw \ {a} /\ scoped' = scoped \cup {a}
        /\ UNCHANGED <<alive, pool, tracked, fault>>
    BY <1>7 DEF AddValue
  <2> QED BY <1>1, <1>2, <1>3, <2>1
<1>8. ASSUME NEW a \in Addresses, GiveBack(a) PROVE Owned'
  <2>1. /\ a \in raw /\ raw' = raw \ {a} /\ UNCHANGED <<scoped, tracked>>
        /\ history' = IF a \in tracked THEN history \cup {"pooled"} ELSE history
    BY <1>8, Zenon DEF GiveBack
  <2>2. a \notin tracked
    BY <2>1 DEF Promises
  <2>3. CASE pool' = Append(pool, a) /\ UNCHANGED <<alive, fault>>
    <3>1. a \notin Pooled
      BY <2>1
    <3>2. Pooled' = Pooled \cup {a} /\ IsInjective(pool')
      BY <2>3, <3>1, PushBack DEF Pooled, MemoryTypes
    <3> QED BY <1>1, <1>2, <2>1, <2>3, <3>2
  <2>4. ASSUME UNCHANGED pool, alive' = alive \ {a}, fault' <=> a \notin alive PROVE Owned'
    BY <1>1, <1>2, <1>3, <2>1, <2>2, <2>4
  <2>5. \/ pool' = Append(pool, a) /\ UNCHANGED <<alive, fault>>
        \/ UNCHANGED pool /\ alive' = alive \ {a} /\ (fault' <=> a \notin alive)
    BY <1>8, Zenon DEF GiveBack
  <2> QED BY <2>3, <2>4, <2>5
<1>9. CASE CleanupAll
  <2>1. /\ alive' = alive \ tracked /\ tracked' = {}
        /\ UNCHANGED <<raw, scoped, pool>>
    BY <1>9 DEF CleanupAll
  <2>2. fault' <=> ~(tracked \subseteq alive)
    BY <1>9, Zenon DEF CleanupAll
  <2>3. tracked \cap PointedAt = {}
    BY <1>9 DEF CleanupAll, Promises
  <2>4. ASSUME NEW r \in Pointers PROVE Held(r) \subseteq PointedAt
    BY DEF Held, PointedAt
  <2>5. raw \cup scoped \cup Pooled \subseteq PointedAt
    BY DEF PointedAt
  <2> QED BY <1>1, <1>2, <1>3, <2>1, <2>2, <2>3, <2>4, <2>5
<1>10. CASE ResetStatistics
  <2>1. UNCHANGED <<alive, raw, scoped, pool, tracked, fault>>
    BY <1>10 DEF ResetStatistics
  <2> QED BY <1>1, <1>2, <1>3, <2>1
<1>11. CASE Cleanup
  <2>1. /\ alive' = alive \ scoped /\ scoped' = {} /\ tracked' = tracked \ scoped
        /\ UNCHANGED <<raw, pool>>
    BY <1>11 DEF Cleanup, Untracked
  <2>2. fault' <=> ~(scoped \subseteq alive)
    BY <1>11, Zenon DEF Cleanup
  <2> QED BY <1>1, <1>2, <1>3, <2>1, <2>2
<1>12. CASE Acquire
  <2>1. /\ pool # <<>> /\ raw' = raw \cup {pool[Len(pool)]}
        /\ pool' = SubSeq(pool, 1, Len(pool) - 1)
        /\ UNCHANGED <<alive, scoped, tracked, fault>>
    BY <1>12 DEF Acquire
  <2>2. /\ Pooled = Pooled' \cup {pool[Len(pool)]} /\ IsInjective(pool')
        /\ pool[Len(pool)] \notin Pooled'
    BY <2>1, PopBack DEF Pooled, MemoryTypes
  <2> QED BY <1>1, <1>2, <2>1, <2>2
<1> QED BY <1>4, <1>5, <1>6, <1>7, <1>8, <1>9, <1>10, <1>11, <1>12 DEF ProgramStep

----------------------------------------------------------------------------
(* The counter.                                                            *)

Uncounted == {"tracked twice", "cleaned up", "reset"}

\* What a size_t can hold, it holds.
LEMMA Fits == ASSUME NEW n \in 0 .. Wrap - 1 PROVE n % Wrap = n
BY MemoryAssumption

\* A set of addresses is counted without wrapping.
LEMMA TrackedCount ==
    ASSUME MemoryTypes, NEW T, T \subseteq Addresses
    PROVE  IsFiniteSet(T) /\ Cardinality(T) \in 0 .. Wrap - 1
<1>1. IsFiniteSet(T) /\ Cardinality(T) <= Cardinality(Addresses)
  BY FS_Subset, MemoryAssumption
<1>2. Cardinality(T) \in Nat /\ Cardinality(Addresses) \in Nat
  BY <1>1, FS_CardinalityType, MemoryAssumption
<1> QED BY <1>1, <1>2, MemoryAssumption

\* Untracking takes as many from the counter as from the set.
LEMMA UntrackedCount ==
    ASSUME MemoryTypes, current = Cardinality(tracked), NEW as, Untracked(as)
    PROVE  current' = Cardinality(tracked')
<1>1. tracked' = tracked \ as
      /\ current' = (Cardinality(tracked) - Cardinality(as \cap tracked)) % Wrap
  BY DEF Untracked
<1>2. tracked \subseteq Addresses /\ tracked \ as \subseteq Addresses
  BY DEF MemoryTypes
<1>3. IsFiniteSet(tracked) /\ Cardinality(tracked \ as) \in 0 .. Wrap - 1
  BY <1>2, TrackedCount
<1>4. tracked \cap as = as \cap tracked
  OBVIOUS
<1>5. Cardinality(tracked \ as) = Cardinality(tracked) - Cardinality(as \cap tracked)
  BY ZenonT(40), <1>3, <1>4, FS_Difference
<1> QED BY <1>1, <1>3, <1>5, Fits

\* Tracking a new value adds one to both.
LEMMA TrackingCount ==
    ASSUME MemoryTypes, current = Cardinality(tracked), NEW a \in Addresses, Tracking(a),
           "tracked twice" \notin history'
    PROVE  current' = Cardinality(tracked')
<1>1. /\ tracked' = tracked \cup {a} /\ current' = (Cardinality(tracked) + 1) % Wrap
      /\ a \notin tracked
  BY DEF Tracking
<1>2. tracked \subseteq Addresses /\ tracked \cup {a} \subseteq Addresses
  BY DEF MemoryTypes
<1>3. IsFiniteSet(tracked) /\ Cardinality(tracked \cup {a}) \in 0 .. Wrap - 1
  BY <1>2, TrackedCount
<1>4. Cardinality(tracked \cup {a}) = Cardinality(tracked) + 1
  BY <1>1, <1>3, FS_AddElement
<1> QED BY <1>1, <1>3, <1>4, Fits

\* No step but those the property names puts counter and set apart.
LEMMA CountersKept ==
    ASSUME MemoryTypes, CallInv, CountersMatch, [MemoryNext]_memoryVars
    PROVE  CountersMatch'
<1> SUFFICES ASSUME history' \cap Uncounted = {} PROVE current' = Cardinality(tracked')
  BY DEF CountersMatch, Uncounted
<1>1. ASSUME history \subseteq history' PROVE current = Cardinality(tracked)
  BY <1>1 DEF CountersMatch, Uncounted
<1>2. ASSUME UNCHANGED <<tracked, current, history>> PROVE current' = Cardinality(tracked')
  BY <1>1, <1>2
<1>3. ASSUME NEW as, Untracked(as), UNCHANGED history PROVE current' = Cardinality(tracked')
  BY <1>1, <1>3, UntrackedCount
<1>4. ASSUME NEW a \in Addresses, Tracking(a) PROVE current' = Cardinality(tracked')
  <2>1. history \subseteq history'
    BY <1>4 DEF Tracking
  <2>2. "tracked twice" \notin history'
    BY DEF Uncounted
  <2> QED BY <1>1, <1>4, <2>1, <2>2, TrackingCount
<1>5. ASSUME NEW a \in Addresses, TrackValue(a) PROVE current' = Cardinality(tracked')
  BY <1>4, <1>5 DEF TrackValue
<1>6. ASSUME NEW a \in Addresses, UntrackValue(a) PROVE current' = Cardinality(tracked')
  BY <1>3, <1>6 DEF UntrackValue
<1>7. ASSUME NEW a \in Addresses, Allocate(a) \/ AddValue(a) PROVE current' = Cardinality(tracked')
  BY <1>2, <1>7 DEF Allocate, AddValue
<1>8. ASSUME NEW a \in Addresses, GiveBack(a) PROVE current' = Cardinality(tracked')
  <2>1. UNCHANGED <<tracked, current>> /\ history \subseteq history'
    BY <1>8 DEF GiveBack
  <2> QED BY <1>1, <2>1
<1>9. CASE CleanupAll
  BY <1>9, FS_EmptySet DEF CleanupAll
<1>10. CASE ResetStatistics
  BY <1>10 DEF ResetStatistics, Uncounted
<1>11. CASE Cleanup
  BY <1>3, <1>11 DEF Cleanup
<1>12. CASE Acquire
  BY <1>2, <1>12 DEF Acquire
<1>13. ASSUME NEW p \in Pointers, DeleteOld(p) PROVE current' = Cardinality(tracked')
  BY <1>2, <1>13 DEF DeleteOld
<1>14. ASSUME NEW p \in Pointers, Take(p) PROVE current' = Cardinality(tracked')
  BY <1>2, <1>4, <1>14, TakeStep
<1>15. ASSUME NEW p \in Pointers, Release(p) PROVE current' = Cardinality(tracked')
  BY <1>3, <1>15 DEF Release
<1>16. ASSUME NEW p \in Pointers, NEW source \in Field, NEW from \in Pointers \cup {Null},
              NEW moves \in BOOLEAN, Begin(p, source, from, moves), Begins(p, source, from, moves)
       PROVE  current' = Cardinality(tracked')
  <2>1. Untracked(IF Owns(p) THEN {ptrs[p].at} ELSE {})
    BY <1>16 DEF Begin
  <2>2. history \subseteq history'
    BY <1>16 DEF Begins
  <2> QED BY <1>1, <2>1, <2>2, UntrackedCount
<1>17. ASSUME NEW p \in Pointers, UsePointer(p) PROVE current' = Cardinality(tracked')
  BY <1>13, <1>14, <1>15, <1>16, <1>17, PointerCalls
<1>18. CASE UNCHANGED memoryVars
  BY <1>2, <1>18 DEF memoryVars
<1> QED BY <1>5, <1>6, <1>7, <1>8, <1>9, <1>10, <1>11, <1>12, <1>17, <1>18 DEF MemoryNext

----------------------------------------------------------------------------
(* The theorem.                                                            *)

\* A step of a pointer keeps the whole invariant.
LEMMA PointerKept ==
    ASSUME MemoryInv, NEW p \in Pointers, UsePointer(p)
    PROVE  MemoryInv'
<1>1. MemoryTypes /\ CallInv
  BY DEF MemoryInv
<1>2. ASSUME history \subseteq history', history' \cap Promises = {} PROVE Owned
  BY <1>2 DEF MemoryInv, OwnerInv
<1>3. CASE DeleteOld(p)
  <2>1. UNCHANGED history
    BY <1>3 DEF DeleteOld
  <2> QED BY <1>1, <1>2, <1>3, <2>1, DeleteTypes, DeleteCalls, DeleteOwned DEF MemoryInv, OwnerInv
<1>4. CASE Take(p)
  <2>1. history \subseteq history'
    BY <1>1, <1>4, TakeStep DEF Tracking
  <2>2. history' \cap Promises = {} => "copied" \notin history
    BY <2>1 DEF Promises
  <2> QED BY <1>1, <1>2, <1>4, <2>1, <2>2, TakeTypes, TakeCalls, TakeOwned DEF MemoryInv, OwnerInv
<1>5. CASE Release(p)
  <2>1. UNCHANGED history
    BY <1>5 DEF Release
  <2> QED BY <1>1, <1>2, <1>5, <2>1, ReleaseTypes, ReleaseCalls, ReleaseOwned
          DEF MemoryInv, OwnerInv
<1>6. ASSUME NEW source \in Field, NEW from \in Pointers \cup {Null}, NEW moves \in BOOLEAN,
             Quiet(p), Begin(p, source, from, moves), Begins(p, source, from, moves)
      PROVE  MemoryInv'
  <2>1. history \subseteq history' /\ raw' \subseteq raw
    BY <1>6 DEF Begins
  <2>2. MemoryTypes'
    BY <1>1, <1>6, <2>1, BeginTypes
  <2>3. CallInv'
    BY <1>1, <1>6, BeginCalls
  <2>4. OwnerInv'
    <3> SUFFICES ASSUME history' \cap Promises = {} PROVE Owned'
      BY DEF OwnerInv
    <3>1. Owned
      BY <1>2, <2>1
    <3> QED BY <1>1, <1>6, <3>1, BeginOwned
  <2> QED BY <2>2, <2>3, <2>4 DEF MemoryInv
<1> QED BY <1>1, <1>3, <1>4, <1>5, <1>6, PointerCalls

\* So does every step.
LEMMA MemoryKept ==
    ASSUME MemoryInv, [MemoryNext]_memoryVars
    PROVE  MemoryInv'
<1>1. MemoryTypes /\ CallInv
  BY DEF MemoryInv
<1>2. CASE ProgramStep
  <2>1. UNCHANGED <<ptrs, doing>> /\ history \subseteq history'
    BY <1>2, ProgramCalls
  <2>2. MemoryTypes' /\ CallInv'
    BY <1>1, <1>2, <2>1, ProgramTypes, CallsLeftAlone
  <2>3. OwnerInv'
    <3> SUFFICES ASSUME history' \cap Promises = {} PROVE Owned'
      BY DEF OwnerInv
    <3>1. Owned
      BY <2>1 DEF MemoryInv, OwnerInv
    <3> QED BY <1>1, <1>2, <3>1, ProgramOwned
  <2> QED BY <2>2, <2>3 DEF MemoryInv
<1>3. ASSUME NEW p \in Pointers, UsePointer(p) PROVE MemoryInv'
  BY <1>3, PointerKept
<1>4. CASE UNCHANGED memoryVars
  <2>1. /\ UNCHANGED <<alive, raw, scoped, pool, ptrs, doing>>
        /\ UNCHANGED <<tracked, current, history, fault>>
    BY <1>4 DEF memoryVars
  <2>2. MemoryTypes' /\ CallInv'
    BY <1>1, <2>1, CallsLeftAlone DEF MemoryTypes
  <2>3. Pooled' = Pooled
    BY <2>1 DEF Pooled
  <2>4. \A p \in Pointers : Held(p)' = Held(p)
    <3>1. \A p \in Pointers : Quiet(p)' <=> Quiet(p)
      BY <2>1 DEF Quiet
    <3> QED BY <2>1, <3>1 DEF Held
  <2>5. Owned => Owned'
    BY <2>1, <2>3, <2>4 DEF Owned, Apart, HeldAlive
  <2> QED BY <2>1, <2>2, <2>5 DEF MemoryInv, OwnerInv
<1> QED BY <1>2, <1>3, <1>4 DEF MemoryNext, ProgramStep

\* What holds a value apart from the others owns it alone.
LEMMA OneOwner ==
    ASSUME MemoryTypes, CallInv, Owned, NEW a \in Addresses
    PROVE  Cardinality(Owners(a)) <= 1 /\ (Owners(a) # {} => a \in alive)
<1>1. a # Null
  BY MemoryAssumption
<1> DEFINE Ptr(x)  == \E p \in Pointers : x = <<"ptr", p>> /\ Quiet(p) /\ ptrs[p].at = a
           Old(x)  == \E p \in Pointers : x = <<"delete", p>> /\ doing[p].at = a
           New(x)  == \E p \in Pointers : x = <<"take", p>> /\ doing[p].source.at = a
           Pool(x) == \E i \in DOMAIN pool : x = <<"pool", i>> /\ pool[i] = a
           Raw(x)  == x = <<"raw", a>> /\ a \in raw
           Scop(x) == x = <<"scoped", a>> /\ a \in scoped
<1>2. ASSUME NEW x \in Owners(a)
      PROVE  Ptr(x) \/ Old(x) \/ New(x) \/ Pool(x) \/ Raw(x) \/ Scop(x)
  <2>1. \/ x \in {<<"ptr", p>> : p \in {q \in Pointers : Quiet(q) /\ Owns(q) /\ ptrs[q].at = a}}
        \/ x \in {<<"delete", p>> : p \in {q \in Pointers : doing[q].at = a}}
        \/ x \in {<<"take", p>> : p \in {q \in Pointers :
                                      doing[q].source = [at |-> a, managed |-> TRUE]}}
        \/ x \in {<<"pool", i>> : i \in {j \in DOMAIN pool : pool[j] = a}}
        \/ x \in (IF a \in raw THEN {<<"raw", a>>} ELSE {})
        \/ x \in (IF a \in scoped THEN {<<"scoped", a>>} ELSE {})
    BY <1>2, Zenon DEF Owners
  <2>2. ASSUME NEW p \in Pointers, doing[p].source = [at |-> a, managed |-> TRUE]
        PROVE  doing[p].source.at = a
    BY <2>2
  <2>3. x \in (IF a \in raw THEN {<<"raw", a>>} ELSE {}) => Raw(x)
    OBVIOUS
  <2>4. x \in (IF a \in scoped THEN {<<"scoped", a>>} ELSE {}) => Scop(x)
    OBVIOUS
  <2> QED BY <2>1, <2>2, <2>3, <2>4
<1>3. ASSUME NEW p \in Pointers
      PROVE  /\ Quiet(p) /\ ptrs[p].at = a => a \in Held(p)
             /\ doing[p].at = a \/ doing[p].source.at = a => a \in Held(p)
             /\ Quiet(p) => doing[p].at # a /\ doing[p].source.at # a
             /\ ~(doing[p].at = a /\ doing[p].source.at = a)
  BY <1>1 DEF Held, Quiet, Idle, Empty, Owned, Apart
<1>4. ASSUME NEW p \in Pointers, a \in Held(p)
      PROVE  /\ a \notin raw /\ a \notin scoped /\ a \notin Pooled /\ a \in alive
             /\ \A q \in Pointers : a \in Held(q) => q = p
  BY <1>4 DEF Owned, Apart, HeldAlive
<1>5. ASSUME NEW i \in DOMAIN pool, pool[i] = a
      PROVE  /\ a \in Pooled /\ a \notin raw /\ a \notin scoped /\ a \in alive
             /\ \A j \in DOMAIN pool : pool[j] = a => j = i
  <2>1. a \in Pooled
    BY <1>5 DEF Pooled, Range
  <2>2. \A j \in DOMAIN pool : pool[j] = a => j = i
    BY <1>5 DEF Owned, Apart, IsInjective
  <2> QED BY <2>1, <2>2 DEF Owned, Apart, HeldAlive
<1>6. a \in raw => a \notin scoped /\ a \in alive
  BY DEF Owned, Apart, HeldAlive
<1>7. a \in scoped => a \in alive
  BY DEF Owned, HeldAlive
<1>8. ASSUME NEW x \in Owners(a), NEW y \in Owners(a) PROVE x = y
  <2>1. CASE Ptr(x)
    <3>1. ASSUME Ptr(y) PROVE x = y
      BY <1>3, <1>4, <2>1, <3>1
    <3>2. ~Old(y) /\ ~New(y) /\ ~Pool(y) /\ ~Raw(y) /\ ~Scop(y)
      BY <1>3, <1>4, <1>5, <2>1
    <3> QED BY <1>2, <1>8, <3>1, <3>2
  <2>2. CASE Old(x)
    <3>1. ASSUME Old(y) PROVE x = y
      BY <1>3, <1>4, <2>2, <3>1
    <3>2. ~Ptr(y) /\ ~New(y) /\ ~Pool(y) /\ ~Raw(y) /\ ~Scop(y)
      BY <1>3, <1>4, <1>5, <2>2
    <3> QED BY <1>2, <1>8, <3>1, <3>2
  <2>3. CASE New(x)
    <3>1. ASSUME New(y) PROVE x = y
      BY <1>3, <1>4, <2>3, <3>1
    <3>2. ~Ptr(y) /\ ~Old(y) /\ ~Pool(y) /\ ~Raw(y) /\ ~Scop(y)
      BY <1>3, <1>4, <1>5, <2>3
    <3> QED BY <1>2, <1>8, <3>1, <3>2
  <2>4. CASE Pool(x)
    <3>1. ASSUME Pool(y) PROVE x = y
      BY <1>5, <2>4, <3>1
    <3>2. ~Ptr(y) /\ ~Old(y) /\ ~New(y) /\ ~Raw(y) /\ ~Scop(y)
      BY <1>3, <1>4, <1>5, <2>4
    <3> QED BY <1>2, <1>8, <3>1, <3>2
  <2>5. CASE Raw(x) \/ Scop(x)
    <3>1. ~Ptr(y) /\ ~Old(y) /\ ~New(y) /\ ~Pool(y)
      BY <1>3, <1>4, <1>5, <2>5
    <3>2. Raw(y) \/ Scop(y)
      BY <1>2, <1>8, <3>1
    <3> QED BY <1>6, <2>5, <3>2
  <2> QED BY <1>2, <1>8, <2>1, <2>2, <2>3, <2>4, <2>5
<1>9. ASSUME NEW x \in Owners(a) PROVE a \in alive
  BY <1>2, <1>3, <1>4, <1>5, <1>6, <1>7, <1>9
<1>10. CASE Owners(a) = {}
  BY <1>10, FS_EmptySet
<1>11. CASE Owners(a) # {}
  <2>1. PICK x \in Owners(a) : TRUE
    BY <1>11
  <2>2. Owners(a) = {x}
    BY <1>8, <2>1
  <2>3. Cardinality(Owners(a)) = 1
    BY <2>2, FS_Singleton
  <2> QED BY <1>9, <2>1, <2>3
<1> QED BY <1>10, <1>11

\* The invariant gives the property.
LEMMA OnceDeleted == MemoryInv => DeletedOnce
BY OneOwner DEF MemoryInv, OwnerInv, DeletedOnce, Owned, Promises

\* Pointers that are constructed, moved, reset, released and destroyed by any
\* number of threads, with untracking and deletion apart, delete every value
\* once and leave the counter at the number of tracked values, up to the first
\* copy of a pointer, cleanupAll of what is in use, value tracked twice or
\* pooled while tracked.
THEOREM AccountedCorrect == MemorySpec => []ValuesAccountedFor
<1>1. MemoryInit => MemoryInv /\ CountersMatch
  BY MemoryInitial
<1>2. MemoryInv /\ CountersMatch /\ [MemoryNext]_memoryVars => (MemoryInv /\ CountersMatch)'
  BY MemoryKept, CountersKept DEF MemoryInv
<1>3. MemoryInv /\ CountersMatch => ValuesAccountedFor
  BY OnceDeleted DEF ValuesAccountedFor
<1> QED BY <1>1, <1>2, <1>3, PTL DEF MemorySpec

=============================================================================
