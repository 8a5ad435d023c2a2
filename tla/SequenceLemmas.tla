--------------------------- MODULE SequenceLemmas ---------------------------
(***************************************************************************)
(* What push_back, pop and the concatenation of two vectors do to the set  *)
(* of elements of a sequence, and to its being free of duplicates.  The    *)
(* queues and callback lists of the runtime modules hold each element at   *)
(* most once; these lemmas are where their proofs get it from.  And what   *)
(* stands for induction: the smallest and the largest of a set of numbers, *)
(* loops that run up an interval, and recursive functions that look down   *)
(* one.                                                                    *)
(***************************************************************************)
EXTENDS Naturals, Sequences, Functions, FiniteSetsExt, FiniteSetTheorems, WellFoundedInduction, TLAPS

\* The front leaves the set, and with no duplicate it is gone from it.
LEMMA PopFront ==
    ASSUME NEW S, NEW q \in Seq(S), q # <<>>
    PROVE  /\ Head(q) \in S
           /\ Tail(q) \in Seq(S)
           /\ Range(q) = {Head(q)} \cup Range(Tail(q))
           /\ IsInjective(q) => IsInjective(Tail(q)) /\ Head(q) \notin Range(Tail(q))
<1>1. /\ Len(q) \in Nat \ {0}
      /\ DOMAIN q = 1..Len(q)
      /\ Head(q) = q[1] /\ Head(q) \in S
      /\ Tail(q) \in Seq(S)
      /\ DOMAIN Tail(q) = 1..(Len(q) - 1)
      /\ \A i \in 1..(Len(q) - 1) : Tail(q)[i] = q[i + 1]
  OBVIOUS
<1>2. ASSUME NEW x \in Range(q) PROVE x \in {Head(q)} \cup Range(Tail(q))
  <2>1. PICK i \in 1..Len(q) : x = q[i]
    BY <1>1 DEF Range
  <2>2. CASE i = 1
    BY <1>1, <2>1, <2>2
  <2>3. CASE i # 1
    <3>1. i - 1 \in 1..(Len(q) - 1) /\ Tail(q)[i - 1] = x
      BY <1>1, <2>1, <2>3
    <3> QED BY <1>1, <3>1 DEF Range
  <2> QED BY <2>2, <2>3
<1>3. ASSUME NEW x \in {Head(q)} \cup Range(Tail(q)) PROVE x \in Range(q)
  <2>1. CASE x = Head(q)
    BY <1>1, <2>1 DEF Range
  <2>2. CASE x \in Range(Tail(q))
    <3>1. PICK i \in 1..(Len(q) - 1) : x = Tail(q)[i]
      BY <1>1, <2>2 DEF Range
    <3>2. i + 1 \in 1..Len(q) /\ q[i + 1] = x
      BY <1>1, <3>1
    <3> QED BY <1>1, <3>2 DEF Range
  <2> QED BY <2>1, <2>2
<1>4. ASSUME IsInjective(q) PROVE IsInjective(Tail(q)) /\ Head(q) \notin Range(Tail(q))
  <2>1. IsInjective(Tail(q))
    BY <1>1, <1>4 DEF IsInjective
  <2>2. ASSUME Head(q) \in Range(Tail(q)) PROVE FALSE
    <3>1. PICK i \in 1..(Len(q) - 1) : q[1] = q[i + 1]
      BY <1>1, <2>2 DEF Range
    <3> QED BY <1>1, <1>4, <3>1 DEF IsInjective
  <2> QED BY <2>1, <2>2
<1> QED BY <1>1, <1>2, <1>3, <1>4

\* The back joins the set, and no duplicate comes of a task that was not there.
LEMMA PushBack ==
    ASSUME NEW S, NEW q \in Seq(S), NEW e \in S
    PROVE  /\ Range(Append(q, e)) = Range(q) \cup {e}
           /\ IsInjective(q) /\ e \notin Range(q) => IsInjective(Append(q, e))
<1>1. /\ Len(q) \in Nat
      /\ DOMAIN q = 1..Len(q)
      /\ DOMAIN Append(q, e) = 1..(Len(q) + 1)
      /\ \A i \in 1..Len(q) : Append(q, e)[i] = q[i]
      /\ Append(q, e)[Len(q) + 1] = e
  OBVIOUS
<1>2. \A i \in 1..(Len(q) + 1) : i \in 1..Len(q) \/ i = Len(q) + 1
  BY <1>1
<1>3. Range(Append(q, e)) = Range(q) \cup {e}
  BY <1>1, <1>2 DEF Range
<1>4. ASSUME IsInjective(q), e \notin Range(q) PROVE IsInjective(Append(q, e))
  BY <1>1, <1>2, <1>4 DEF IsInjective, Range
<1> QED BY <1>3, <1>4

\* The back leaves the set, and with no duplicate it is gone from it.
LEMMA PopBack ==
    ASSUME NEW S, NEW q \in Seq(S), q # <<>>
    PROVE  /\ q[Len(q)] \in S
           /\ SubSeq(q, 1, Len(q) - 1) \in Seq(S)
           /\ Range(q) = Range(SubSeq(q, 1, Len(q) - 1)) \cup {q[Len(q)]}
           /\ IsInjective(q) => /\ IsInjective(SubSeq(q, 1, Len(q) - 1))
                                /\ q[Len(q)] \notin Range(SubSeq(q, 1, Len(q) - 1))
<1>1. Len(q) \in Nat \ {0} /\ DOMAIN q = 1..Len(q) /\ q[Len(q)] \in S
  OBVIOUS
<1>2. ASSUME NEW n \in Nat \ {0}
      PROVE  /\ n \in 1..n /\ n - 1 \in Nat
             /\ \A i \in 1..(n - 1) : i \in 1..n /\ i # n
             /\ \A i \in 1..n : i \in 1..(n - 1) \/ i = n
  OBVIOUS
<1>3. /\ Len(q) \in 1..Len(q)
      /\ \A i \in 1..(Len(q) - 1) : i \in 1..Len(q) /\ i # Len(q)
      /\ \A i \in 1..Len(q) : i \in 1..(Len(q) - 1) \/ i = Len(q)
  BY <1>1, <1>2
<1> DEFINE rest == SubSeq(q, 1, Len(q) - 1)
<1>4. /\ rest \in Seq(S) /\ DOMAIN rest = 1..(Len(q) - 1)
      /\ \A i \in 1..(Len(q) - 1) : rest[i] = q[i]
  <2>1. rest \in Seq(S) /\ Len(rest) = Len(q) - 1
    OBVIOUS
  <2>2. ASSUME NEW n \in Nat PROVE \A i \in 1..n : SubSeq(q, 1, n)[i] = q[i]
    OBVIOUS
  <2>3. \A i \in 1..(Len(q) - 1) : rest[i] = q[i]
    BY <1>1, <1>2, <2>2
  <2> HIDE DEF rest
  <2> QED BY <2>1, <2>3
<1> HIDE DEF rest
<1>5. Range(q) = Range(rest) \cup {q[Len(q)]}
  BY <1>1, <1>3, <1>4 DEF Range
<1>6. IsInjective(q) => IsInjective(rest) /\ q[Len(q)] \notin Range(rest)
  BY <1>1, <1>3, <1>4 DEF IsInjective, Range
<1> QED BY <1>1, <1>4, <1>5, <1>6 DEF rest

\* Two vectors that share no element, one after the other.
LEMMA Concatenation ==
    ASSUME NEW S, NEW p \in Seq(S), NEW q \in Seq(S)
    PROVE  /\ p \o q \in Seq(S)
           /\ Range(p \o q) = Range(p) \cup Range(q)
           /\ IsInjective(p) /\ IsInjective(q) /\ Range(p) \cap Range(q) = {}
                => IsInjective(p \o q)
<1>1. /\ Len(p) \in Nat /\ Len(q) \in Nat
      /\ DOMAIN p = 1..Len(p) /\ DOMAIN q = 1..Len(q)
      /\ p \o q \in Seq(S)
      /\ DOMAIN (p \o q) = 1..(Len(p) + Len(q))
      /\ \A i \in 1..Len(p) : (p \o q)[i] = p[i]
      /\ \A i \in (Len(p) + 1)..(Len(p) + Len(q)) : (p \o q)[i] = q[i - Len(p)]
  OBVIOUS
<1>2. ASSUME NEW x \in Range(p \o q) PROVE x \in Range(p) \cup Range(q)
  <2>1. PICK i \in 1..(Len(p) + Len(q)) : x = (p \o q)[i]
    BY <1>1 DEF Range
  <2>2. CASE i <= Len(p)
    BY <1>1, <2>1, <2>2 DEF Range
  <2>3. CASE i > Len(p)
    <3>1. i - Len(p) \in 1..Len(q) /\ x = q[i - Len(p)]
      BY <1>1, <2>1, <2>3
    <3> QED BY <1>1, <3>1 DEF Range
  <2> QED BY <1>1, <2>1, <2>2, <2>3
<1>3. ASSUME NEW x \in Range(p) PROVE x \in Range(p \o q)
  <2>1. PICK i \in 1..Len(p) : x = p[i]
    BY <1>1, <1>3 DEF Range
  <2>2. i \in 1..(Len(p) + Len(q)) /\ x = (p \o q)[i]
    BY <1>1, <2>1
  <2> QED BY <1>1, <2>2 DEF Range
<1>4. ASSUME NEW x \in Range(q) PROVE x \in Range(p \o q)
  <2>1. PICK i \in 1..Len(q) : x = q[i]
    BY <1>1, <1>4 DEF Range
  <2>2. i + Len(p) \in (Len(p) + 1)..(Len(p) + Len(q)) /\ (i + Len(p)) - Len(p) = i
    BY <1>1, <2>1
  <2>3. i + Len(p) \in 1..(Len(p) + Len(q)) /\ x = (p \o q)[i + Len(p)]
    BY <1>1, <2>1, <2>2
  <2> QED BY <1>1, <2>3 DEF Range
<1>5. ASSUME IsInjective(p), IsInjective(q), Range(p) \cap Range(q) = {},
             NEW i \in 1..(Len(p) + Len(q)), NEW j \in 1..(Len(p) + Len(q)),
             (p \o q)[i] = (p \o q)[j]
      PROVE  i = j
  <2>1. ASSUME NEW k \in 1..(Len(p) + Len(q)), k > Len(p)
        PROVE  k - Len(p) \in 1..Len(q) /\ (p \o q)[k] = q[k - Len(p)]
    BY <1>1, <2>1
  <2>2. CASE i <= Len(p) /\ j <= Len(p)
    BY <1>1, <1>5, <2>2 DEF IsInjective
  <2>3. CASE i > Len(p) /\ j > Len(p)
    <3>1. i - Len(p) = j - Len(p)
      BY SMTT(30), <1>1, <1>5, <2>1, <2>3 DEF IsInjective
    <3> QED BY <1>1, <3>1
  <2>4. ASSUME NEW k \in 1..(Len(p) + Len(q)), NEW l \in 1..(Len(p) + Len(q)),
               k <= Len(p), l > Len(p)
        PROVE  (p \o q)[k] # (p \o q)[l]
    <3>1. (p \o q)[k] \in Range(p)
      BY <1>1, <2>4 DEF Range
    <3>2. (p \o q)[l] \in Range(q)
      BY <1>1, <2>1, <2>4 DEF Range
    <3> QED BY <1>5, <3>1, <3>2
  <2> QED BY <1>1, <1>5, <2>2, <2>3, <2>4
<1> QED BY <1>1, <1>2, <1>3, <1>4, <1>5 DEF IsInjective

\* An element of a sequence without duplicates stands in it once.
LEMMA StandsOnce ==
    ASSUME NEW S, NEW q \in Seq(S), IsInjective(q), NEW e
    PROVE  Cardinality({i \in DOMAIN q : q[i] = e}) = IF e \in Range(q) THEN 1 ELSE 0
<1> DEFINE At == {i \in DOMAIN q : q[i] = e}
<1>1. CASE e \in Range(q)
  <2>1. PICK i \in DOMAIN q : q[i] = e
    BY <1>1 DEF Range
  <2>2. At = {i}
    BY <2>1 DEF IsInjective
  <2> HIDE DEF At
  <2>3. Cardinality(At) = 1
    BY <2>2, FS_Singleton
  <2> QED BY <1>1, <2>3 DEF At
<1>2. CASE e \notin Range(q)
  <2>1. At = {}
    BY <1>2 DEF Range
  <2> HIDE DEF At
  <2>2. Cardinality(At) = 0
    BY <2>1, FS_EmptySet
  <2> QED BY <1>2, <2>2 DEF At
<1> QED BY <1>1, <1>2

\* A set of numbers has a smallest one.  Taken of the places where a statement
\* about the places of a sequence fails, it does what an induction would.
LEMMA SmallestOf ==
    ASSUME NEW T, T \subseteq Nat, T # {}
    PROVE  \E x \in T : \A y \in T : x <= y
<1>1. PICK x \in T : \A y \in T : <<y, x>> \notin OpToRel(<, Nat)
  BY NatLessThanWellFounded, WFMin, Zenon
<1>2. \A y \in T : ~(y < x)
  BY <1>1 DEF OpToRel
<1> QED BY <1>2

\* The smallest of a set of numbers is one of them, and no greater than another.
LEMMA MinIsSmallest ==
    ASSUME NEW T, T \subseteq Nat, T # {}
    PROVE  Min(T) \in T /\ \A y \in T : Min(T) <= y
<1>1. \E x \in T : \A y \in T : x <= y
  BY SmallestOf
<1> QED BY <1>1 DEF Min

\* The largest of a bounded set of numbers is one of them, and no smaller than
\* another.
LEMMA MaxIsLargest ==
    ASSUME NEW n \in Nat, NEW T, T \subseteq 0..n, T # {}
    PROVE  Max(T) \in T /\ \A y \in T : y <= Max(T)
<1> DEFINE Below == {n - x : x \in T}
<1>1. Below \subseteq Nat /\ Below # {}
  <2>1. ASSUME NEW x \in T PROVE n - x \in Nat
    <3>1. x \in 0..n
      BY <2>1
    <3> QED BY <3>1
  <2> QED BY <2>1
<1>2. PICK z \in Below : \A y \in Below : z <= y
  <2> HIDE DEF Below
  <2> QED BY <1>1, SmallestOf
<1>3. PICK x \in T : z = n - x
  BY <1>2
<1>4. ASSUME NEW y \in T PROVE x >= y /\ y \in Int /\ x \in Int
  <2>1. n - x <= n - y /\ x \in 0..n /\ y \in 0..n
    BY <1>2, <1>3, <1>4
  <2> QED BY <2>1
<1>5. Max(T) \in T /\ \A y \in T : Max(T) >= y
  BY <1>3, <1>4 DEF Max
<1> QED BY <1>4, <1>5

\* So is the largest of the places of a sequence.
LEMMA LastPlace ==
    ASSUME NEW n \in Nat, NEW T, T \subseteq 1..n, T # {}
    PROVE  Max(T) \in T /\ \A y \in T : y <= Max(T)
<1>1. T \subseteq 0..n
  OBVIOUS
<1> QED BY <1>1, MaxIsLargest

\* f is what a loop leaves after each turn from first to last: it starts from
\* base and turn n does step[n].
LoopFrom(f, R, first, last, base, step) ==
    /\ f \in [first..last -> R]
    /\ f[first] = base
    /\ \A n \in (first + 1)..last : f[n] = step[n][f[n - 1]]

\* A loop always runs: the smallest number of turns it could not make is none.
LEMMA LoopRuns ==
    ASSUME NEW R, NEW first \in Nat, NEW last \in Nat, first <= last,
           NEW base \in R, NEW step, step \in [(first + 1)..last -> [R -> R]]
    PROVE  \E f : LoopFrom(f, R, first, last, base, step)
<1> DEFINE Bad == {n \in first..last : \A f : ~LoopFrom(f, R, first, n, base, step)}
<1>1. Bad = {}
  <2>1. SUFFICES ASSUME Bad # {} PROVE FALSE
    OBVIOUS
  <2>2. Bad \subseteq Nat
    OBVIOUS
  <2>3. PICK n \in Bad : \A m \in Bad : n <= m
    <3> HIDE DEF Bad
    <3> QED BY <2>1, <2>2, SmallestOf
  <2>4. n \in first..last /\ \A f : ~LoopFrom(f, R, first, n, base, step)
    BY <2>3
  <2>5. CASE n = first
    <3> DEFINE f == [i \in first..first |-> base]
    <3>1. LoopFrom(f, R, first, first, base, step)
      BY DEF LoopFrom
    <3> QED BY <2>4, <2>5, <3>1
  <2>6. CASE n # first
    <3>1. PICK m \in Nat : n = m + 1
      <4>1. n - 1 \in Nat /\ n = (n - 1) + 1
        BY <2>4, <2>6
      <4> QED BY <4>1
    <3>2. m \in first..last /\ ~(n <= m) /\ m + 1 \in (first + 1)..last
      BY <2>4, <2>6, <3>1
    <3>3. PICK f : LoopFrom(f, R, first, m, base, step)
      BY <2>3, <3>2
    <3> DEFINE g == [i \in first..(m + 1) |-> IF i = m + 1 THEN step[m + 1][f[m]] ELSE f[i]]
    <3>4. /\ f \in [first..m -> R] /\ f[first] = base
          /\ \A i \in (first + 1)..m : f[i] = step[i][f[i - 1]]
      BY <3>3 DEF LoopFrom
    <3>5. step[m + 1] \in [R -> R] /\ f[m] \in R
      BY <3>2, <3>4
    <3>6. step[m + 1][f[m]] \in R
      BY <3>5
    <3>7. g \in [first..(m + 1) -> R]
      BY <3>2, <3>4, <3>6
    <3>8. \A i \in first..m : g[i] = f[i]
      BY <3>2
    <3>9. g[m + 1] = step[m + 1][f[m]]
      BY <3>2
    <3> HIDE DEF g
    <3>10. g[first] = base
      BY <3>2, <3>4, <3>8
    <3>11. ASSUME NEW i \in (first + 1)..(m + 1) PROVE g[i] = step[i][g[i - 1]]
      <4>1. CASE i = m + 1
        <5>1. i - 1 = m /\ m \in first..m
          BY <3>2, <4>1
        <5> QED BY <3>8, <3>9, <4>1, <5>1
      <4>2. CASE i # m + 1
        <5>1. i \in (first + 1)..m /\ i \in first..m /\ i - 1 \in first..m
          BY <3>2, <3>11, <4>2
        <5> QED BY <3>4, <3>8, <5>1
      <4> QED BY <4>1, <4>2
    <3>12. LoopFrom(g, R, first, n, base, step)
      BY <3>1, <3>7, <3>10, <3>11 DEF LoopFrom
    <3> QED BY <2>4, <3>12
  <2> QED BY <2>5, <2>6
<1>2. last \in first..last
  OBVIOUS
<1> QED BY <1>1, <1>2

\* A set of numbers that each number joins if all later ones are in it.
LEMMA InductionDown ==
    ASSUME NEW first \in Nat, NEW last \in Nat, NEW T, T \subseteq first .. last,
           \A n \in first .. last : (\A m \in (n + 1) .. last : m \in T) => n \in T
    PROVE  T = first .. last
<1> DEFINE Out == {k \in Nat : k <= last /\ last - k \in first .. last /\ last - k \notin T}
<1>1. SUFFICES ASSUME NEW n \in first .. last, n \notin T PROVE FALSE
  OBVIOUS
<1>2. last - n \in Out
  <2>1. last - n \in Nat /\ last - n <= last /\ last - (last - n) = n
    OBVIOUS
  <2> QED BY <1>1, <2>1
<1>3. PICK k \in Out : \A j \in Out : k <= j
  <2>1. Out \subseteq Nat /\ Out # {}
    BY <1>2
  <2> HIDE DEF Out
  <2> QED BY <2>1, SmallestOf
<1>4. k \in Nat /\ k <= last /\ last - k \in first .. last /\ last - k \notin T
  BY <1>3
<1>5. ASSUME NEW m \in (last - k + 1) .. last PROVE m \in T
  <2>1. last - m \in Nat /\ last - m <= last /\ last - (last - m) = m /\ ~(k <= last - m)
    BY <1>4
  <2>2. m \in first .. last
    BY <1>4
  <2>3. last - m \notin Out
    <3> HIDE DEF Out
    <3> QED BY <1>3, <2>1
  <2> QED BY <2>1, <2>2, <2>3
<1> QED BY <1>4, <1>5

\* step gives the value at a number from the values at later ones.
LooksAhead(step, first, last, D) ==
    /\ step \in [(first .. last) \X [first .. last -> D] -> D]
    /\ \A n \in first .. last, g, h \in [first .. last -> D] :
          (\A m \in (n + 1) .. last : g[m] = h[m]) => step[<<n, g>>] = step[<<n, h>>]

\* Then there is a function with these values.
LEMMA RecursionDown ==
    ASSUME NEW first \in Nat, NEW last \in Nat, NEW D, NEW d \in D,
           NEW step, LooksAhead(step, first, last, D)
    PROVE  \E f \in [first .. last -> D] : \A n \in first .. last : f[n] = step[<<n, f>>]
<1> DEFINE I == first .. last
           From(g, n) == \A m \in n .. last : g[m] = step[<<m, g>>]
           T == {n \in I : \E g \in [I -> D] : From(g, n)}
<1>1. /\ step \in [I \X [I -> D] -> D]
      /\ \A n \in I, g, h \in [I -> D] :
            (\A m \in (n + 1) .. last : g[m] = h[m]) => step[<<n, g>>] = step[<<n, h>>]
  BY DEF LooksAhead
<1>2. ASSUME NEW n \in I, \A m \in (n + 1) .. last : m \in T PROVE n \in T
  <2>1. PICK g \in [I -> D] : From(g, n + 1)
    <3>1. CASE n = last
      <4>1. [m \in I |-> d] \in [I -> D] /\ From([m \in I |-> d], n + 1)
        BY <3>1
      <4> QED BY <4>1
    <3>2. CASE n # last
      <4>1. n + 1 \in (n + 1) .. last
        BY <1>2, <3>2
      <4> QED BY <1>2, <4>1
    <3> QED BY <3>1, <3>2
  <2> DEFINE h == [g EXCEPT ![n] = step[<<n, g>>]]
  <2>2. step[<<n, g>>] \in D
    BY <1>1, <1>2, <2>1
  <2>3. h \in [I -> D] /\ h[n] = step[<<n, g>>] /\ \A m \in (n + 1) .. last : h[m] = g[m]
    BY <1>2, <2>1, <2>2
  <2> HIDE DEF h
  <2>4. ASSUME NEW m \in n .. last PROVE h[m] = step[<<m, h>>]
    <3>1. m \in I /\ \A k \in (m + 1) .. last : k \in (n + 1) .. last
      BY <1>2
    <3>2. step[<<m, h>>] = step[<<m, g>>]
      <4>1. \A k \in (m + 1) .. last : h[k] = g[k]
        BY <2>3, <3>1
      <4> HIDE DEF I
      <4> QED BY <1>1, <2>1, <2>3, <3>1, <4>1
    <3>3. CASE m = n
      BY <2>3, <3>2, <3>3
    <3>4. CASE m # n
      <4>1. m \in (n + 1) .. last
        BY <1>2, <3>4
      <4> QED BY <2>1, <2>3, <3>2, <4>1
    <3> QED BY <3>3, <3>4
  <2> QED BY <1>2, <2>3, <2>4
<1>3. CASE first <= last
  <2>1. T = I
    <3>1. T \subseteq first .. last
      OBVIOUS
    <3> HIDE DEF T
    <3> QED BY <1>2, <3>1, InductionDown
  <2>2. first \in T
    <3> HIDE DEF T
    <3> QED BY <1>3, <2>1
  <2>3. PICK f \in [I -> D] : From(f, first)
    BY <2>2
  <2> QED BY <2>3
<1>4. CASE ~(first <= last)
  <2>1. first .. last = {}
    BY <1>4
  <2>2. [n \in first .. last |-> d] \in [first .. last -> D]
    OBVIOUS
  <2> QED BY <2>1, <2>2
<1> QED BY <1>3, <1>4

\* A set of numbers that has 0 and the next of each.
LEMMA InductionUp ==
    ASSUME NEW n \in Nat, NEW T, 0 \in T, \A k \in 1 .. n : k - 1 \in T => k \in T
    PROVE  0 .. n \subseteq T
<1> DEFINE Out == {k \in 0 .. n : k \notin T}
<1>1. SUFFICES ASSUME Out # {} PROVE FALSE
  OBVIOUS
<1>2. PICK k \in Out : \A j \in Out : k <= j
  <2>1. Out \subseteq Nat /\ Out # {}
    BY <1>1
  <2> HIDE DEF Out
  <2> QED BY <2>1, SmallestOf
<1>3. k \in 1 .. n /\ k \notin T /\ k - 1 \in 0 .. n /\ ~(k <= k - 1)
  OBVIOUS
<1> QED BY <1>2, <1>3

\* A set that each element of D joins if all of lower rank are in it.
LEMMA InductionBelow ==
    ASSUME NEW D, NEW rank \in [D -> Nat], NEW T,
           \A p \in D : (\A q \in D : rank[q] < rank[p] => q \in T) => p \in T
    PROVE  D \subseteq T
<1> DEFINE Out == {rank[p] : p \in D \ T}
<1>1. SUFFICES ASSUME NEW x \in D, x \notin T PROVE FALSE
  OBVIOUS
<1>2. PICK k \in Out : \A j \in Out : k <= j
  <2>1. Out \subseteq Nat /\ Out # {}
    BY <1>1
  <2> HIDE DEF Out
  <2> QED BY <2>1, SmallestOf
<1>3. PICK p \in D : p \notin T /\ rank[p] = k
  OBVIOUS
<1>4. ASSUME NEW q \in D, rank[q] < rank[p] PROVE q \in T
  <2>1. rank[q] \in Nat /\ rank[p] \in Nat
    BY <1>3, <1>4
  <2>2. ~(k <= rank[q])
    BY <1>3, <1>4, <2>1
  <2> QED BY <1>2, <1>4, <2>2
<1> QED BY <1>3, <1>4

\* step gives the value of each element of D from the values of lower ones.
LooksBelow(step, D, rank, R) ==
    /\ rank \in [D -> Nat]
    /\ step \in [D \X [D -> R] -> R]
    /\ \A p \in D, g, h \in [D -> R] :
          (\A q \in D : rank[q] < rank[p] => g[q] = h[q]) => step[<<p, g>>] = step[<<p, h>>]

\* f has these values.
Follows(f, step, D) == \A p \in D : f[p] = step[<<p, f>>]

\* g has these values, up to rank k.
ValuesBelow(step, D, rank, R, k, g) ==
    g \in [D -> R] /\ \A p \in D : rank[p] < k => g[p] = step[<<p, g>>]

\* Two functions with these values agree.
LEMMA RecursionAgrees ==
    ASSUME NEW D, NEW R, NEW rank, NEW step, LooksBelow(step, D, rank, R), NEW k \in Nat, NEW l \in Nat,
           NEW g, ValuesBelow(step, D, rank, R, k, g), NEW h, ValuesBelow(step, D, rank, R, l, h)
    PROVE  \A p \in D : rank[p] < k /\ rank[p] < l => g[p] = h[p]
<1> DEFINE T == {p \in D : rank[p] < k /\ rank[p] < l => g[p] = h[p]}
<1>1. rank \in [D -> Nat] /\ g \in [D -> R] /\ h \in [D -> R]
  BY DEF LooksBelow, ValuesBelow
<1>2. ASSUME NEW p \in D, \A q \in D : rank[q] < rank[p] => q \in T PROVE p \in T
  <2>1. SUFFICES ASSUME rank[p] < k, rank[p] < l PROVE g[p] = h[p]
    OBVIOUS
  <2>2. ASSUME NEW q \in D, rank[q] < rank[p] PROVE g[q] = h[q]
    <3>1. rank[q] \in Nat /\ rank[p] \in Nat
      BY <1>1
    <3>2. rank[q] < k /\ rank[q] < l
      BY <2>1, <2>2, <3>1
    <3> QED BY <1>2, <2>2, <3>2
  <2>3. step[<<p, g>>] = step[<<p, h>>]
    BY <1>1, <2>2 DEF LooksBelow
  <2> QED BY <2>1, <2>3 DEF ValuesBelow
<1>3. D \subseteq T
  <2> HIDE DEF T
  <2> QED BY <1>1, <1>2, InductionBelow
<1> QED BY <1>3

\* So there is a function that has these values everywhere.
LEMMA RecursionBelow ==
    ASSUME NEW D, NEW R, NEW r \in R, NEW rank, NEW step, LooksBelow(step, D, rank, R)
    PROVE  \E f \in [D -> R] : Follows(f, step, D)
<1> DEFINE T == {k \in Nat : \E g : ValuesBelow(step, D, rank, R, k, g)}
           G(k) == CHOOSE g : ValuesBelow(step, D, rank, R, k, g)
           f == [p \in D |-> G(rank[p] + 1)[p]]
<1>1. rank \in [D -> Nat] /\ step \in [D \X [D -> R] -> R]
  BY DEF LooksBelow
<1>2. 0 \in T
  <2>1. \A p \in D : ~(rank[p] < 0)
    BY <1>1
  <2>2. [p \in D |-> r] \in [D -> R]
    OBVIOUS
  <2>3. ValuesBelow(step, D, rank, R, 0, [p \in D |-> r])
    BY <2>1, <2>2 DEF ValuesBelow
  <2> QED BY <2>3
<1>3. ASSUME NEW k \in Nat, k # 0, k - 1 \in T PROVE k \in T
  <2>1. PICK g : ValuesBelow(step, D, rank, R, k - 1, g)
    BY <1>3
  <2> DEFINE h == [p \in D |-> step[<<p, g>>]]
  <2>2. g \in [D -> R] /\ h \in [D -> R]
    BY <1>1, <2>1 DEF ValuesBelow
  <2>3. \A p \in D : h[p] = step[<<p, g>>]
    OBVIOUS
  <2> HIDE DEF h
  <2>4. ASSUME NEW p \in D, rank[p] < k PROVE h[p] = step[<<p, h>>]
    <3>1. ASSUME NEW q \in D, rank[q] < rank[p] PROVE g[q] = h[q]
      <4>1. rank[q] \in Nat /\ rank[p] \in Nat
        BY <1>1
      <4>2. rank[q] < k - 1
        BY <2>4, <3>1, <4>1
      <4> QED BY <2>1, <2>3, <3>1, <4>2 DEF ValuesBelow
    <3> QED BY <2>2, <2>3, <3>1 DEF LooksBelow
  <2>5. ValuesBelow(step, D, rank, R, k, h)
    BY <2>2, <2>4 DEF ValuesBelow
  <2> QED BY <2>5
<1>4. ASSUME NEW k \in Nat PROVE ValuesBelow(step, D, rank, R, k, G(k))
  <2>1. k \in 0 .. k
    OBVIOUS
  <2>2. 0 .. k \subseteq T
    <3>1. \A i \in 1 .. k : i \in Nat /\ i # 0
      OBVIOUS
    <3> HIDE DEF T
    <3> QED BY <1>2, <1>3, <3>1, InductionUp
  <2>3. \E g : ValuesBelow(step, D, rank, R, k, g)
    BY <2>1, <2>2
  <2> QED BY <2>3
<1> HIDE DEF G
<1>5. ASSUME NEW p \in D
      PROVE  rank[p] \in Nat /\ rank[p] + 1 \in Nat /\ rank[p] < rank[p] + 1
  BY <1>1
<1>6. f \in [D -> R]
  <2>1. ASSUME NEW p \in D PROVE G(rank[p] + 1)[p] \in R
    <3>1. G(rank[p] + 1) \in [D -> R]
      BY <1>4, <1>5, <2>1 DEF ValuesBelow
    <3> QED BY <2>1, <3>1
  <2> QED BY <2>1
<1>7. \A p \in D : f[p] = G(rank[p] + 1)[p]
  OBVIOUS
<1> HIDE DEF f
<1>8. ASSUME NEW p \in D PROVE f[p] = step[<<p, f>>]
  <2> DEFINE g == G(rank[p] + 1)
  <2>1. ValuesBelow(step, D, rank, R, rank[p] + 1, g)
    BY <1>4, <1>5
  <2>2. ASSUME NEW q \in D, rank[q] < rank[p] PROVE f[q] = g[q]
    <3>1. ValuesBelow(step, D, rank, R, rank[q] + 1, G(rank[q] + 1))
      BY <1>4, <1>5, <2>2
    <3>2. rank[q] < rank[p] + 1 /\ rank[q] < rank[q] + 1
      BY <1>5, <2>2
    <3>3. rank[p] + 1 \in Nat /\ rank[q] + 1 \in Nat
      BY <1>5, <2>2
    <3> HIDE DEF g
    <3>4. g[q] = G(rank[q] + 1)[q]
      BY <2>1, <3>1, <3>2, <3>3, RecursionAgrees
    <3> QED BY <1>7, <3>4
  <2>3. g \in [D -> R] /\ g[p] = step[<<p, g>>]
    BY <1>5, <2>1 DEF ValuesBelow
  <2>4. f[p] = g[p]
    BY <1>7
  <2> HIDE DEF g
  <2> QED BY <1>6, <2>2, <2>3, <2>4 DEF LooksBelow
<1> QED BY <1>6, <1>8 DEF Follows

=============================================================================
