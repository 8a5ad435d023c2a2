---------------------------- MODULE ValuesProofs ----------------------------
(***************************************************************************)
(* What the values of a script guarantee, for any keys, texts, arrays and  *)
(* dicts and any bounds.                                                   *)
(*                                                                         *)
(* Of containers (Containers): a value that lives is owned once.  The heap *)
(* is a forest that hangs from what the client owns.  The lemmas say what  *)
(* keeps it one: to forget a tree, to destroy one, to rewrite a container, *)
(* to put new cells beside it, and to clone.  Every operation of a         *)
(* container is made of these.                                             *)
(*                                                                         *)
(* Of the operators (Calculator): all six comparisons go by one total      *)
(* order of what they compare.  The loops over two vectors find the        *)
(* lexicographic order of a strict total order, and that one is strict and *)
(* total again: of numbers, of texts, of arrays of texts, of dicts.        *)
(*                                                                         *)
(* Of arithmetic (Calculator): a number is what it is truncated to and     *)
(* wholes of its width, so truncating early or late makes no difference;   *)
(* division rounds to zero, and only the least number by -1 is out of      *)
(* range; bits that two numbers have add up.                               *)
(*                                                                         *)
(* Of texts (Strings): split, replace, indexOf and lastIndexOf agree on    *)
(* where a text occurs.  They are recursive functions that look up the     *)
(* text; RecursionDown says that these exist, and InductionDown, from the  *)
(* end of the text, what they give.                                        *)
(*                                                                         *)
(* Of layouts (Formats): with marks in the place of its arguments, the     *)
(* loop of format goes the same way, turn by turn: what it finds and takes *)
(* does not depend on what is already written.  That loop exists because   *)
(* less of the text is left at every turn (RecursionBelow).                *)
(***************************************************************************)
EXTENDS Values, SequenceLemmas, FiniteSetTheorems, FunctionTheorems, SequenceTheorems

----------------------------------------------------------------------------
(* Containers: what the cells of a heap lead to.                           *)

\* The values that a cell has, where it refers to cells of D.
CellsOver(D) ==
    {TextCell, Deleted} \cup {Array(s) : s \in Seq(D)}
    \cup {Dict(e) : e \in [DOMAIN Keys -> D \cup {Nothing}]}

HeapOK(h) ==
    /\ IsFiniteSet(DOMAIN h) /\ DOMAIN h \subseteq Nat \ {0}
    /\ h \in [DOMAIN h -> CellsOver(DOMAIN h)]

\* No cell has two places in the same container.
Once(places) ==
    \A i, j \in DOMAIN places : places[i] = places[j] /\ places[i] # Nothing => i = j

\* No set of cells in which every one has a container in the set.
Ordered(h) ==
    \A S \in SUBSET DOMAIN h :
        S # {} => \E c \in S : \A d \in S : c \notin Children(h, d)

\* The cells of R are owned from outside, every other cell that lives by one place of
\* one cell; a deleted one by none.
Sound(h, R) ==
    /\ HeapOK(h)
    /\ R \subseteq DOMAIN h /\ \A c \in R : h[c] # Deleted
    /\ \A d \in DOMAIN h : \A c \in Children(h, d) : c \in DOMAIN h /\ h[c] # Deleted /\ c \notin R
    /\ \A d \in DOMAIN h : Once(h[d].at)
    /\ \A d, e \in DOMAIN h : d # e => Children(h, d) \cap Children(h, e) = {}
    /\ \A c \in DOMAIN h : h[c] # Deleted => c \in R \/ \E d \in DOMAIN h : c \in Children(h, d)
    /\ Ordered(h)

\* A cell refers to the cells of a heap only, and a deleted one to none.
LEMMA CellRefers ==
    ASSUME NEW D, D \subseteq Nat \ {0}, NEW cell \in CellsOver(D)
    PROVE  Elements(cell.at) \subseteq D /\ (cell = Deleted => Elements(cell.at) = {})
<1>1. CASE cell \in {TextCell, Deleted}
  BY <1>1 DEF TextCell, Deleted, Elements
<1>2. ASSUME NEW s \in Seq(D), cell = Array(s)
      PROVE  Elements(cell.at) \subseteq D /\ cell # Deleted
  <2>1. cell.at = s /\ \A i \in DOMAIN s : s[i] \in D
    BY <1>2 DEF Array
  <2>2. cell # Deleted
    BY <1>2 DEF Array, Deleted
  <2> QED BY <2>1, <2>2 DEF Elements
<1>3. ASSUME NEW e \in [DOMAIN Keys -> D \cup {Nothing}], cell = Dict(e)
      PROVE  Elements(cell.at) \subseteq D /\ cell # Deleted
  <2>1. cell.at = e
    BY <1>3 DEF Dict
  <2>2. cell # Deleted
    BY <1>3 DEF Dict, Deleted
  <2> QED BY <2>1, <2>2 DEF Elements
<1> QED BY <1>1, <1>2, <1>3 DEF CellsOver

\* A cell whose places hold cells of E only is one over E.
LEMMA CellNarrows ==
    ASSUME NEW D, D \subseteq Nat \ {0}, NEW cell \in CellsOver(D), NEW E,
           Elements(cell.at) \subseteq E
    PROVE  cell \in CellsOver(E)
<1>1. CASE cell \in {TextCell, Deleted}
  BY <1>1 DEF CellsOver
<1>2. ASSUME NEW s \in Seq(D), cell = Array(s)
      PROVE  s \in Seq(E)
  <2>1. \A i \in 1..Len(s) : s[i] \in E
    <3>1. \A i \in 1..Len(s) : s[i] \in D /\ i \in DOMAIN s
      OBVIOUS
    <3>2. \A i \in 1..Len(s) : s[i] # Nothing
      BY <3>1, ContainersAssumption DEF ContainersAssumption
    <3> QED BY <1>2, <3>1, <3>2 DEF Array, Elements
  <2> QED BY <2>1
<1>3. ASSUME NEW e \in [DOMAIN Keys -> D \cup {Nothing}], cell = Dict(e)
      PROVE  e \in [DOMAIN Keys -> E \cup {Nothing}]
  <2>1. cell.at = e
    BY <1>3 DEF Dict
  <2> QED BY <2>1 DEF Elements
<1> QED BY <1>1, <1>2, <1>3 DEF CellsOver

\* Every child is a cell, and a deleted cell has none.
LEMMA ChildrenAreCells ==
    ASSUME NEW h, HeapOK(h), NEW d \in DOMAIN h
    PROVE  Children(h, d) \subseteq DOMAIN h /\ (h[d] = Deleted => Children(h, d) = {})
BY CellRefers DEF HeapOK, Children

\* What cells lead to is the least set that has them and, with a cell, its children.
LEMMA ReachLeast ==
    ASSUME NEW h, \A d \in DOMAIN h : Children(h, d) \subseteq DOMAIN h,
           NEW C, C \subseteq DOMAIN h
    PROVE  /\ C \subseteq Reach(h, C) /\ Reach(h, C) \subseteq DOMAIN h
           /\ \A c \in Reach(h, C) : Children(h, c) \subseteq Reach(h, C)
           /\ \A s \in SUBSET DOMAIN h : C \subseteq s /\ Closed(h, s) => Reach(h, C) \subseteq s
BY DEF Reach, Closed

\* They lead to themselves, and to what has a container among what they lead to.
LEMMA ReachOrigin ==
    ASSUME NEW h, \A d \in DOMAIN h : Children(h, d) \subseteq DOMAIN h,
           NEW C, C \subseteq DOMAIN h, NEW x \in Reach(h, C), x \notin C
    PROVE  \E d \in Reach(h, C) : x \in Children(h, d)
<1> SUFFICES ASSUME \A d \in Reach(h, C) : x \notin Children(h, d) PROVE FALSE
  OBVIOUS
<1> DEFINE s == Reach(h, C) \ {x}
<1>1. C \subseteq s /\ s \in SUBSET DOMAIN h
  BY ReachLeast
<1>2. Closed(h, s)
  BY ReachLeast DEF Closed
<1>3. Reach(h, C) \subseteq s
  BY <1>1, <1>2, ReachLeast
<1> QED BY <1>3

\* Nothing leads from the children of a cell back to it.
LEMMA NoWayBack ==
    ASSUME NEW h, NEW R, Sound(h, R), NEW a \in DOMAIN h, NEW C, C \subseteq Children(h, a)
    PROVE  a \notin Reach(h, C)
<1> SUFFICES ASSUME a \in Reach(h, C) PROVE FALSE
  OBVIOUS
<1>1. /\ \A d \in DOMAIN h : Children(h, d) \subseteq DOMAIN h
      /\ C \subseteq DOMAIN h
  BY ChildrenAreCells DEF Sound
<1>2. Reach(h, C) \in SUBSET DOMAIN h
  BY <1>1, ReachLeast
<1>3. PICK x \in Reach(h, C) : \A d \in Reach(h, C) : x \notin Children(h, d)
  BY <1>2 DEF Sound, Ordered
<1>4. x \in C
  BY <1>1, <1>3, ReachOrigin
<1> QED BY <1>3, <1>4

\* What cells that live lead to lives.
LEMMA ReachLives ==
    ASSUME NEW h, NEW R, Sound(h, R), NEW C, C \subseteq DOMAIN h, \A c \in C : h[c] # Deleted
    PROVE  \A x \in Reach(h, C) : h[x] # Deleted
<1>1. \A d \in DOMAIN h : Children(h, d) \subseteq DOMAIN h
  BY ChildrenAreCells DEF Sound
<1>2. Reach(h, C) \subseteq DOMAIN h
  BY <1>1, ReachLeast
<1>3. ASSUME NEW x \in Reach(h, C), x \notin C PROVE h[x] # Deleted
  <2>1. PICK d \in Reach(h, C) : x \in Children(h, d)
    BY <1>1, <1>3, ReachOrigin
  <2> QED BY <1>2, <2>1 DEF Sound
<1> QED BY <1>3

\* The owned cells lead to all that live.
LEMMA RootsReach ==
    ASSUME NEW h, NEW R, Sound(h, R), NEW x \in DOMAIN h, h[x] # Deleted
    PROVE  x \in Reach(h, R)
<1>1. /\ \A d \in DOMAIN h : Children(h, d) \subseteq DOMAIN h
      /\ \A d \in DOMAIN h : h[d] = Deleted => Children(h, d) = {}
      /\ R \subseteq DOMAIN h
  BY ChildrenAreCells DEF Sound
<1> DEFINE S == {c \in DOMAIN h : h[c] # Deleted /\ c \notin Reach(h, R)}
<1>2. SUFFICES ASSUME S # {} PROVE FALSE
  OBVIOUS
<1>3. PICK c \in S : \A d \in S : c \notin Children(h, d)
  BY <1>2 DEF Sound, Ordered
<1>4. R \subseteq Reach(h, R) /\ \A d \in Reach(h, R) : Children(h, d) \subseteq Reach(h, R)
  BY <1>1, ReachLeast
<1>5. PICK d \in DOMAIN h : c \in Children(h, d)
  BY <1>3, <1>4 DEF Sound
<1>6. d \in S
  BY <1>1, <1>3, <1>4, <1>5
<1> QED BY <1>3, <1>5, <1>6

\* What cells lead to does not depend on cells they do not lead to.
LEMMA ReachElsewhere ==
    ASSUME NEW h, \A d \in DOMAIN h : Children(h, d) \subseteq DOMAIN h,
           NEW g, \A d \in DOMAIN g : Children(g, d) \subseteq DOMAIN g,
           DOMAIN g = DOMAIN h, NEW C, C \subseteq DOMAIN h,
           \A c \in Reach(h, C) : Children(g, c) = Children(h, c)
    PROVE  Reach(g, C) = Reach(h, C)
<1>1. Reach(g, C) \subseteq Reach(h, C)
  <2>1. /\ C \subseteq Reach(h, C) /\ Reach(h, C) \subseteq DOMAIN h
        /\ \A c \in Reach(h, C) : Children(h, c) \subseteq Reach(h, C)
    BY ReachLeast
  <2>2. Closed(g, Reach(h, C))
    BY <2>1 DEF Closed
  <2> QED BY <2>1, <2>2, ReachLeast
<1>2. Reach(h, C) \subseteq Reach(g, C)
  <2>1. /\ C \subseteq Reach(g, C) /\ Reach(g, C) \subseteq DOMAIN g
        /\ \A c \in Reach(g, C) : Children(g, c) \subseteq Reach(g, C)
    BY ReachLeast
  <2>2. Closed(h, Reach(g, C))
    BY <1>1, <2>1 DEF Closed
  <2> QED BY <2>1, <2>2, ReachLeast
<1> QED BY <1>1, <1>2

\* What pointers no longer lead to is forgotten: an owned cell and what it leads to stay.
LEMMA CollectOK ==
    ASSUME NEW h, NEW R, Sound(h, R), NEW P, P \subseteq DOMAIN h, R \subseteq P
    PROVE  Sound([c \in Reach(h, P) |-> h[c]], R)
<1> DEFINE A == Reach(h, P)
           g == [c \in A |-> h[c]]
<1>1. /\ HeapOK(h)
      /\ \A d \in DOMAIN h : Children(h, d) \subseteq DOMAIN h
      /\ \A d \in DOMAIN h : h[d] = Deleted => Children(h, d) = {}
  BY ChildrenAreCells DEF Sound
<1>2. P \subseteq A /\ A \subseteq DOMAIN h /\ \A c \in A : Children(h, c) \subseteq A
  BY <1>1, ReachLeast
<1>3. \A d \in A : Children(g, d) = Children(h, d) /\ g[d] = h[d]
  BY DEF Children
<1>4. HeapOK(g)
  <2>1. IsFiniteSet(A) /\ A \subseteq Nat \ {0}
    BY <1>1, <1>2, FS_Subset DEF HeapOK
  <2>2. \A c \in A : h[c] \in CellsOver(A)
    <3> SUFFICES ASSUME NEW c \in A PROVE h[c] \in CellsOver(A)
      OBVIOUS
    <3>1. h[c] \in CellsOver(DOMAIN h) /\ DOMAIN h \subseteq Nat \ {0}
      BY <1>1, <1>2 DEF HeapOK
    <3>2. Elements(h[c].at) \subseteq A
      BY <1>2 DEF Children
    <3> QED BY <3>1, <3>2, CellNarrows
  <2> QED BY <2>1, <2>2 DEF HeapOK
<1>5. Closed(h, A)
  BY <1>2 DEF Closed
<1>6. Reach(h, R) \subseteq A
  BY <1>1, <1>2, <1>5, ReachLeast
<1>7. ASSUME NEW c \in A, h[c] # Deleted
      PROVE  c \in R \/ \E d \in A : c \in Children(h, d)
  <2>1. CASE c \in R
    BY <2>1
  <2>2. ASSUME NEW d \in DOMAIN h, c \in Children(h, d) PROVE d \in A
    <3>1. h[d] # Deleted
      BY <1>1, <2>2
    <3> QED BY <1>6, <3>1, RootsReach
  <2> QED BY <1>2, <1>7, <2>1, <2>2 DEF Sound
<1>8. Ordered(g)
  <2> SUFFICES ASSUME NEW S \in SUBSET A, S # {}
               PROVE  \E c \in S : \A d \in S : c \notin Children(g, d)
    BY DEF Ordered
  <2>1. PICK c \in S : \A d \in S : c \notin Children(h, d)
    BY <1>2 DEF Ordered, Sound
  <2> QED BY <1>3, <2>1
<1>9. /\ \A c \in R : h[c] # Deleted
      /\ \A d \in A : \A c \in Children(h, d) : h[c] # Deleted /\ c \notin R
      /\ \A d \in A : Once(h[d].at)
      /\ \A d, e \in A : d # e => Children(h, d) \cap Children(h, e) = {}
  BY <1>2 DEF Sound
<1>10. DOMAIN g = A /\ R \subseteq A
  BY <1>2
<1> HIDE DEF g, A
<1> QED BY <1>2, <1>3, <1>4, <1>7, <1>8, <1>9, <1>10 DEF Sound, A, g

\* Owned cells are destroyed with all that they lead to, and nothing else is.
LEMMA DestroyOK ==
    ASSUME NEW h, NEW R, Sound(h, R), NEW C, C \subseteq R
    PROVE  Sound(Destroyed(h, C), R \ C)
<1> DEFINE L == Reach(h, C)
           g == Destroyed(h, C)
<1>1. /\ HeapOK(h) /\ R \subseteq DOMAIN h
      /\ \A d \in DOMAIN h : Children(h, d) \subseteq DOMAIN h
  BY ChildrenAreCells DEF Sound
<1>2. C \subseteq L /\ L \subseteq DOMAIN h /\ \A c \in L : Children(h, c) \subseteq L
  BY <1>1, ReachLeast
<1>3. DOMAIN g = DOMAIN h /\ \A c \in DOMAIN h : g[c] = IF c \in L THEN Deleted ELSE h[c]
  BY DEF Destroyed
<1>4. \A d \in DOMAIN h : Children(g, d) = IF d \in L THEN {} ELSE Children(h, d)
  BY <1>3 DEF Children, Deleted, Elements
<1>5. HeapOK(g)
  BY <1>1, <1>3 DEF HeapOK, CellsOver, Destroyed
<1>6. \A c \in L : c \in C \/ \E d \in L : c \in Children(h, d)
  BY <1>1, ReachOrigin
<1> HIDE DEF L, g
<1>7. \A c \in R \ C : g[c] # Deleted
  BY <1>1, <1>2, <1>3, <1>6 DEF Sound
<1>8. \A d \in DOMAIN h : \A c \in Children(g, d) : c \in DOMAIN h /\ g[c] # Deleted /\ c \notin R \ C
  <2> SUFFICES ASSUME NEW d \in DOMAIN h, d \notin L, NEW c \in Children(h, d)
               PROVE  c \in DOMAIN h /\ g[c] # Deleted /\ c \notin R \ C
    BY <1>4
  <2>1. c \in DOMAIN h /\ h[c] # Deleted /\ c \notin R
    BY DEF Sound
  <2>2. ASSUME NEW e \in L, c \in Children(h, e) PROVE FALSE
    <3>1. e \in DOMAIN h /\ e # d
      BY <1>2
    <3> QED BY <2>2, <3>1 DEF Sound
  <2>3. c \notin L
    BY <1>6, <2>1, <2>2
  <2> QED BY <1>3, <2>1, <2>3
<1>9. \A d \in DOMAIN h : Once(g[d].at)
  BY <1>3 DEF Sound, Once, Deleted
<1>10. \A d, e \in DOMAIN h : d # e => Children(g, d) \cap Children(g, e) = {}
  BY <1>4 DEF Sound
<1>11. \A c \in DOMAIN h : g[c] # Deleted => c \in R \ C \/ \E d \in DOMAIN h : c \in Children(g, d)
  <2> SUFFICES ASSUME NEW c \in DOMAIN h, c \notin L, h[c] # Deleted, c \notin R
               PROVE  \E d \in DOMAIN h : c \in Children(g, d)
    BY <1>2, <1>3
  <2>1. PICK d \in DOMAIN h : c \in Children(h, d)
    BY DEF Sound
  <2>2. d \notin L
    BY <1>2, <2>1
  <2> QED BY <1>4, <2>1, <2>2
<1>12. Ordered(g)
  BY <1>3, <1>4 DEF Ordered, Sound
<1> QED BY <1>1, <1>3, <1>5, <1>7, <1>8, <1>9, <1>10, <1>11, <1>12 DEF Sound, g

\* A cell over some cells is one over more.
LEMMA CellWidens ==
    ASSUME NEW D, D \subseteq Nat \ {0}, NEW cell \in CellsOver(D), NEW E, D \subseteq E
    PROVE  cell \in CellsOver(E)
BY CellRefers, CellNarrows

\* A cell gets a new content: of cells it had, and of owned ones that do not lead to it.
\* What it had and has no more is owned by the one who took it out.
LEMMA RewriteOK ==
    ASSUME NEW h, NEW R, Sound(h, R), NEW a \in DOMAIN h, h[a] # Deleted,
           NEW content \in CellsOver(DOMAIN h), content # Deleted, Once(content.at),
           NEW L, L \subseteq DOMAIN h, Closed(h, L), a \notin L,
           Elements(content.at) \subseteq Children(h, a) \cup R,
           Elements(content.at) \cap R \subseteq L
    PROVE  Sound([h EXCEPT ![a] = content], (R \cup Children(h, a)) \ Elements(content.at))
<1> DEFINE D == Elements(content.at)
           g == [h EXCEPT ![a] = content]
           Q == (R \cup Children(h, a)) \ D
<1>1. /\ HeapOK(h) /\ R \subseteq DOMAIN h
      /\ \A d \in DOMAIN h : Children(h, d) \subseteq DOMAIN h
  BY ChildrenAreCells DEF Sound
<1>2. h = [d \in DOMAIN h |-> h[d]]
  BY <1>1 DEF HeapOK
<1>3. /\ DOMAIN g = DOMAIN h
      /\ \A c \in DOMAIN h : g[c] = IF c = a THEN content ELSE h[c]
  BY <1>2
<1>4. \A d \in DOMAIN h : Children(g, d) = IF d = a THEN D ELSE Children(h, d)
  BY <1>3 DEF Children
<1>5. HeapOK(g)
  BY <1>1, <1>3 DEF HeapOK
<1>6. D \subseteq Children(h, a) \cup R /\ D \cap R \subseteq L /\ Q = (R \cup Children(h, a)) \ D
  OBVIOUS
<1> HIDE DEF g, Q, D
<1>7. Q \subseteq DOMAIN h /\ \A c \in Q : g[c] # Deleted
  <2>1. Q \subseteq DOMAIN h /\ \A c \in Q : h[c] # Deleted
    BY <1>1, <1>6 DEF Sound
  <2> QED BY <1>3, <2>1
<1>8. ASSUME NEW d \in DOMAIN h, NEW c \in Children(g, d)
      PROVE  c \in DOMAIN h /\ g[c] # Deleted /\ c \notin Q
  <2>1. CASE d = a
    <3>1. c \in D
      BY <1>4, <2>1
    <3>2. c \in DOMAIN h /\ h[c] # Deleted
      BY <1>1, <1>6, <3>1 DEF Sound
    <3> QED BY <1>3, <1>6, <3>1, <3>2
  <2>2. CASE d # a
    <3>1. c \in Children(h, d)
      BY <1>4, <2>2
    <3>2. c \in DOMAIN h /\ h[c] # Deleted /\ c \notin R /\ c \notin Children(h, a)
      BY <2>2, <3>1 DEF Sound
    <3> QED BY <1>3, <1>6, <3>2
  <2> QED BY <2>1, <2>2
<1>9. \A d \in DOMAIN h : Once(g[d].at)
  BY <1>3 DEF Sound
<1>10. \A d, e \in DOMAIN h : d # e => Children(g, d) \cap Children(g, e) = {}
  <2>1. \A d \in DOMAIN h : d # a => D \cap Children(h, d) = {}
    BY <1>6 DEF Sound
  <2> QED BY <1>4, <2>1 DEF Sound
<1>11. ASSUME NEW c \in DOMAIN h, g[c] # Deleted
       PROVE  c \in Q \/ \E d \in DOMAIN h : c \in Children(g, d)
  <2>1. h[c] # Deleted
    BY <1>3, <1>11
  <2>2. CASE c \in D
    BY <1>4, <2>2
  <2>3. CASE c \notin D /\ c \in R \cup Children(h, a)
    BY <1>6, <2>3
  <2>4. CASE c \notin R \cup Children(h, a)
    <3>1. PICK d \in DOMAIN h : c \in Children(h, d)
      BY <2>1, <2>4 DEF Sound
    <3> QED BY <1>4, <2>4, <3>1
  <2> QED BY <2>2, <2>3, <2>4
<1>12. Ordered(g)
  <2> SUFFICES ASSUME NEW S \in SUBSET DOMAIN h, S # {}
               PROVE  \E c \in S : \A d \in S : c \notin Children(g, d)
    BY <1>3 DEF Ordered
  <2>1. CASE S \ L # {}
    <3>1. S \ L \in SUBSET DOMAIN h
      OBVIOUS
    <3>2. PICK c \in S \ L : \A d \in S \ L : c \notin Children(h, d)
      BY <2>1, <3>1 DEF Sound, Ordered
    <3>3. ASSUME NEW d \in S, c \in Children(g, d) PROVE FALSE
      <4>1. CASE d \in L
        BY <1>4, <3>2, <3>3, <4>1 DEF Closed
      <4>2. CASE d \notin L /\ d # a
        BY <1>4, <3>2, <3>3, <4>2
      <4>3. CASE d = a
        <5>1. c \in D
          BY <1>4, <3>3, <4>3
        <5>2. c \in Children(h, a)
          BY <1>6, <3>2, <5>1
        <5> QED BY <3>2, <4>3, <5>2
      <4> QED BY <4>1, <4>2, <4>3
    <3> QED BY <3>2, <3>3
  <2>2. CASE S \subseteq L
    <3>1. PICK c \in S : \A d \in S : c \notin Children(h, d)
      BY DEF Sound, Ordered
    <3> QED BY <1>4, <2>2, <3>1
  <2> QED BY <2>1, <2>2
<1>13. Sound(g, Q)
  BY <1>3, <1>5, <1>7, <1>8, <1>9, <1>10, <1>11, <1>12 DEF Sound
<1> QED BY <1>13 DEF g, Q, D

\* A container lets some of its cells go, and they are destroyed.
LEMMA DestroyIn ==
    ASSUME NEW h, NEW R, Sound(h, R), NEW a \in DOMAIN h, h[a] # Deleted,
           NEW G, G \subseteq Children(h, a),
           NEW content \in CellsOver(DOMAIN h), content # Deleted, Once(content.at),
           Elements(content.at) = Children(h, a) \ G
    PROVE  Sound([Destroyed(h, G) EXCEPT ![a] = content], R)
<1> DEFINE g == [h EXCEPT ![a] = content]
<1>1. /\ HeapOK(h) /\ R \subseteq DOMAIN h
      /\ \A d \in DOMAIN h : Children(h, d) \subseteq DOMAIN h
  BY ChildrenAreCells DEF Sound
<1>2. R \cap Children(h, a) = {}
  BY DEF Sound
<1>3. Closed(h, {}) /\ (R \cup Children(h, a)) \ Elements(content.at) = R \cup G
  BY <1>2 DEF Closed
<1>4. Sound(g, R \cup G)
  BY <1>2, <1>3, RewriteOK
<1>5. h = [d \in DOMAIN h |-> h[d]]
  BY <1>1 DEF HeapOK
<1>6. /\ DOMAIN g = DOMAIN h
      /\ \A c \in DOMAIN h : g[c] = IF c = a THEN content ELSE h[c]
  BY <1>5
<1>7. a \notin Reach(h, G)
  BY NoWayBack
<1>8. \A d \in DOMAIN h \ {a} : Children(g, d) = Children(h, d)
  BY <1>6 DEF Children
<1> HIDE DEF g
<1>9. Reach(g, G) = Reach(h, G)
  <2>1. Reach(h, G) \subseteq DOMAIN h
    BY <1>1, ReachLeast
  <2>2. \A d \in DOMAIN g : Children(g, d) \subseteq DOMAIN g
    BY <1>4, ChildrenAreCells DEF Sound
  <2> QED BY <1>1, <1>6, <1>7, <1>8, <2>1, <2>2, ReachElsewhere
<1>10. Destroyed(g, G) = [Destroyed(h, G) EXCEPT ![a] = content]
  BY <1>6, <1>7, <1>9 DEF Destroyed
<1>11. Sound(Destroyed(g, G), (R \cup G) \ G)
  BY <1>4, DestroyOK
<1>12. (R \cup G) \ G = R
  BY <1>2
<1> QED BY <1>10, <1>11, <1>12

\* There are as many free addresses as are asked for, and new cells get different ones.
LEMMA FreshOK ==
    ASSUME NEW h, IsFiniteSet(DOMAIN h), DOMAIN h \subseteq Nat \ {0},
           NEW xs, IsFiniteSet(xs)
    PROVE  /\ Fresh(h, xs) \in [xs -> (Nat \ {0}) \ DOMAIN h]
           /\ \A x, y \in xs : Fresh(h, xs)[x] = Fresh(h, xs)[y] => x = y
<1> DEFINE n == Cardinality(DOMAIN h)
           m == Cardinality(xs)
           free == (1 .. n + m) \ DOMAIN h
           k == Cardinality(free)
<1>1. n \in Nat /\ m \in Nat
  BY FS_CardinalityType
<1>2. IsFiniteSet(1 .. n + m) /\ Cardinality(1 .. n + m) = n + m
  <2>1. ASSUME NEW b \in Nat PROVE IsFiniteSet(1 .. b) /\ Cardinality(1 .. b) = b
    <3>1. 1 > b => b = 0
      OBVIOUS
    <3> QED BY <3>1, FS_Interval
  <2>2. n + m \in Nat
    BY <1>1
  <2> QED BY <2>1, <2>2
<1>3. /\ IsFiniteSet(free) /\ k \in Nat
      /\ k = (n + m) - Cardinality((1 .. n + m) \cap DOMAIN h)
  BY <1>2, FS_Difference, FS_CardinalityType
<1>4. /\ Cardinality((1 .. n + m) \cap DOMAIN h) \in Nat
      /\ Cardinality((1 .. n + m) \cap DOMAIN h) <= n
  <2>1. (1 .. n + m) \cap DOMAIN h \in SUBSET DOMAIN h
    OBVIOUS
  <2> QED BY <2>1, FS_Subset, FS_CardinalityType
<1>5. m <= k
  <2> HIDE DEF n, m, k, free
  <2> QED BY <1>1, <1>3, <1>4
<1>6. PICK b : b \in [1 .. k -> free] /\ \A i, j \in 1 .. k : b[i] = b[j] => i = j
  <2>1. ExistsBijection(1 .. k, free)
    BY <1>3, FS_CardinalityType
  <2> QED BY <2>1 DEF ExistsBijection, Bijection, Injection, Surjection, IsInjective
<1>7. PICK c : c \in [xs -> 1 .. m] /\ \A x, y \in xs : c[x] = c[y] => x = y
  <2>1. ExistsBijection(1 .. m, xs)
    BY FS_CardinalityType
  <2>2. ExistsBijection(xs, 1 .. m)
    BY <2>1, Fun_ExistsBijSymmetric
  <2> QED BY <2>2 DEF ExistsBijection, Bijection, Injection, Surjection, IsInjective
<1> DEFINE at == [x \in xs |-> b[c[x]]]
<1>8. \A x \in xs : c[x] \in 1 .. k
  <2> HIDE DEF n, m, k, free
  <2> QED BY <1>1, <1>3, <1>5, <1>7
<1>9. at \in [xs -> free] /\ IsInjective(at)
  <2> HIDE DEF n, m, k, free
  <2> QED BY <1>6, <1>7, <1>8 DEF IsInjective
<1>10. Fresh(h, xs) \in [xs -> free] /\ IsInjective(Fresh(h, xs))
  BY <1>9 DEF Fresh
<1>11. free \subseteq (Nat \ {0}) \ DOMAIN h
  BY <1>1
<1> HIDE DEF n, m, k, free
<1>12. DOMAIN Fresh(h, xs) = xs
  BY <1>10
<1> QED BY <1>10, <1>11, <1>12 DEF IsInjective

\* Two heaps that have no address in common, one beside the other.
LEMMA WithOK ==
    ASSUME NEW h, NEW R, Sound(h, R), NEW t, NEW T, Sound(t, T), DOMAIN h \cap DOMAIN t = {}
    PROVE  /\ Sound(With(h, t), R \cup T)
           /\ DOMAIN With(h, t) = DOMAIN h \cup DOMAIN t
           /\ \A c \in DOMAIN h : With(h, t)[c] = h[c]
           /\ \A c \in DOMAIN t : With(h, t)[c] = t[c]
           /\ Closed(With(h, t), DOMAIN h) /\ Closed(With(h, t), DOMAIN t)
<1> DEFINE g == With(h, t)
<1>1. /\ HeapOK(h) /\ HeapOK(t) /\ R \subseteq DOMAIN h /\ T \subseteq DOMAIN t
      /\ \A d \in DOMAIN h : Children(h, d) \subseteq DOMAIN h
      /\ \A d \in DOMAIN t : Children(t, d) \subseteq DOMAIN t
  BY ChildrenAreCells DEF Sound
<1>2. /\ DOMAIN g = DOMAIN h \cup DOMAIN t
      /\ \A c \in DOMAIN h : g[c] = h[c]
      /\ \A c \in DOMAIN t : g[c] = t[c]
  BY DEF With
<1>3. /\ \A c \in DOMAIN h : Children(g, c) = Children(h, c)
      /\ \A c \in DOMAIN t : Children(g, c) = Children(t, c)
  BY <1>2 DEF Children
<1>4. HeapOK(g)
  <2>1. IsFiniteSet(DOMAIN g) /\ DOMAIN g \subseteq Nat \ {0}
    <3>1. IsFiniteSet(DOMAIN h \cup DOMAIN t)
      BY <1>1, FS_Union DEF HeapOK
    <3> QED BY <1>1, <1>2, <3>1 DEF HeapOK
  <2>2. \A c \in DOMAIN h : g[c] \in CellsOver(DOMAIN g)
    <3> SUFFICES ASSUME NEW c \in DOMAIN h PROVE h[c] \in CellsOver(DOMAIN g)
      BY <1>2
    <3>1. h[c] \in CellsOver(DOMAIN h) /\ DOMAIN h \subseteq Nat \ {0}
      BY <1>1 DEF HeapOK
    <3> QED BY <1>2, <3>1, CellWidens
  <2>3. \A c \in DOMAIN t : g[c] \in CellsOver(DOMAIN g)
    <3> SUFFICES ASSUME NEW c \in DOMAIN t PROVE t[c] \in CellsOver(DOMAIN g)
      BY <1>2
    <3>1. t[c] \in CellsOver(DOMAIN t) /\ DOMAIN t \subseteq Nat \ {0}
      BY <1>1 DEF HeapOK
    <3> QED BY <1>2, <3>1, CellWidens
  <2>4. g = [c \in DOMAIN g |-> g[c]]
    BY DEF With
  <2> HIDE DEF g
  <2> QED BY <1>2, <2>1, <2>2, <2>3, <2>4 DEF HeapOK
<1> HIDE DEF g
<1>5. Closed(g, DOMAIN h) /\ Closed(g, DOMAIN t)
  BY <1>1, <1>3 DEF Closed
<1>6. R \cup T \subseteq DOMAIN g /\ \A c \in R \cup T : g[c] # Deleted
  <2>1. (\A c \in R : h[c] # Deleted) /\ \A c \in T : t[c] # Deleted
    BY DEF Sound
  <2> QED BY <1>1, <1>2, <2>1
<1>7. ASSUME NEW d \in DOMAIN g, NEW c \in Children(g, d)
      PROVE  c \in DOMAIN g /\ g[c] # Deleted /\ c \notin R \cup T
  <2>1. CASE d \in DOMAIN h
    <3>1. c \in DOMAIN h /\ h[c] # Deleted /\ c \notin R
      BY <1>3, <1>7, <2>1 DEF Sound
    <3> QED BY <1>1, <1>2, <3>1
  <2>2. CASE d \in DOMAIN t
    <3>1. c \in DOMAIN t /\ t[c] # Deleted /\ c \notin T
      BY <1>3, <1>7, <2>2 DEF Sound
    <3> QED BY <1>1, <1>2, <3>1
  <2> QED BY <1>2, <2>1, <2>2
<1>8. \A d \in DOMAIN g : Once(g[d].at)
  BY <1>2 DEF Sound
<1>9. ASSUME NEW d \in DOMAIN g, NEW e \in DOMAIN g, d # e
      PROVE  Children(g, d) \cap Children(g, e) = {}
  <2>1. CASE d \in DOMAIN h /\ e \in DOMAIN h
    BY <1>3, <1>9, <2>1 DEF Sound
  <2>2. CASE d \in DOMAIN t /\ e \in DOMAIN t
    BY <1>3, <1>9, <2>2 DEF Sound
  <2>3. CASE (d \in DOMAIN h /\ e \in DOMAIN t) \/ (d \in DOMAIN t /\ e \in DOMAIN h)
    BY <1>1, <1>3, <2>3
  <2> QED BY <1>2, <2>1, <2>2, <2>3
<1>10. ASSUME NEW c \in DOMAIN g, g[c] # Deleted
       PROVE  c \in R \cup T \/ \E d \in DOMAIN g : c \in Children(g, d)
  <2>1. CASE c \in DOMAIN h
    <3>1. c \in R \/ \E d \in DOMAIN h : c \in Children(h, d)
      BY <1>2, <1>10, <2>1 DEF Sound
    <3> QED BY <1>2, <1>3, <3>1
  <2>2. CASE c \in DOMAIN t
    <3>1. c \in T \/ \E d \in DOMAIN t : c \in Children(t, d)
      BY <1>2, <1>10, <2>2 DEF Sound
    <3> QED BY <1>2, <1>3, <3>1
  <2> QED BY <1>2, <2>1, <2>2
<1>11. Ordered(g)
  <2> SUFFICES ASSUME NEW S \in SUBSET DOMAIN g, S # {}
               PROVE  \E c \in S : \A d \in S : c \notin Children(g, d)
    BY DEF Ordered
  <2>1. CASE S \cap DOMAIN t # {}
    <3>1. S \cap DOMAIN t \in SUBSET DOMAIN t
      OBVIOUS
    <3>2. PICK c \in S \cap DOMAIN t : \A d \in S \cap DOMAIN t : c \notin Children(t, d)
      BY <2>1, <3>1 DEF Sound, Ordered
    <3>3. ASSUME NEW d \in S, c \in Children(g, d) PROVE FALSE
      <4>1. CASE d \in DOMAIN t
        BY <1>3, <3>2, <3>3, <4>1
      <4>2. CASE d \in DOMAIN h
        BY <1>1, <1>3, <3>2, <3>3, <4>2
      <4> QED BY <1>2, <4>1, <4>2
    <3> QED BY <3>2, <3>3
  <2>2. CASE S \subseteq DOMAIN h
    <3>1. PICK c \in S : \A d \in S : c \notin Children(h, d)
      BY <2>2 DEF Sound, Ordered
    <3> QED BY <1>3, <2>2, <3>1
  <2> QED BY <1>2, <2>1, <2>2
<1>12. Sound(g, R \cup T)
  BY <1>4, <1>6, <1>7, <1>8, <1>9, <1>10, <1>11 DEF Sound
<1> QED BY <1>2, <1>5, <1>12 DEF g

\* A new container takes owned cells: the one who made it owns it instead of them.
LEMMA WrapOK ==
    ASSUME NEW h, NEW R, Sound(h, R),
           NEW content \in CellsOver(DOMAIN h), content # Deleted, Once(content.at),
           Elements(content.at) \subseteq R
    PROVE  LET made == NewCell(h, content)
           IN  /\ Sound(made.heap, (R \ Elements(content.at)) \cup {made.cell})
               /\ DOMAIN made.heap = DOMAIN h \cup {made.cell}
               /\ made.cell \notin DOMAIN h /\ made.cell \in Nat \ {0}
<1> DEFINE x == Fresh(h, {1})[1]
           t == [n \in {x} |-> TextCell]
           u == [n \in {x} |-> content]
           g == With(h, t)
           D == Elements(content.at)
<1>1. HeapOK(h) /\ R \subseteq DOMAIN h
  BY DEF Sound
<1>2. x \in Nat \ {0} /\ x \notin DOMAIN h
  <2>1. IsFiniteSet({1})
    BY FS_Singleton
  <2> QED BY <1>1, <2>1, FreshOK DEF HeapOK
<1> HIDE DEF x
<1>3. DOMAIN t = {x} /\ t[x] = TextCell /\ Children(t, x) = {}
  BY DEF Children, TextCell, Elements
<1>4. Sound(t, {x})
  <2>1. IsFiniteSet({x})
    BY FS_Singleton
  <2>2. HeapOK(t)
    BY <1>2, <2>1 DEF HeapOK, CellsOver
  <2>3. t[x] # Deleted
    BY DEF TextCell, Deleted
  <2>4. Once(t[x].at)
    BY DEF Once, TextCell
  <2>5. Ordered(t)
    BY <1>3 DEF Ordered
  <2> HIDE DEF t
  <2> QED BY <1>3, <2>2, <2>3, <2>4, <2>5 DEF Sound
<1> HIDE DEF t
<1>5. /\ Sound(g, R \cup {x}) /\ DOMAIN g = DOMAIN h \cup {x}
      /\ g[x] = TextCell /\ \A c \in DOMAIN h : g[c] = h[c]
      /\ Closed(g, DOMAIN h)
  <2>1. DOMAIN h \cap DOMAIN t = {}
    BY <1>2, <1>3
  <2>2. /\ Sound(With(h, t), R \cup {x})
        /\ DOMAIN With(h, t) = DOMAIN h \cup DOMAIN t
        /\ \A c \in DOMAIN h : With(h, t)[c] = h[c]
        /\ \A c \in DOMAIN t : With(h, t)[c] = t[c]
        /\ Closed(With(h, t), DOMAIN h)
    BY <1>4, <2>1, WithOK, Zenon
  <2>3. x \in DOMAIN t
    BY <1>3
  <2> QED BY <1>3, <2>2, <2>3
<1>6. Children(g, x) = {} /\ g[x] # Deleted
  BY <1>5 DEF Children, TextCell, Deleted, Elements
<1>7. content \in CellsOver(DOMAIN g)
  BY <1>1, <1>5, CellWidens DEF HeapOK
<1>8. With(h, u) = [g EXCEPT ![x] = content]
  BY <1>2, <1>3 DEF With
<1> HIDE DEF g, u
<1>9. D \subseteq Children(g, x) \cup (R \cup {x}) /\ D \cap (R \cup {x}) \subseteq DOMAIN h
  BY <1>1
<1>10. Sound([g EXCEPT ![x] = content], ((R \cup {x}) \cup Children(g, x)) \ D)
  BY <1>2, <1>5, <1>6, <1>7, <1>9, RewriteOK
<1>11. ((R \cup {x}) \cup Children(g, x)) \ D = (R \ D) \cup {x}
  BY <1>1, <1>2, <1>6
<1>12. /\ NewCell(h, content).heap = [g EXCEPT ![x] = content]
       /\ NewCell(h, content).cell = x
  BY <1>8 DEF NewCell, x, u
<1> QED BY <1>2, <1>5, <1>10, <1>11, <1>12

\* What a cell leads to lives and is owned from where it was copied from: as a heap of
\* its own it is sound.
LEMMA TreeOK ==
    ASSUME NEW h0, NEW R, Sound(h0, R), NEW h, DOMAIN h = DOMAIN h0,
           \A d \in DOMAIN h : Children(h, d) \subseteq DOMAIN h,
           NEW C, C \subseteq DOMAIN h,
           \A x \in Reach(h, C) : h[x] = h0[x] /\ h[x] # Deleted /\ Children(h, x) \cap C = {}
    PROVE  Sound([x \in Reach(h, C) |-> h[x]], C)
<1> DEFINE A == Reach(h, C)
           g == [x \in A |-> h[x]]
<1>1. C \subseteq A /\ A \subseteq DOMAIN h /\ \A c \in A : Children(h, c) \subseteq A
  BY ReachLeast
<1>2. /\ DOMAIN g = A
      /\ \A x \in A : /\ g[x] = h0[x] /\ g[x] = h[x] /\ g[x] # Deleted
                      /\ Children(g, x) = Children(h, x) /\ Children(g, x) = Children(h0, x)
  BY DEF Children
<1>3. \A x \in A : x \in C \/ \E d \in A : x \in Children(h, d)
  BY ReachOrigin
<1>4. HeapOK(g)
  <2>1. HeapOK(h0)
    BY DEF Sound
  <2>2. IsFiniteSet(A) /\ A \subseteq Nat \ {0}
    BY <1>1, <2>1, FS_Subset DEF HeapOK
  <2>3. \A c \in A : h[c] \in CellsOver(A)
    <3> SUFFICES ASSUME NEW c \in A PROVE h0[c] \in CellsOver(A)
      BY <1>2
    <3>1. h0[c] \in CellsOver(DOMAIN h0) /\ DOMAIN h0 \subseteq Nat \ {0}
      BY <1>1, <2>1 DEF HeapOK
    <3>2. Elements(h0[c].at) \subseteq A
      BY <1>1, <1>2 DEF Children
    <3> QED BY <3>1, <3>2, CellNarrows
  <2> QED BY <2>2, <2>3 DEF HeapOK
<1>5. \A x \in A : Children(h, x) \cap C = {}
  OBVIOUS
<1> HIDE DEF A, g
<1>6. \A d \in A : \A c \in Children(g, d) : c \in A /\ g[c] # Deleted /\ c \notin C
  BY <1>1, <1>2, <1>5
<1>7. \A d \in A : Once(g[d].at)
  BY <1>1, <1>2 DEF Sound
<1>8. \A d, e \in A : d # e => Children(g, d) \cap Children(g, e) = {}
  BY <1>1, <1>2 DEF Sound
<1>9. Ordered(g)
  <2> SUFFICES ASSUME NEW S \in SUBSET A, S # {}
               PROVE  \E c \in S : \A d \in S : c \notin Children(g, d)
    BY <1>2 DEF Ordered
  <2>1. S \in SUBSET DOMAIN h0
    BY <1>1
  <2>2. PICK c \in S : \A d \in S : c \notin Children(h0, d)
    BY <2>1 DEF Ordered, Sound
  <2> QED BY <1>2, <2>2
<1>10. \A c \in A : c \in C \/ \E d \in A : c \in Children(g, d)
  BY <1>2, <1>3
<1>11. Sound(g, C)
  BY <1>1, <1>2, <1>4, <1>6, <1>7, <1>8, <1>9, <1>10 DEF Sound
<1> QED BY <1>11 DEF g, A

\* The places of a copy hold the copies, and are empty where those of the original are.
LEMMA MovedOK ==
    ASSUME NEW X, NEW at \in [X -> Nat \ {0}], \A x, y \in X : at[x] = at[y] => x = y,
           NEW cells, Elements(cells) \subseteq X
    PROVE  /\ Moved(at, cells) \in [DOMAIN cells -> {at[x] : x \in X} \cup {Nothing}]
           /\ Elements(Moved(at, cells)) = {at[x] : x \in Elements(cells)}
           /\ \A i \in DOMAIN cells : Moved(at, cells)[i] = Nothing <=> cells[i] = Nothing
           /\ Once(cells) => Once(Moved(at, cells))
<1>1. \A x \in X : at[x] # Nothing
  BY ContainersAssumption DEF ContainersAssumption
<1>2. \A i \in DOMAIN cells : cells[i] # Nothing => cells[i] \in Elements(cells) /\ cells[i] \in X
  BY DEF Elements
<1>3. /\ DOMAIN Moved(at, cells) = DOMAIN cells
      /\ Moved(at, cells) = [i \in DOMAIN cells |-> Moved(at, cells)[i]]
      /\ \A i \in DOMAIN cells :
            Moved(at, cells)[i] = IF cells[i] = Nothing THEN Nothing ELSE at[cells[i]]
  BY DEF Moved
<1>4. Moved(at, cells) \in [DOMAIN cells -> {at[x] : x \in X} \cup {Nothing}]
  BY <1>2, <1>3
<1>5. \A i \in DOMAIN cells : Moved(at, cells)[i] = Nothing <=> cells[i] = Nothing
  BY <1>1, <1>2, <1>3
<1>6. Elements(Moved(at, cells)) = {at[x] : x \in Elements(cells)}
  <2>1. ASSUME NEW c \in Elements(Moved(at, cells)) PROVE c \in {at[x] : x \in Elements(cells)}
    <3>1. PICK i \in DOMAIN cells : c = Moved(at, cells)[i] /\ cells[i] # Nothing
      BY <1>3, <1>5, <2>1 DEF Elements
    <3> QED BY <1>2, <1>3, <3>1
  <2>2. ASSUME NEW x \in Elements(cells) PROVE at[x] \in Elements(Moved(at, cells))
    <3>1. PICK i \in DOMAIN cells : x = cells[i] /\ x # Nothing
      BY <2>2 DEF Elements
    <3>2. Moved(at, cells)[i] = at[x] /\ at[x] # Nothing
      BY <1>3, <1>5, <3>1
    <3> QED BY <1>3, <3>2 DEF Elements
  <2> QED BY <2>1, <2>2
<1>7. ASSUME Once(cells) PROVE Once(Moved(at, cells))
  <2> SUFFICES ASSUME NEW i \in DOMAIN cells, NEW j \in DOMAIN cells,
                      Moved(at, cells)[i] = Moved(at, cells)[j], Moved(at, cells)[i] # Nothing
               PROVE  i = j
    BY <1>3 DEF Once
  <2>1. cells[i] # Nothing /\ cells[j] # Nothing /\ at[cells[i]] = at[cells[j]]
    BY <1>3, <1>5
  <2> QED BY <1>2, <1>7, <2>1 DEF Once
<1> QED BY <1>4, <1>5, <1>6, <1>7

\* Places that are all taken, one after the other, are those of an array.
LEMMA FullPlaces ==
    ASSUME NEW D, NEW E, NEW s \in Seq(D), NEW p \in [DOMAIN s -> E \cup {Nothing}],
           \A i \in DOMAIN s : p[i] # Nothing
    PROVE  p \in Seq(E)
<1>1. DOMAIN s = 1 .. Len(s) /\ Len(s) \in Nat
  OBVIOUS
<1>2. p \in [1 .. Len(s) -> E]
  BY <1>1
<1> QED BY <1>1, <1>2, SeqDef

\* The copy of a cell is of its kind.
LEMMA CellMoves ==
    ASSUME NEW X, X \subseteq Nat \ {0}, NEW cell \in CellsOver(X),
           NEW at \in [X -> Nat \ {0}], \A x, y \in X : at[x] = at[y] => x = y
    PROVE  LET copy == [cell EXCEPT !.at = Moved(at, @)]
           IN  /\ copy \in CellsOver({at[x] : x \in X})
               /\ copy.at = Moved(at, cell.at)
               /\ cell # Deleted => copy # Deleted
<1> DEFINE copy == [cell EXCEPT !.at = Moved(at, @)]
           E == {at[x] : x \in X}
<1>1. Elements(cell.at) \subseteq X
  BY CellRefers
<1>2. /\ Moved(at, cell.at) \in [DOMAIN cell.at -> E \cup {Nothing}]
      /\ \A i \in DOMAIN cell.at : Moved(at, cell.at)[i] = Nothing <=> cell.at[i] = Nothing
  <2>1. ASSUME NEW p, Elements(p) \subseteq X
        PROVE  /\ Moved(at, p) \in [DOMAIN p -> E \cup {Nothing}]
               /\ \A i \in DOMAIN p : Moved(at, p)[i] = Nothing <=> p[i] = Nothing
    BY <2>1, MovedOK
  <2> QED BY <1>1, <2>1
<1>3. CASE cell \in {TextCell, Deleted}
  <2>1. Moved(at, <<>>) = <<>>
    BY DEF Moved
  <2>2. copy = cell /\ copy.at = Moved(at, cell.at)
    BY <1>3, <2>1 DEF TextCell, Deleted
  <2> QED BY <1>3, <2>2 DEF CellsOver
<1>4. ASSUME NEW s \in Seq(X), cell = Array(s)
      PROVE  copy \in CellsOver(E) /\ copy.at = Moved(at, cell.at) /\ copy # Deleted
  <2>1. cell.at = s /\ copy = Array(Moved(at, s)) /\ copy.at = Moved(at, s)
    BY <1>4 DEF Array
  <2>2. \A i \in DOMAIN s : s[i] # Nothing
    <3>1. \A i \in DOMAIN s : s[i] \in X
      OBVIOUS
    <3> QED BY <3>1, ContainersAssumption DEF ContainersAssumption
  <2>3. /\ Moved(at, s) \in [DOMAIN s -> E \cup {Nothing}]
        /\ \A i \in DOMAIN s : Moved(at, s)[i] # Nothing
    BY <1>2, <2>1, <2>2
  <2> HIDE DEF E, copy
  <2>4. Moved(at, s) \in Seq(E)
    BY <2>3, FullPlaces
  <2>5. copy # Deleted
    BY <2>1 DEF Array, Deleted
  <2> QED BY <2>1, <2>4, <2>5 DEF CellsOver
<1>5. ASSUME NEW e \in [DOMAIN Keys -> X \cup {Nothing}], cell = Dict(e)
      PROVE  copy \in CellsOver(E) /\ copy.at = Moved(at, cell.at) /\ copy # Deleted
  <2>1. cell.at = e /\ copy = Dict(Moved(at, e)) /\ copy.at = Moved(at, e)
    BY <1>5 DEF Dict
  <2>2. copy # Deleted
    BY <2>1 DEF Dict, Deleted
  <2> HIDE DEF copy, E
  <2> QED BY <1>2, <2>1, <2>2 DEF CellsOver
<1> QED BY <1>3, <1>4, <1>5 DEF CellsOver

\* The copies of all cells of a heap, at new addresses, are a sound heap.
LEMMA CopiesOK ==
    ASSUME NEW s, NEW C, Sound(s, C),
           NEW at \in [DOMAIN s -> Nat \ {0}], \A x, y \in DOMAIN s : at[x] = at[y] => x = y
    PROVE  /\ Sound(Copies(s, at), {at[x] : x \in C})
           /\ DOMAIN Copies(s, at) = {at[x] : x \in DOMAIN s}
<1> DEFINE t == Copies(s, at)
           X == DOMAIN s
           E == {at[x] : x \in X}
           T == {at[x] : x \in C}
           copy(x) == [s[x] EXCEPT !.at = Moved(at, @)]
<1>1. /\ HeapOK(s) /\ C \subseteq X /\ X \subseteq Nat \ {0}
      /\ \A d \in X : Children(s, d) \subseteq X
      /\ \A d \in X : s[d] = Deleted => Children(s, d) = {}
  BY ChildrenAreCells DEF Sound, HeapOK
<1>2. /\ DOMAIN t = E /\ t = [c \in E |-> t[c]]
      /\ \A x \in X : t[at[x]] = copy(x)
  <2>1. DOMAIN at = X
    OBVIOUS
  <2>2. \A x \in X : (CHOOSE y \in X : at[y] = at[x]) = x
    OBVIOUS
  <2>3. t = [c \in E |-> LET x == CHOOSE x \in X : at[x] = c IN copy(x)]
    BY <2>1 DEF Copies
  <2> HIDE DEF t, copy
  <2>4. ASSUME NEW x \in X PROVE t[at[x]] = copy(x)
    <3>1. at[x] \in E
      BY DEF E
    <3>2. t[at[x]] = LET y == CHOOSE y \in X : at[y] = at[x] IN copy(y)
      BY <2>3, <3>1
    <3> QED BY <2>2, <3>2
  <2>5. DOMAIN t = E /\ t = [c \in E |-> t[c]]
    <3> HIDE DEF E
    <3> QED BY <2>3
  <2> QED BY <2>4, <2>5
<1>3. \A x \in X : /\ copy(x) \in CellsOver(E)
                   /\ copy(x).at = Moved(at, s[x].at)
                   /\ s[x] # Deleted => copy(x) # Deleted
  <2> SUFFICES ASSUME NEW x \in X
               PROVE  /\ copy(x) \in CellsOver(E) /\ copy(x).at = Moved(at, s[x].at)
                      /\ s[x] # Deleted => copy(x) # Deleted
    OBVIOUS
  <2>1. ASSUME NEW cell \in CellsOver(X)
        PROVE  LET moved == [cell EXCEPT !.at = Moved(at, @)]
               IN  /\ moved \in CellsOver(E) /\ moved.at = Moved(at, cell.at)
                   /\ cell # Deleted => moved # Deleted
    BY <1>1, <2>1, CellMoves
  <2>2. s[x] \in CellsOver(X)
    BY <1>1 DEF HeapOK
  <2> QED BY <2>1, <2>2
<1> HIDE DEF t, copy
<1>4. \A x \in X : /\ Children(t, at[x]) = {at[y] : y \in Children(s, x)}
                   /\ Once(t[at[x]].at)
  <2> SUFFICES ASSUME NEW x \in X
               PROVE  /\ Children(t, at[x]) = {at[y] : y \in Children(s, x)}
                      /\ Once(t[at[x]].at)
    OBVIOUS
  <2>1. Elements(s[x].at) \subseteq X /\ Once(s[x].at)
    BY <1>1 DEF Children, Sound
  <2>2. t[at[x]].at = Moved(at, s[x].at)
    BY <1>2, <1>3
  <2>3. /\ Elements(Moved(at, s[x].at)) = {at[y] : y \in Elements(s[x].at)}
        /\ Once(Moved(at, s[x].at))
    BY <2>1, MovedOK
  <2> QED BY <2>2, <2>3 DEF Children
<1>5. HeapOK(t)
  <2>1. at \in Surjection(X, E)
    BY DEF Surjection
  <2>2. IsFiniteSet(E)
    BY <1>1, <2>1, FS_Surjection DEF HeapOK
  <2>3. E \subseteq Nat \ {0}
    OBVIOUS
  <2>4. \A c \in E : t[c] \in CellsOver(E)
    BY <1>2, <1>3
  <2> HIDE DEF E
  <2> QED BY <1>2, <2>2, <2>3, <2>4 DEF HeapOK
<1>6. T \subseteq E /\ \A c \in T : t[c] # Deleted
  <2>1. \A x \in C : x \in X /\ s[x] # Deleted
    BY <1>1 DEF Sound
  <2>2. \A x \in C : t[at[x]] # Deleted
    BY <1>2, <1>3, <2>1
  <2> QED BY <2>1, <2>2
<1>7. \A c \in E : \E x \in X : c = at[x]
  OBVIOUS
<1>8. ASSUME NEW d \in E, NEW c \in Children(t, d)
      PROVE  c \in E /\ t[c] # Deleted /\ c \notin T
  <2>1. PICK x \in X : d = at[x]
    BY <1>7
  <2>2. PICK y \in Children(s, x) : c = at[y]
    BY <1>4, <1>8, <2>1
  <2>3. y \in X /\ s[y] # Deleted /\ y \notin C
    BY <2>2 DEF Sound
  <2>4. c \notin T
    BY <1>1, <2>2, <2>3
  <2>5. t[c] # Deleted
    BY <1>2, <1>3, <2>2, <2>3
  <2> QED BY <2>2, <2>3, <2>4, <2>5
<1>9. \A d \in E : Once(t[d].at)
  BY <1>4, <1>7
<1>10. ASSUME NEW d \in E, NEW e \in E, d # e PROVE Children(t, d) \cap Children(t, e) = {}
  <2>1. PICK x \in X : d = at[x]
    BY <1>7
  <2>2. PICK y \in X : e = at[y]
    BY <1>7
  <2>3. Children(s, x) \cap Children(s, y) = {}
    BY <1>10, <2>1, <2>2 DEF Sound
  <2>4. ASSUME NEW c, c \in Children(t, d), c \in Children(t, e) PROVE FALSE
    <3>1. PICK u \in Children(s, x) : c = at[u]
      BY <1>4, <2>1, <2>4
    <3>2. PICK v \in Children(s, y) : c = at[v]
      BY <1>4, <2>2, <2>4
    <3>3. u = v
      BY <1>1, <3>1, <3>2
    <3> QED BY <2>3, <3>1, <3>2, <3>3
  <2> QED BY <2>4
<1>11. ASSUME NEW c \in E, t[c] # Deleted PROVE c \in T \/ \E d \in E : c \in Children(t, d)
  <2>1. PICK x \in X : c = at[x]
    BY <1>7
  <2>2. s[x] # Deleted
    <3>1. ASSUME s[x] = Deleted PROVE copy(x) = Deleted
      <4>1. Moved(at, <<>>) = <<>>
        BY DEF Moved
      <4> QED BY <3>1, <4>1 DEF Deleted, copy
    <3> QED BY <1>2, <1>11, <2>1, <3>1
  <2>3. x \in C \/ \E d \in X : x \in Children(s, d)
    BY <2>2 DEF Sound
  <2>4. CASE x \in C
    BY <2>1, <2>4
  <2>5. ASSUME NEW d \in X, x \in Children(s, d) PROVE c \in Children(t, at[d])
    BY <1>4, <2>1, <2>5
  <2> QED BY <2>3, <2>4, <2>5
<1>12. Ordered(t)
  <2> SUFFICES ASSUME NEW S \in SUBSET E, S # {}
               PROVE  \E c \in S : \A d \in S : c \notin Children(t, d)
    BY <1>2 DEF Ordered
  <2> DEFINE S0 == {x \in X : at[x] \in S}
  <2>1. S0 \in SUBSET X /\ S0 # {}
    OBVIOUS
  <2>2. PICK y \in S0 : \A d \in S0 : y \notin Children(s, d)
    BY <2>1 DEF Ordered, Sound
  <2>3. ASSUME NEW d \in S, at[y] \in Children(t, d) PROVE FALSE
    <3>1. PICK x \in X : d = at[x]
      BY <1>7
    <3>2. PICK v \in Children(s, x) : at[y] = at[v]
      BY <1>4, <2>3, <3>1
    <3>3. v = y /\ x \in S0
      BY <1>1, <2>2, <3>1, <3>2
    <3> QED BY <2>2, <3>2, <3>3
  <2> QED BY <2>2, <2>3
<1> HIDE DEF E, T
<1>13. Sound(t, T)
  BY <1>2, <1>5, <1>6, <1>8, <1>9, <1>10, <1>11, <1>12 DEF Sound
<1> QED BY <1>2, <1>13 DEF t, E, T

\* copy is what CloneAll makes of cells in h: new cells beside h, that only the places of
\* the copy own, which are empty where those of the original are.
Cloned(h, cells, copy) ==
    \E t :
        /\ copy.heap = With(h, t) /\ DOMAIN h \cap DOMAIN t = {}
        /\ Sound(t, Elements(copy.cells))
        /\ copy.cells \in [DOMAIN cells -> DOMAIN t \cup {Nothing}]
        /\ \A i \in DOMAIN cells : copy.cells[i] = Nothing <=> cells[i] = Nothing
        /\ Once(copy.cells)

\* Cells of which none contains another of them, and all that they lead to, are cloned
\* where they live as they live in a sound heap.
LEMMA CloneAllOK ==
    ASSUME NEW h0, NEW R, Sound(h0, R), NEW h, DOMAIN h = DOMAIN h0,
           \A d \in DOMAIN h : Children(h, d) \subseteq DOMAIN h,
           NEW cells, Elements(cells) \subseteq DOMAIN h, Once(cells),
           \A x \in Reach(h, Elements(cells)) :
              h[x] = h0[x] /\ h[x] # Deleted /\ Children(h, x) \cap Elements(cells) = {}
    PROVE  Cloned(h, cells, CloneAll(h, cells))
<1> DEFINE C == Elements(cells)
           A == Reach(h, C)
           g == [x \in A |-> h[x]]
           at == Fresh(h, A)
<1>1. C \subseteq A /\ A \subseteq DOMAIN h
  BY ReachLeast
<1>2. Sound(g, C) /\ DOMAIN g = A
  BY TreeOK
<1>3. /\ at \in [A -> (Nat \ {0}) \ DOMAIN h]
      /\ \A x, y \in A : at[x] = at[y] => x = y
  <2>1. IsFiniteSet(DOMAIN h) /\ DOMAIN h \subseteq Nat \ {0}
    BY DEF Sound, HeapOK
  <2>2. IsFiniteSet(A)
    BY <1>1, <2>1, FS_Subset
  <2> HIDE DEF A
  <2> QED BY <2>1, <2>2, FreshOK
<1>4. \A x \in A : g[x] = h[x]
  OBVIOUS
<1> HIDE DEF A, g, at, C
<1>5. Copies(h, at) = Copies(g, at)
  <2>1. DOMAIN at = A
    BY <1>3
  <2>2. \A c \in {at[x] : x \in DOMAIN at} :
           (CHOOSE x \in DOMAIN at : at[x] = c) \in A
    BY <2>1
  <2>3. ASSUME NEW c \in {at[x] : x \in DOMAIN at}, NEW y, y = CHOOSE x \in DOMAIN at : at[x] = c
        PROVE  [h[y] EXCEPT !.at = Moved(at, @)] = [g[y] EXCEPT !.at = Moved(at, @)]
    BY <1>4, <2>2, <2>3
  <2> QED BY <2>3 DEF Copies
<1>6. at \in [DOMAIN g -> Nat \ {0}] /\ \A x, y \in DOMAIN g : at[x] = at[y] => x = y
  BY <1>2, <1>3
<1> DEFINE t == Copies(g, at)
           E == {at[x] : x \in DOMAIN g}
           moved == Moved(at, cells)
<1>7. Sound(t, {at[x] : x \in C}) /\ DOMAIN t = E
  BY <1>2, <1>6, CopiesOK
<1>8. /\ moved \in [DOMAIN cells -> E \cup {Nothing}]
      /\ Elements(moved) = {at[x] : x \in C}
      /\ \A i \in DOMAIN cells : moved[i] = Nothing <=> cells[i] = Nothing
      /\ Once(moved)
  <2>1. Elements(cells) \subseteq DOMAIN g
    BY <1>1, <1>2 DEF C
  <2> QED BY <1>6, <2>1, MovedOK DEF C
<1>9. DOMAIN h \cap E = {}
  BY <1>2, <1>3
<1>10. CloneAll(h, cells) = [heap |-> With(h, t), cells |-> moved]
  BY <1>5 DEF CloneAll, at, A, C
<1>11. CloneAll(h, cells).heap = With(h, t) /\ CloneAll(h, cells).cells = moved
  BY <1>10
<1> HIDE DEF t, E, moved
<1> QED BY <1>7, <1>8, <1>9, <1>11 DEF Cloned

\* No cell that the elements of a container lead to contains one of them.
LEMMA ElementsApart ==
    ASSUME NEW h, NEW R, Sound(h, R), NEW b \in DOMAIN h, NEW C, C \subseteq Children(h, b)
    PROVE  /\ C \subseteq DOMAIN h
           /\ \A x \in Reach(h, C) : h[x] # Deleted /\ Children(h, x) \cap C = {}
<1>1. \A d \in DOMAIN h : Children(h, d) \subseteq DOMAIN h
  BY ChildrenAreCells DEF Sound
<1>2. C \subseteq DOMAIN h /\ \A c \in C : h[c] # Deleted
  BY <1>1 DEF Sound
<1>3. Reach(h, C) \subseteq DOMAIN h
  BY <1>1, <1>2, ReachLeast
<1>4. b \notin Reach(h, C)
  BY NoWayBack
<1>5. \A x \in Reach(h, C) : h[x] # Deleted
  BY <1>2, ReachLives
<1>6. \A x \in Reach(h, C) : Children(h, x) \cap C = {}
  BY <1>3, <1>4 DEF Sound
<1> QED BY <1>2, <1>5, <1>6

\* Elements of a container are cloned.
LEMMA CloneElements ==
    ASSUME NEW h, NEW R, Sound(h, R), NEW b \in DOMAIN h,
           NEW cells, Elements(cells) \subseteq Children(h, b), Once(cells)
    PROVE  Cloned(h, cells, CloneAll(h, cells))
<1>1. \A d \in DOMAIN h : Children(h, d) \subseteq DOMAIN h
  BY ChildrenAreCells DEF Sound
<1>2. /\ Elements(cells) \subseteq DOMAIN h
      /\ \A x \in Reach(h, Elements(cells)) : h[x] # Deleted /\ Children(h, x) \cap Elements(cells) = {}
  BY ElementsApart
<1> QED BY <1>1, <1>2, CloneAllOK

\* A value is cloned, when all that it leads to lives as it lives in a sound heap.
LEMMA CloneOK ==
    ASSUME NEW h0, NEW R, Sound(h0, R), NEW h, DOMAIN h = DOMAIN h0,
           \A d \in DOMAIN h : Children(h, d) \subseteq DOMAIN h,
           NEW c \in DOMAIN h,
           \A x \in Reach(h, {c}) : h[x] = h0[x] /\ h[x] # Deleted
    PROVE  \E t : /\ Clone(h, c).heap = With(h, t) /\ DOMAIN h \cap DOMAIN t = {}
                  /\ Sound(t, {Clone(h, c).cell})
<1> DEFINE A == Reach(h, {c})
           copy == CloneAll(h, <<c>>)
<1>1. c \in Nat \ {0}
  BY DEF Sound, HeapOK
<1>2. c # Nothing
  BY <1>1, ContainersAssumption DEF ContainersAssumption
<1>3. Elements(<<c>>) = {c} /\ Once(<<c>>) /\ DOMAIN <<c>> = {1} /\ <<c>>[1] = c
  BY <1>2 DEF Elements, Once
<1>4. {c} \subseteq A /\ A \subseteq DOMAIN h
  BY ReachLeast
<1>5. \A x \in A : Children(h, x) \cap {c} = {}
  <2>1. A \in SUBSET DOMAIN h0 /\ A # {}
    BY <1>4
  <2>2. PICK y \in A : \A d \in A : y \notin Children(h0, d)
    BY <2>1 DEF Sound, Ordered
  <2>3. \A d \in A : Children(h0, d) = Children(h, d)
    BY DEF Children
  <2>4. \A x \in A : x \notin {c} => \E d \in A : x \in Children(h, d)
    BY ReachOrigin
  <2>5. y = c
    BY <2>2, <2>3, <2>4
  <2> HIDE DEF A
  <2> QED BY <2>2, <2>3, <2>5
<1>6. Cloned(h, <<c>>, copy)
  BY <1>3, <1>5, CloneAllOK
<1>7. Clone(h, c).heap = copy.heap /\ Clone(h, c).cell = copy.cells[1]
  BY DEF Clone
<1> HIDE DEF copy
<1>8. PICK t : /\ copy.heap = With(h, t) /\ DOMAIN h \cap DOMAIN t = {}
               /\ Sound(t, Elements(copy.cells))
               /\ DOMAIN copy.cells = {1} /\ copy.cells[1] # Nothing
  BY <1>2, <1>3, <1>6 DEF Cloned
<1>9. Elements(copy.cells) = {copy.cells[1]}
  BY <1>8 DEF Elements
<1> QED BY <1>7, <1>8, <1>9

\* The kind of a cell tells what its places are.
LEMMA KindOK ==
    ASSUME NEW D, NEW cell \in CellsOver(D)
    PROVE  /\ cell.kind = "array" => cell.at \in Seq(D) /\ cell # Deleted
           /\ cell.kind = "dict" => cell.at \in [DOMAIN Keys -> D \cup {Nothing}] /\ cell # Deleted
<1>1. CASE cell \in {TextCell, Deleted}
  BY <1>1 DEF TextCell, Deleted
<1>2. ASSUME NEW s \in Seq(D), cell = Array(s)
      PROVE  cell.kind = "array" /\ cell.at = s /\ cell # Deleted
  BY <1>2 DEF Array, Deleted
<1>3. ASSUME NEW e \in [DOMAIN Keys -> D \cup {Nothing}], cell = Dict(e)
      PROVE  cell.kind = "dict" /\ cell.at = e /\ cell # Deleted
  BY <1>3 DEF Dict, Deleted
<1> QED BY <1>1, <1>2, <1>3 DEF CellsOver

\* Arrays and dicts are no deleted values.
LEMMA ContentOK ==
    ASSUME NEW D
    PROVE  /\ \A s \in Seq(D) : /\ Array(s) \in CellsOver(D) /\ Array(s) # Deleted
                                /\ Array(s).at = s
           /\ \A e \in [DOMAIN Keys -> D \cup {Nothing}] :
                 /\ Dict(e) \in CellsOver(D) /\ Dict(e) # Deleted /\ Dict(e).at = e
BY DEF CellsOver, Array, Dict, Deleted

\* One sequence after the other.
LEMMA Joined ==
    ASSUME NEW E, NEW u \in Seq(E), NEW v \in Seq(E)
    PROVE  /\ u \o v \in Seq(E) /\ DOMAIN (u \o v) = 1 .. Len(u) + Len(v)
           /\ \A j \in 1 .. Len(u) : (u \o v)[j] = u[j]
           /\ \A j \in 1 .. Len(v) : (u \o v)[Len(u) + j] = v[j]
<1>1. u \o v \in Seq(E) /\ Len(u \o v) = Len(u) + Len(v) /\ Len(u) \in Nat /\ Len(v) \in Nat
  OBVIOUS
<1>2. ASSUME NEW j \in 1 .. Len(u) PROVE (u \o v)[j] = u[j]
  OBVIOUS
<1>3. ASSUME NEW j \in 1 .. Len(v) PROVE (u \o v)[Len(u) + j] = v[j]
  <2>1. /\ Len(u) + j \in 1 .. Len(u) + Len(v) /\ ~(Len(u) + j <= Len(u))
        /\ (Len(u) + j) - Len(u) = j
    BY <1>1
  <2> QED BY <2>1, ConcatProperties
<1>4. DOMAIN (u \o v) = 1 .. Len(u \o v)
  BY <1>1, LenProperties
<1> QED BY <1>1, <1>2, <1>3, <1>4

\* An element is put at a place of an array, and the ones from there on move up.
LEMMA InsertPlaces ==
    ASSUME NEW D, NEW s \in Seq(D), Once(s),
           NEW E, D \subseteq E, Nothing \notin E, NEW x \in E, x \notin Elements(s),
           NEW i \in 0 .. Len(s)
    PROVE  /\ InsertAt(s, i + 1, x) \in Seq(E) /\ Once(InsertAt(s, i + 1, x))
           /\ Elements(InsertAt(s, i + 1, x)) = Elements(s) \cup {x}
<1> DEFINE n == Len(s)
           p == InsertAt(s, i + 1, x)
<1>1. n \in Nat /\ i \in 0 .. n /\ s \in Seq(E)
  <2>1. s \in Seq(E)
    BY SeqMonotonic
  <2> QED BY <2>1
<1>2. /\ p \in Seq(E) /\ DOMAIN p = 1 .. n + 1 /\ p[i + 1] = x
      /\ \A j \in 1 .. i : p[j] = s[j]
      /\ \A j \in i + 1 .. n : p[j + 1] = s[j]
  <2>1. /\ SubSeq(s, 1, i) \in Seq(E) /\ Len(SubSeq(s, 1, i)) = i
        /\ \A j \in 1 .. i : SubSeq(s, 1, i)[j] = s[j]
    BY <1>1
  <2>2. /\ SubSeq(s, i + 1, n) \in Seq(E) /\ Len(SubSeq(s, i + 1, n)) = n - i
        /\ \A j \in 1 .. n - i : SubSeq(s, i + 1, n)[j] = s[i + j]
    BY <1>1
  <2>3. (i + 1) - 1 = i
    BY <1>1
  <2>4. p = SubSeq(s, 1, i) \o <<x>> \o SubSeq(s, i + 1, n)
    BY <2>3 DEF InsertAt
  <2> DEFINE u == SubSeq(s, 1, i)
             v == SubSeq(s, i + 1, n)
  <2> HIDE DEF u, v, n
  <2>5. /\ u \in Seq(E) /\ v \in Seq(E) /\ Len(u) = i /\ Len(v) = n - i /\ i \in Nat /\ n - i \in Nat
        /\ p = u \o <<x>> \o v
    <3>1. i \in Nat /\ n - i \in Nat
      BY <2>1, <2>2
    <3>2. u \in Seq(E) /\ Len(u) = i
      BY <1>1, <2>1, <2>2 DEF u
    <3>3. v \in Seq(E) /\ Len(v) = n - i
      BY <1>1, <2>1, <2>2 DEF v
    <3>4. p = u \o <<x>> \o v
      BY <2>4 DEF u, v
    <3> QED BY <3>1, <3>2, <3>3, <3>4
  <2>6. /\ u \o <<x>> \in Seq(E) /\ Len(u \o <<x>>) = i + 1 /\ (u \o <<x>>)[i + 1] = x
        /\ \A j \in 1 .. i : (u \o <<x>>)[j] = u[j]
    BY <2>5
  <2> DEFINE w == u \o <<x>>
  <2> HIDE DEF w, p
  <2>7. /\ w \in Seq(E) /\ Len(w) = i + 1 /\ w[i + 1] = x /\ p = w \o v /\ i + 1 \in Nat
        /\ \A j \in 1 .. i : w[j] = u[j]
    BY <2>5, <2>6 DEF w
  <2>8. /\ p \in Seq(E) /\ DOMAIN p = 1 .. Len(w) + Len(v)
        /\ \A j \in 1 .. Len(w) : p[j] = w[j]
        /\ \A j \in 1 .. Len(v) : p[Len(w) + j] = v[j]
    <3>1. w \in Seq(E) /\ v \in Seq(E) /\ p = w \o v
      BY <2>5, <2>7
    <3> QED BY ONLY <3>1, Joined
  <2>9. /\ p \in Seq(E) /\ DOMAIN p = 1 .. (i + 1) + (n - i)
        /\ \A j \in 1 .. i + 1 : p[j] = w[j]
        /\ \A j \in 1 .. n - i : p[i + 1 + j] = v[j]
    <3>1. Len(w) = i + 1 /\ Len(v) = n - i
      BY <2>5, <2>7
    <3> QED BY <2>8, <3>1
  <2>10. /\ (i + 1) + (n - i) = n + 1 /\ i + 1 \in 1 .. i + 1
         /\ \A j \in 1 .. i : j \in 1 .. i + 1
    BY <1>1
  <2>11. ASSUME NEW j \in i + 1 .. n PROVE p[j + 1] = s[j]
    <3>1. j - i \in 1 .. n - i /\ i + 1 + (j - i) = j + 1 /\ i + (j - i) = j
      BY <1>1
    <3>2. v[j - i] = s[i + (j - i)]
      BY <2>2, <3>1 DEF v
    <3>3. p[i + 1 + (j - i)] = v[j - i]
      BY <2>9, <3>1
    <3> QED BY <3>1, <3>2, <3>3
  <2>12. \A j \in 1 .. i : u[j] = s[j]
    BY <2>1 DEF u
  <2>13. \A j \in 1 .. i : p[j] = s[j]
    BY <2>7, <2>9, <2>10, <2>12
  <2>14. DOMAIN p = 1 .. n + 1
    BY <2>9, <2>10
  <2>15. p[i + 1] = x
    BY <2>7, <2>9, <2>10
  <2> QED BY <2>9, <2>11, <2>13, <2>14, <2>15
<1>3. /\ \A j \in 1 .. n : s[j] \in D /\ s[j] # Nothing /\ s[j] # x
      /\ x # Nothing /\ DOMAIN s = 1 .. n
  <2>1. \A j \in 1 .. n : s[j] \in D
    OBVIOUS
  <2>2. DOMAIN s = 1 .. n
    OBVIOUS
  <2> HIDE DEF n
  <2> QED BY <2>1, <2>2 DEF Elements
<1> HIDE DEF n, p
<1>4. ASSUME NEW j \in 1 .. n + 1
      PROVE  \/ j \in 1 .. i /\ p[j] = s[j] /\ j \in 1 .. n
             \/ j = i + 1 /\ p[j] = x
             \/ j - 1 \in i + 1 .. n /\ p[j] = s[j - 1] /\ j - 1 \in 1 .. n
  <2>1. CASE j <= i
    BY <1>1, <1>2, <2>1
  <2>2. CASE j = i + 1
    BY <1>2, <2>2
  <2>3. CASE j > i + 1
    <3>1. j - 1 \in i + 1 .. n /\ (j - 1) + 1 = j /\ j - 1 \in 1 .. n
      BY <1>1, <2>3
    <3> QED BY <1>2, <3>1
  <2> QED BY <1>1, <2>1, <2>2, <2>3
<1>5. Elements(p) = Elements(s) \cup {x}
  <2>1. ASSUME NEW c \in Elements(p) PROVE c \in Elements(s) \cup {x}
    <3>1. PICK j \in 1 .. n + 1 : c = p[j] /\ c # Nothing
      BY <1>2, <2>1 DEF Elements
    <3> QED BY <1>3, <1>4, <3>1 DEF Elements
  <2>2. ASSUME NEW j \in 1 .. n PROVE s[j] \in Elements(p)
    <3>1. \E k \in 1 .. n + 1 : p[k] = s[j]
      <4>1. CASE j <= i
        <5>1. j \in 1 .. i /\ j \in 1 .. n + 1
          BY <1>1, <4>1
        <5> QED BY <1>2, <5>1
      <4>2. CASE j > i
        <5>1. j \in i + 1 .. n /\ j + 1 \in 1 .. n + 1
          BY <1>1, <4>2
        <5> QED BY <1>2, <5>1
      <4> QED BY <1>1, <4>1, <4>2
    <3> QED BY <1>2, <1>3, <3>1 DEF Elements
  <2>3. x \in Elements(p)
    <3>1. i + 1 \in 1 .. n + 1
      BY <1>1
    <3> QED BY <1>2, <1>3, <3>1 DEF Elements
  <2>4. \A c \in Elements(s) : \E j \in 1 .. n : c = s[j]
    BY <1>3 DEF Elements
  <2> QED BY <2>1, <2>2, <2>3, <2>4
<1>6. Once(p)
  <2> SUFFICES ASSUME NEW j \in 1 .. n + 1, NEW k \in 1 .. n + 1, p[j] = p[k] PROVE j = k
    BY <1>2 DEF Once
  <2>1. \A a, b \in 1 .. n : s[a] = s[b] => a = b
    BY <1>3 DEF Once
  <2>2. ASSUME j \in 1 .. i, p[j] = s[j], j \in 1 .. n PROVE j = k
    <3>1. CASE k \in 1 .. i /\ p[k] = s[k] /\ k \in 1 .. n
      BY <2>1, <2>2, <3>1
    <3>2. CASE k = i + 1 /\ p[k] = x
      BY <1>3, <2>2, <3>2
    <3>3. CASE k - 1 \in i + 1 .. n /\ p[k] = s[k - 1] /\ k - 1 \in 1 .. n
      <4>1. j = k - 1
        BY <2>1, <2>2, <3>3
      <4> QED BY <1>1, <2>2, <3>3, <4>1
    <3> QED BY <1>4, <3>1, <3>2, <3>3
  <2>3. ASSUME j = i + 1, p[j] = x PROVE j = k
    BY <1>3, <1>4, <2>3
  <2>4. ASSUME j - 1 \in i + 1 .. n, p[j] = s[j - 1], j - 1 \in 1 .. n PROVE j = k
    <3>1. CASE k \in 1 .. i /\ p[k] = s[k] /\ k \in 1 .. n
      <4>1. j - 1 = k
        BY <2>1, <2>4, <3>1
      <4> QED BY <1>1, <2>4, <3>1, <4>1
    <3>2. CASE k = i + 1 /\ p[k] = x
      BY <1>3, <2>4, <3>2
    <3>3. CASE k - 1 \in i + 1 .. n /\ p[k] = s[k - 1] /\ k - 1 \in 1 .. n
      <4>1. j - 1 = k - 1
        BY <2>1, <2>4, <3>3
      <4> QED BY <1>1, <4>1
    <3> QED BY <1>4, <3>1, <3>2, <3>3
  <2> QED BY <1>4, <2>2, <2>3, <2>4
<1> QED BY <1>2, <1>5, <1>6 DEF p

\* An element leaves an array, and the ones after it move down.
LEMMA RemovePlaces ==
    ASSUME NEW D, D \subseteq Nat \ {0}, NEW s \in Seq(D), Once(s), NEW i \in DOMAIN s
    PROVE  /\ RemoveAt(s, i) \in Seq(D) /\ Once(RemoveAt(s, i))
           /\ Elements(RemoveAt(s, i)) = Elements(s) \ {s[i]}
<1> DEFINE n == Len(s)
           p == RemoveAt(s, i)
<1>1. n \in Nat /\ i \in 1 .. n
  OBVIOUS
<1>2. /\ p \in Seq(D) /\ DOMAIN p = 1 .. n - 1
      /\ \A j \in 1 .. i - 1 : p[j] = s[j]
      /\ \A j \in i .. n - 1 : p[j] = s[j + 1]
  <2> DEFINE u == SubSeq(s, 1, i - 1)
             v == SubSeq(s, i + 1, n)
  <2>1. u \in Seq(D) /\ Len(u) = i - 1 /\ \A j \in 1 .. i - 1 : u[j] = s[j]
    BY <1>1
  <2>2. v \in Seq(D) /\ Len(v) = n - i /\ \A j \in 1 .. n - i : v[j] = s[i + j]
    BY <1>1
  <2>3. p = u \o v
    BY DEF RemoveAt
  <2> HIDE DEF u, v, n, p
  <2>4. /\ p \in Seq(D) /\ DOMAIN p = 1 .. Len(u) + Len(v)
        /\ \A j \in 1 .. Len(u) : p[j] = u[j]
        /\ \A j \in 1 .. Len(v) : p[Len(u) + j] = v[j]
    <3>1. u \in Seq(D) /\ v \in Seq(D) /\ p = u \o v
      BY <2>1, <2>2, <2>3
    <3> QED BY ONLY <3>1, Joined
  <2>5. (i - 1) + (n - i) = n - 1 /\ i - 1 \in Nat /\ n - i \in Nat
    BY <1>1
  <2>6. /\ p \in Seq(D) /\ DOMAIN p = 1 .. n - 1
        /\ \A j \in 1 .. i - 1 : p[j] = u[j]
        /\ \A j \in 1 .. n - i : p[(i - 1) + j] = v[j]
    <3>1. Len(u) = i - 1 /\ Len(v) = n - i
      BY <2>1, <2>2
    <3> QED BY <2>4, <2>5, <3>1
  <2>7. ASSUME NEW j \in i .. n - 1 PROVE p[j] = s[j + 1]
    <3>1. j + 1 - i \in 1 .. n - i /\ (i - 1) + (j + 1 - i) = j /\ i + (j + 1 - i) = j + 1
      BY <1>1
    <3>2. v[j + 1 - i] = s[i + (j + 1 - i)]
      BY <2>2, <3>1
    <3>3. p[(i - 1) + (j + 1 - i)] = v[j + 1 - i]
      BY <2>6, <3>1
    <3> QED BY <3>1, <3>2, <3>3
  <2> QED BY <2>1, <2>6, <2>7
<1>3. /\ \A j \in 1 .. n : s[j] \in D /\ s[j] # Nothing
      /\ DOMAIN s = 1 .. n
  <2>1. \A j \in 1 .. n : s[j] \in D
    OBVIOUS
  <2>2. DOMAIN s = 1 .. n
    OBVIOUS
  <2> HIDE DEF n
  <2> QED BY <2>1, <2>2, ContainersAssumption DEF ContainersAssumption
<1> HIDE DEF n, p
<1>4. ASSUME NEW j \in 1 .. n - 1
      PROVE  \/ j \in 1 .. i - 1 /\ p[j] = s[j] /\ j \in 1 .. n
             \/ j \in i .. n - 1 /\ p[j] = s[j + 1] /\ j + 1 \in 1 .. n
  <2>1. CASE j <= i - 1
    <3>1. j \in 1 .. i - 1 /\ j \in 1 .. n
      BY <1>1, <2>1
    <3> QED BY <1>2, <3>1
  <2>2. CASE j > i - 1
    <3>1. j \in i .. n - 1 /\ j + 1 \in 1 .. n
      BY <1>1, <2>2
    <3> QED BY <1>2, <3>1
  <2> QED BY <1>1, <2>1, <2>2
<1>5. \A a, b \in 1 .. n : s[a] = s[b] => a = b
  BY <1>3 DEF Once
<1>6. Elements(p) = Elements(s) \ {s[i]}
  <2>1. ASSUME NEW j \in 1 .. n - 1 PROVE p[j] \in Elements(s) \ {s[i]}
    <3>1. CASE j \in 1 .. i - 1 /\ p[j] = s[j] /\ j \in 1 .. n
      <4>1. j # i
        BY <1>1, <3>1
      <4> QED BY <1>1, <1>3, <1>5, <3>1, <4>1 DEF Elements
    <3>2. CASE j \in i .. n - 1 /\ p[j] = s[j + 1] /\ j + 1 \in 1 .. n
      <4>1. j + 1 # i
        BY <1>1, <3>2
      <4> QED BY <1>1, <1>3, <1>5, <3>2, <4>1 DEF Elements
    <3> QED BY <1>4, <3>1, <3>2
  <2>2. ASSUME NEW j \in 1 .. n, j # i PROVE s[j] \in Elements(p)
    <3>1. \E k \in 1 .. n - 1 : p[k] = s[j]
      <4>1. CASE j < i
        <5>1. j \in 1 .. i - 1 /\ j \in 1 .. n - 1
          BY <1>1, <4>1
        <5> QED BY <1>2, <5>1
      <4>2. CASE j > i
        <5>1. j - 1 \in i .. n - 1 /\ j - 1 \in 1 .. n - 1 /\ (j - 1) + 1 = j
          BY <1>1, <4>2
        <5> QED BY <1>2, <5>1
      <4> QED BY <1>1, <2>2, <4>1, <4>2
    <3> QED BY <1>2, <1>3, <3>1 DEF Elements
  <2>3. \A c \in Elements(p) : \E j \in 1 .. n - 1 : c = p[j]
    BY <1>2 DEF Elements
  <2>4. \A c \in Elements(s) : \E j \in 1 .. n : c = s[j]
    BY <1>3 DEF Elements
  <2> QED BY <2>1, <2>2, <2>3, <2>4
<1>7. Once(p)
  <2> SUFFICES ASSUME NEW j \in 1 .. n - 1, NEW k \in 1 .. n - 1, p[j] = p[k] PROVE j = k
    BY <1>2 DEF Once
  <2>1. CASE j \in 1 .. i - 1 /\ p[j] = s[j] /\ j \in 1 .. n
    <3>1. CASE k \in 1 .. i - 1 /\ p[k] = s[k] /\ k \in 1 .. n
      BY <1>5, <2>1, <3>1
    <3>2. CASE k \in i .. n - 1 /\ p[k] = s[k + 1] /\ k + 1 \in 1 .. n
      <4>1. j = k + 1
        BY <1>5, <2>1, <3>2
      <4> QED BY <1>1, <2>1, <3>2, <4>1
    <3> QED BY <1>4, <3>1, <3>2
  <2>2. CASE j \in i .. n - 1 /\ p[j] = s[j + 1] /\ j + 1 \in 1 .. n
    <3>1. CASE k \in 1 .. i - 1 /\ p[k] = s[k] /\ k \in 1 .. n
      <4>1. j + 1 = k
        BY <1>5, <2>2, <3>1
      <4> QED BY <1>1, <2>2, <3>1, <4>1
    <3>2. CASE k \in i .. n - 1 /\ p[k] = s[k + 1] /\ k + 1 \in 1 .. n
      <4>1. j + 1 = k + 1
        BY <1>5, <2>2, <3>2
      <4> QED BY <1>1, <4>1
    <3> QED BY <1>4, <3>1, <3>2
  <2> QED BY <1>4, <2>1, <2>2
<1> QED BY <1>2, <1>6, <1>7 DEF p

\* Places taken from different places of s.
LEMMA PlacesFrom ==
    ASSUME NEW s, Once(s), NEW q,
           \E f \in [DOMAIN q -> DOMAIN s] :
              /\ \A i, j \in DOMAIN q : f[i] = f[j] => i = j
              /\ \A i \in DOMAIN q : q[i] = s[f[i]]
    PROVE  Elements(q) \subseteq Elements(s) /\ Once(q)
<1> PICK f \in [DOMAIN q -> DOMAIN s] :
              /\ \A i, j \in DOMAIN q : f[i] = f[j] => i = j
              /\ \A i \in DOMAIN q : q[i] = s[f[i]]
  OBVIOUS
<1>1. \A i \in DOMAIN q : f[i] \in DOMAIN s
  OBVIOUS
<1>2. Elements(q) \subseteq Elements(s)
  BY <1>1 DEF Elements
<1>3. Once(q)
  BY <1>1 DEF Once
<1> QED BY <1>2, <1>3

\* An array backwards.
LEMMA ReversePlaces ==
    ASSUME NEW D, NEW s \in Seq(D), Once(s)
    PROVE  /\ Reverse(s) \in Seq(D) /\ Once(Reverse(s))
           /\ Elements(Reverse(s)) \subseteq Elements(s)
<1> DEFINE n == Len(s)
           f == [i \in 1 .. n |-> (n - i) + 1]
<1>1. n \in Nat /\ DOMAIN s = 1 .. n /\ \A i \in 1 .. n : s[i] \in D
  OBVIOUS
<1>2. /\ f \in [1 .. n -> 1 .. n]
      /\ \A i, j \in 1 .. n : f[i] = f[j] => i = j
  <2> HIDE DEF n
  <2> QED BY <1>1
<1>3. /\ DOMAIN Reverse(s) = 1 .. n /\ Reverse(s) \in [1 .. n -> D]
      /\ \A i \in 1 .. n : Reverse(s)[i] = s[f[i]]
  <2>1. Reverse(s) = [i \in 1 .. n |-> s[(n - i) + 1]]
    BY DEF Reverse
  <2>2. \A i \in 1 .. n : (n - i) + 1 \in 1 .. n
    <3> HIDE DEF n
    <3> QED BY <1>1
  <2> HIDE DEF n
  <2> QED BY <1>1, <2>1, <2>2
<1>4. Reverse(s) \in Seq(D)
  <2> HIDE DEF n
  <2> QED BY <1>1, <1>3, SeqDef
<1>5. Once(Reverse(s)) /\ Elements(Reverse(s)) \subseteq Elements(s)
  <2> HIDE DEF n, f
  <2>1. /\ f \in [DOMAIN Reverse(s) -> DOMAIN s]
        /\ \A i, j \in DOMAIN Reverse(s) : f[i] = f[j] => i = j
        /\ \A i \in DOMAIN Reverse(s) : Reverse(s)[i] = s[f[i]]
    BY <1>1, <1>2, <1>3
  <2>2. \E g \in [DOMAIN Reverse(s) -> DOMAIN s] :
           /\ \A i, j \in DOMAIN Reverse(s) : g[i] = g[j] => i = j
           /\ \A i \in DOMAIN Reverse(s) : Reverse(s)[i] = s[g[i]]
    BY <2>1
  <2> QED BY <2>2, PlacesFrom
<1> QED BY <1>4, <1>5

\* A slice is a part of the array, whatever the bounds.
LEMMA SlicePlaces ==
    ASSUME NEW D, NEW s \in Seq(D), Once(s), NEW from \in Int, NEW to \in Int
    PROVE  /\ Slice(s, from, to) \in Seq(D) /\ Once(Slice(s, from, to))
           /\ Elements(Slice(s, from, to)) \subseteq Elements(s)
<1> DEFINE m == Max({from, 0}) + 1
           n == Min({to, Len(s)})
           q == Slice(s, from, to)
<1>1. Len(s) \in Nat /\ DOMAIN s = 1 .. Len(s) /\ \A i \in 1 .. Len(s) : s[i] \in D
  OBVIOUS
<1>2. m \in Nat \ {0}
  <2>1. \E x \in {from, 0} : \A y \in {from, 0} : x >= y
    OBVIOUS
  <2>2. Max({from, 0}) \in {from, 0} /\ \A y \in {from, 0} : Max({from, 0}) >= y
    BY <2>1 DEF Max
  <2> HIDE DEF m
  <2>3. Max({from, 0}) \in Nat
    BY <2>2
  <2> QED BY <2>3 DEF m
<1>3. n \in Int /\ n <= Len(s)
  <2>1. \E x \in {to, Len(s)} : \A y \in {to, Len(s)} : x <= y
    BY <1>1
  <2>2. n \in {to, Len(s)} /\ \A y \in {to, Len(s)} : n <= y
    BY <2>1 DEF Min
  <2> HIDE DEF n
  <2>3. n \in Int
    <3>1. n = to \/ n = Len(s)
      BY <2>2, Zenon
    <3> QED BY <1>1, <3>1
  <2>4. n <= Len(s)
    BY <2>2, Zenon
  <2> QED BY <2>3, <2>4
<1>4. q = SubSeq(s, m, n)
  BY DEF Slice
<1> HIDE DEF m, n, q
<1>5. CASE n < m
  <2>1. q = <<>>
    BY <1>2, <1>3, <1>4, <1>5, SubSeqEmpty
  <2>2. Once(<<>>) /\ Elements(<<>>) = {} /\ <<>> \in Seq(D)
    BY DEF Once, Elements
  <2> QED BY <2>1, <2>2 DEF q
<1>6. CASE ~(n < m)
  <2>1. \A i \in m .. n : s[i] \in D
    BY <1>1, <1>2, <1>3
  <2>2. /\ q \in Seq(D) /\ Len(q) = n - m + 1
        /\ \A i \in 1 .. n - m + 1 : q[i] = s[m + i - 1]
    <3>1. m \in Int /\ n \in Int /\ m <= n
      BY <1>2, <1>3, <1>6
    <3> QED BY <1>4, <2>1, <3>1, SubSeqProperties
  <2> DEFINE k == n - m + 1
             f == [i \in 1 .. k |-> m + i - 1]
  <2>3. DOMAIN q = 1 .. k
    BY <2>2, LenProperties
  <2>4. f \in [1 .. k -> 1 .. Len(s)] /\ \A i, j \in 1 .. k : f[i] = f[j] => i = j
    BY <1>1, <1>2, <1>3
  <2>5. \A i \in 1 .. k : q[i] = s[f[i]]
    BY <2>2
  <2> HIDE DEF k, f
  <2>6. Once(q) /\ Elements(q) \subseteq Elements(s)
    <3>1. /\ f \in [DOMAIN q -> DOMAIN s]
          /\ \A i, j \in DOMAIN q : f[i] = f[j] => i = j
          /\ \A i \in DOMAIN q : q[i] = s[f[i]]
      BY <1>1, <2>3, <2>4, <2>5
    <3>2. \E g \in [DOMAIN q -> DOMAIN s] :
             /\ \A i, j \in DOMAIN q : g[i] = g[j] => i = j
             /\ \A i \in DOMAIN q : q[i] = s[g[i]]
      BY <3>1
    <3> QED BY <3>2, PlacesFrom
  <2> QED BY <2>2, <2>6 DEF q
<1> QED BY <1>5, <1>6

\* A cell that was not there is put at the end.
LEMMA AppendPlaces ==
    ASSUME NEW D, NEW s \in Seq(D), Once(s), NEW x \in D, x \notin Elements(s), x # Nothing
    PROVE  /\ Append(s, x) \in Seq(D) /\ Once(Append(s, x))
           /\ Elements(Append(s, x)) = Elements(s) \cup {x}
<1>1. /\ Len(s) \in Nat /\ DOMAIN s = 1 .. Len(s)
      /\ Append(s, x) \in Seq(D) /\ DOMAIN Append(s, x) = 1 .. Len(s) + 1
      /\ \A i \in 1 .. Len(s) : Append(s, x)[i] = s[i]
      /\ Append(s, x)[Len(s) + 1] = x
  OBVIOUS
<1>2. \A i \in 1 .. Len(s) + 1 : i \in 1 .. Len(s) \/ i = Len(s) + 1
  BY <1>1
<1>4. \A i \in 1 .. Len(s) : s[i] # x
  BY <1>1 DEF Elements
<1>5. Len(s) + 1 \in 1 .. Len(s) + 1 /\ \A i \in 1 .. Len(s) : i \in 1 .. Len(s) + 1
  BY <1>1
<1>6. Elements(Append(s, x)) = Elements(s) \cup {x}
  BY <1>1, <1>2, <1>5 DEF Elements
<1>7. Once(Append(s, x))
  BY <1>1, <1>2, <1>4 DEF Once
<1> QED BY <1>1, <1>6, <1>7

\* The values of a dict, in the order of the keys, are all its cells once.
LEMMA PresentOK ==
    ASSUME NEW D, D \subseteq Nat \ {0}, NEW e \in [DOMAIN Keys -> D \cup {Nothing}], Once(e)
    PROVE  /\ Present(e) \in Seq(D) /\ Once(Present(e)) /\ Elements(Present(e)) = Elements(e)
<1>1. PICK N \in Nat : DOMAIN Keys = 1 .. N
  <2>1. Keys \in Seq(ToSet(Keys))
    BY ContainersAssumption DEF ContainersAssumption
  <2>2. DOMAIN Keys = 1 .. Len(Keys) /\ Len(Keys) \in Nat
    BY <2>1
  <2> QED BY <2>2
<1>2. Len(e) = N
  <2>1. e \in [1 .. N -> D \cup {Nothing}]
    BY <1>1
  <2>2. e \in Seq(D \cup {Nothing})
    BY <2>1, SeqDef
  <2> QED BY <1>1, <2>1, <2>2
<1> DEFINE Turn(f, n) == IF n = 0 THEN <<>>
                         ELSE IF e[n] = Nothing THEN f[n - 1] ELSE Append(f[n - 1], e[n])
           Runs(f) == f = [n \in 0 .. N |-> Turn(f, n)]
           upto == CHOOSE f : Runs(f)
<1>3. \E f : Runs(f)
  <2> DEFINE step == [n \in 1 .. N |->
                        [q \in Seq(D) |-> IF e[n] = Nothing THEN q ELSE Append(q, e[n])]]
  <2>1. step \in [1 .. N -> [Seq(D) -> Seq(D)]]
    <3>1. \A n \in 1 .. N : e[n] # Nothing => e[n] \in D
      BY <1>1
    <3>2. \A n \in 1 .. N : \A q \in Seq(D) :
             (IF e[n] = Nothing THEN q ELSE Append(q, e[n])) \in Seq(D)
      BY <3>1
    <3> QED BY <3>2
  <2>2. <<>> \in Seq(D) /\ 0 + 1 = 1
    OBVIOUS
  <2>3. \A n \in 1 .. N : \A q \in Seq(D) :
           step[n][q] = IF e[n] = Nothing THEN q ELSE Append(q, e[n])
    OBVIOUS
  <2> HIDE DEF step
  <2>4. PICK f : LoopFrom(f, Seq(D), 0, N, <<>>, step)
    <3>1. step \in [(0 + 1) .. N -> [Seq(D) -> Seq(D)]] /\ 0 \in Nat /\ 0 <= N
      BY <2>1, <2>2
    <3> QED BY ONLY <2>2, <3>1, N \in Nat, LoopRuns, Zenon
  <2>5. /\ f \in [0 .. N -> Seq(D)] /\ f[0] = <<>>
        /\ \A n \in 1 .. N : f[n] = step[n][f[n - 1]]
    BY <2>2, <2>4 DEF LoopFrom
  <2>6. ASSUME NEW n \in 0 .. N PROVE f[n] = Turn(f, n)
    <3>1. CASE n = 0
      BY <2>5, <3>1
    <3>2. CASE n # 0
      <4>1. n \in 1 .. N /\ n - 1 \in 0 .. N
        BY <3>2
      <4>2. f[n - 1] \in Seq(D) /\ f[n] = step[n][f[n - 1]]
        BY <2>5, <4>1
      <4> QED BY <2>3, <3>2, <4>1, <4>2
    <3> QED BY <3>1, <3>2
  <2> HIDE DEF Turn
  <2>7. Runs(f)
    BY <2>5, <2>6
  <2> QED BY <2>7
<1>4. Runs(upto)
  BY <1>3
<1>5. Present(e) = upto[N]
  BY <1>2 DEF Present
<1> HIDE DEF upto
<1>6. /\ upto[0] = <<>>
      /\ \A n \in 1 .. N :
            upto[n] = IF e[n] = Nothing THEN upto[n - 1] ELSE Append(upto[n - 1], e[n])
  <2>1. \A n \in 0 .. N : upto[n] = Turn(upto, n)
    <3> HIDE DEF Turn
    <3> QED BY <1>4
  <2>2. \A n \in 1 .. N : n \in 0 .. N /\ n # 0
    OBVIOUS
  <2> QED BY <2>1, <2>2
<1> DEFINE Good(n) == /\ upto[n] \in Seq(D) /\ Once(upto[n])
                      /\ Elements(upto[n]) = {e[i] : i \in 1 .. n} \ {Nothing}
           Bad == {n \in 0 .. N : ~Good(n)}
<1>7. Bad = {}
  <2> SUFFICES ASSUME Bad # {} PROVE FALSE
    OBVIOUS
  <2>1. Bad \subseteq Nat
    OBVIOUS
  <2>2. PICK n \in Bad : \A m \in Bad : n <= m
    <3> HIDE DEF Bad
    <3> QED BY <2>1, SmallestOf
  <2>3. n \in 0 .. N /\ ~Good(n)
    BY <2>2
  <2>4. n # 0
    <3>1. upto[0] \in Seq(D) /\ Once(upto[0]) /\ Elements(upto[0]) = {}
      BY <1>6 DEF Once, Elements
    <3>2. {e[i] : i \in 1 .. 0} \ {Nothing} = {}
      OBVIOUS
    <3>3. Good(0)
      BY <3>1, <3>2
    <3> QED BY <2>3, <3>3
  <2>5. n \in 1 .. N /\ n - 1 \in 0 .. N /\ ~(n <= n - 1)
    BY <2>3, <2>4
  <2>6. Good(n - 1)
    <3>1. n - 1 \notin Bad
      BY <2>2, <2>5
    <3> QED BY <2>5, <3>1
  <2>7. /\ \A i \in 1 .. n : i \in 1 .. n - 1 \/ i = n
        /\ \A i \in 1 .. n - 1 : i \in 1 .. n /\ i # n /\ i \in 1 .. N
        /\ n \in 1 .. n
    BY <2>5
  <2>8. CASE e[n] = Nothing
    <3>1. upto[n] = upto[n - 1]
      BY <1>6, <2>5, <2>8
    <3>2. {e[i] : i \in 1 .. n} \ {Nothing} = {e[i] : i \in 1 .. n - 1} \ {Nothing}
      BY <2>7, <2>8
    <3> QED BY <2>3, <2>6, <3>1, <3>2
  <2>9. CASE e[n] # Nothing
    <3>1. upto[n] = Append(upto[n - 1], e[n])
      BY <1>6, <2>5, <2>9
    <3>2. e[n] \in D /\ n \in DOMAIN e
      BY <1>1, <2>5, <2>9
    <3>3. e[n] \notin {e[i] : i \in 1 .. n - 1} \ {Nothing}
      <4>1. \A i \in 1 .. n - 1 : i \in DOMAIN e /\ i # n
        BY <1>1, <2>7
      <4> QED BY <2>9, <3>2, <4>1 DEF Once
    <3>4. {e[i] : i \in 1 .. n} \ {Nothing} = ({e[i] : i \in 1 .. n - 1} \ {Nothing}) \cup {e[n]}
      BY <2>7, <2>9
    <3>5. Good(n)
      <4> DEFINE p == upto[n - 1]
      <4>1. /\ p \in Seq(D) /\ Once(p) /\ e[n] \notin Elements(p)
            /\ Elements(p) = {e[i] : i \in 1 .. n - 1} \ {Nothing}
        BY <2>6, <3>3
      <4> HIDE DEF p
      <4>2. /\ Append(p, e[n]) \in Seq(D) /\ Once(Append(p, e[n]))
            /\ Elements(Append(p, e[n])) = Elements(p) \cup {e[n]}
        <5>1. ASSUME NEW x \in D, x \notin Elements(p), x # Nothing
              PROVE  /\ Append(p, x) \in Seq(D) /\ Once(Append(p, x))
                     /\ Elements(Append(p, x)) = Elements(p) \cup {x}
          <6>1. p \in Seq(D) /\ Once(p)
            BY <4>1
          <6> QED BY ONLY <5>1, <6>1, x \in D, AppendPlaces
        <5> QED BY <2>9, <3>2, <4>1, <5>1, Zenon
      <4>3. upto[n] = Append(p, e[n])
        BY <3>1 DEF p
      <4>4. Elements(Append(p, e[n])) = {e[i] : i \in 1 .. n} \ {Nothing}
        BY <3>4, <4>1, <4>2
      <4> QED BY <4>2, <4>3, <4>4, Zenon
    <3> QED BY <2>3, <3>5
  <2> QED BY <2>8, <2>9
<1>8. Good(N)
  <2>1. N \in 0 .. N
    OBVIOUS
  <2> QED BY <1>7, <2>1
<1>9. {e[i] : i \in 1 .. N} \ {Nothing} = Elements(e)
  <2>1. DOMAIN e = 1 .. N
    BY <1>1
  <2> QED BY <2>1 DEF Elements
<1> QED BY <1>5, <1>8, <1>9

\* One place gets another cell, or none.
LEMMA ExceptPlaces ==
    ASSUME NEW s, s = [j \in DOMAIN s |-> s[j]], Once(s), NEW i \in DOMAIN s,
           NEW c, c \notin Elements(s)
    PROVE  /\ Once([s EXCEPT ![i] = c])
           /\ Elements([s EXCEPT ![i] = c]) = (Elements(s) \ {s[i]}) \cup ({c} \ {Nothing})
<1> DEFINE p == [s EXCEPT ![i] = c]
           X == DOMAIN s
<1>1. DOMAIN s = X /\ DOMAIN p = X /\ \A j \in X : p[j] = IF j = i THEN c ELSE s[j]
  OBVIOUS
<1> HIDE DEF p, X
<1>2. Once(p)
  <2> SUFFICES ASSUME NEW j \in X, NEW k \in X, p[j] = p[k], p[j] # Nothing PROVE j = k
    BY <1>1 DEF Once
  <2>1. \A l \in X : s[l] # Nothing => s[l] # c
    BY <1>1 DEF Elements
  <2>2. \A l, m \in X : s[l] = s[m] /\ s[l] # Nothing => l = m
    BY <1>1 DEF Once
  <2> QED BY <1>1, <2>1, <2>2
<1>3. Elements(p) = (Elements(s) \ {s[i]}) \cup ({c} \ {Nothing})
  <2>1. ASSUME NEW x \in Elements(p) PROVE x \in (Elements(s) \ {s[i]}) \cup ({c} \ {Nothing})
    <3>1. PICK j \in X : x = p[j] /\ x # Nothing
      BY <1>1, <2>1 DEF Elements
    <3>2. CASE j = i
      BY <1>1, <3>1, <3>2
    <3>3. CASE j # i
      <4>1. x = s[j] /\ x \in Elements(s)
        BY <1>1, <3>1, <3>3 DEF Elements
      <4>2. s[j] # s[i]
        BY <1>1, <3>1, <3>3, <4>1 DEF Once
      <4> QED BY <4>1, <4>2
    <3> QED BY <3>2, <3>3
  <2>2. ASSUME NEW x \in Elements(s), x # s[i] PROVE x \in Elements(p)
    <3>1. PICK j \in X : x = s[j] /\ x # Nothing
      BY <1>1, <2>2 DEF Elements
    <3>2. p[j] = x
      BY <1>1, <2>2, <3>1
    <3> QED BY <1>1, <3>1, <3>2 DEF Elements
  <2>3. ASSUME c # Nothing PROVE c \in Elements(p)
    BY <1>1, <2>3 DEF Elements
  <2> QED BY <2>1, <2>2, <2>3
<1> QED BY <1>2, <1>3 DEF p

\* A container takes new cells beside the ones it has.
LEMMA AttachOK ==
    ASSUME NEW h, NEW R, Sound(h, R), NEW a \in DOMAIN h, h[a] # Deleted,
           NEW t, NEW T, Sound(t, T), DOMAIN h \cap DOMAIN t = {},
           NEW content \in CellsOver(DOMAIN h \cup DOMAIN t), content # Deleted, Once(content.at),
           Elements(content.at) = Children(h, a) \cup T
    PROVE  Sound([With(h, t) EXCEPT ![a] = content], R)
<1> DEFINE g == With(h, t)
<1>1. R \subseteq DOMAIN h /\ T \subseteq DOMAIN t /\ R \cap Children(h, a) = {}
  BY DEF Sound
<1>2. /\ Sound(g, R \cup T) /\ DOMAIN g = DOMAIN h \cup DOMAIN t
      /\ \A c \in DOMAIN h : g[c] = h[c]
      /\ Closed(g, DOMAIN t)
  BY WithOK
<1>3. Children(g, a) = Children(h, a) /\ g[a] # Deleted /\ a \in DOMAIN g /\ a \notin DOMAIN t
  BY <1>2 DEF Children
<1> HIDE DEF g
<1>4. \A c \in Children(g, a) : c \notin R \cup T
  BY <1>2, <1>3 DEF Sound
<1>5. /\ Elements(content.at) \subseteq Children(g, a) \cup (R \cup T)
      /\ Elements(content.at) \cap (R \cup T) \subseteq DOMAIN t
      /\ DOMAIN t \subseteq DOMAIN g
  BY <1>1, <1>2, <1>3, <1>4
<1>6. content \in CellsOver(DOMAIN g)
  BY <1>2
<1>7. Sound([g EXCEPT ![a] = content], ((R \cup T) \cup Children(g, a)) \ Elements(content.at))
  BY <1>2, <1>3, <1>5, <1>6, RewriteOK
<1>8. ((R \cup T) \cup Children(g, a)) \ Elements(content.at) = R
  BY <1>1, <1>3
<1> QED BY <1>7, <1>8 DEF g

\* A new container of new cells.
LEMMA WrapNew ==
    ASSUME NEW h, NEW R, Sound(h, R), NEW t, NEW T, Sound(t, T), DOMAIN h \cap DOMAIN t = {},
           NEW content \in CellsOver(DOMAIN h \cup DOMAIN t), content # Deleted, Once(content.at),
           Elements(content.at) = T
    PROVE  LET made == NewCell(With(h, t), content)
           IN  /\ Sound(made.heap, R \cup {made.cell})
               /\ DOMAIN h \subseteq DOMAIN made.heap /\ made.cell \notin DOMAIN h
<1> DEFINE g == With(h, t)
           made == NewCell(g, content)
<1>1. R \subseteq DOMAIN h /\ T \subseteq DOMAIN t
  BY DEF Sound
<1>2. Sound(g, R \cup T) /\ DOMAIN g = DOMAIN h \cup DOMAIN t
  BY WithOK
<1> HIDE DEF g
<1>3. /\ Sound(made.heap, ((R \cup T) \ Elements(content.at)) \cup {made.cell})
      /\ DOMAIN made.heap = DOMAIN g \cup {made.cell} /\ made.cell \notin DOMAIN g
  <2>1. content \in CellsOver(DOMAIN g) /\ Elements(content.at) \subseteq R \cup T
    BY <1>2
  <2> QED BY <1>2, <2>1, WrapOK
<1> HIDE DEF made
<1>4. (R \cup T) \ Elements(content.at) = R
  BY <1>1
<1> QED BY <1>2, <1>3, <1>4 DEF made, g

\* What the proofs of the steps of arrays and dicts rest on: the client owns what its own
\* pointers point to, and all other values that live are owned by a place.
ContainersInv ==
    Intact =>
        /\ owns \subseteq Names
        /\ points \in [Names -> DOMAIN heap \cup {Nothing}]
        /\ \A n \in owns : points[n] # Nothing
        /\ \A m, n \in owns : points[m] = points[n] => m = n
        /\ Sound(heap, {points[n] : n \in owns})

Held == {points[n] : n \in owns}

\* It holds again when what is owned is sound and the client's pointers point to cells.
LEMMA BecomeOK ==
    ASSUME NEW h, NEW pointers \in [Names -> DOMAIN h \cup {Nothing}],
           NEW owned, owned \subseteq Names, \A n \in owned : pointers[n] # Nothing,
           \A m, n \in owned : pointers[m] = pointers[n] => m = n,
           Sound(h, {pointers[n] : n \in owned}),
           Become(h, pointers, owned)
    PROVE  ContainersInv'
<1> DEFINE R == {pointers[n] : n \in owned}
           P == Elements(pointers)
           A == Reach(h, P)
<1>1. /\ heap' = [c \in A |-> h[c]] /\ points' = pointers /\ owns' = owned
  BY DEF Become
<1>2. P \subseteq DOMAIN h /\ R \subseteq P /\ \A n \in Names : pointers[n] \in P \cup {Nothing}
  BY DEF Elements
<1>3. P \subseteq A
  <2>1. \A d \in DOMAIN h : Children(h, d) \subseteq DOMAIN h
    BY ChildrenAreCells DEF Sound
  <2> HIDE DEF P
  <2> QED BY <1>2, <2>1, ReachLeast
<1>4. Sound([c \in A |-> h[c]], R)
  <2> HIDE DEF P, R
  <2> QED BY <1>2, CollectOK DEF R
<1>5. pointers \in [Names -> A \cup {Nothing}]
  <2> HIDE DEF P, A
  <2> QED BY <1>2, <1>3
<1>6. DOMAIN heap' = A
  BY <1>1
<1>7. Sound(heap', {points'[n] : n \in owns'})
  BY <1>1, <1>4
<1> HIDE DEF A, P, R
<1> QED BY <1>1, <1>5, <1>6, <1>7 DEF ContainersInv

\* What the invariant says of a step that runs.
LEMMA ContainersFacts ==
    ASSUME ContainersInv, Intact
    PROVE  /\ owns \subseteq Names /\ points \in [Names -> DOMAIN heap \cup {Nothing}]
           /\ \A n \in owns : points[n] # Nothing
           /\ \A m, n \in owns : points[m] = points[n] => m = n
           /\ Sound(heap, Held) /\ HeapOK(heap) /\ Held \subseteq DOMAIN heap
           /\ DOMAIN heap \subseteq Nat \ {0}
           /\ \A d \in DOMAIN heap : Children(heap, d) \subseteq DOMAIN heap
           /\ \A n \in Names : Live(n) => points[n] \in DOMAIN heap /\ heap[points[n]] # Deleted
BY ChildrenAreCells DEF ContainersInv, Held, Sound, HeapOK, Live, Cell

\* A new value is given to the client.
LEMMA GiveNewOK ==
    ASSUME ContainersInv, Intact, NEW r \in Names, NEW made,
           Sound(made.heap, Held \cup {made.cell}),
           DOMAIN heap \subseteq DOMAIN made.heap, made.cell \notin DOMAIN heap,
           GiveNew(made, r)
    PROVE  ContainersInv'
<1> DEFINE pointers == [points EXCEPT ![r] = made.cell]
           owned == owns \cup {r}
<1>1. /\ owns \subseteq Names /\ points \in [Names -> DOMAIN heap \cup {Nothing}]
      /\ \A n \in owns : points[n] # Nothing
      /\ \A m, n \in owns : points[m] = points[n] => m = n
      /\ Held \subseteq DOMAIN heap
  BY ContainersFacts
<1>2. r \notin owns /\ Become(made.heap, pointers, owned)
  BY DEF GiveNew, Receives
<1>3. made.cell \in DOMAIN made.heap /\ DOMAIN made.heap \subseteq Nat \ {0}
  BY DEF Sound, HeapOK
<1>4. made.cell # Nothing
  BY <1>3, ContainersAssumption DEF ContainersAssumption
<1>5. /\ pointers \in [Names -> DOMAIN made.heap \cup {Nothing}]
      /\ pointers[r] = made.cell /\ \A n \in owns : pointers[n] = points[n]
  BY <1>1, <1>2, <1>3
<1> HIDE DEF pointers
<1>6. \A n \in owns : points[n] \in DOMAIN heap
  BY <1>1 DEF Held
<1>7. {pointers[n] : n \in owned} = Held \cup {made.cell}
  <2>1. \A n \in owned : pointers[n] \in Held \cup {made.cell}
    BY <1>5 DEF Held
  <2>2. \A c \in Held : \E n \in owned : c = pointers[n]
    BY <1>5 DEF Held
  <2> QED BY <1>5, <2>1, <2>2
<1>8. /\ \A n \in owned : pointers[n] # Nothing
      /\ \A m, n \in owned : pointers[m] = pointers[n] => m = n
  BY <1>1, <1>4, <1>5, <1>6
<1>9. owned \subseteq Names
  BY <1>1
<1> QED BY <1>2, <1>5, <1>7, <1>8, <1>9, BecomeOK

\* What the client owns is not touched where only a pointer moves that owns nothing.
LEMMA PointOK ==
    ASSUME ContainersInv, Intact, NEW h, Sound(h, Held), DOMAIN heap \subseteq DOMAIN h,
           NEW c \in DOMAIN heap \cup {Nothing}, NEW r,
           \/ Become(h, points, owns)
           \/ r \notin owns /\ Become(h, [points EXCEPT ![r] = c], owns)
    PROVE  ContainersInv'
<1>1. /\ owns \subseteq Names /\ points \in [Names -> DOMAIN heap \cup {Nothing}]
      /\ \A n \in owns : points[n] # Nothing
      /\ \A m, n \in owns : points[m] = points[n] => m = n
  BY ContainersFacts
<1>2. ASSUME NEW pointers \in [Names -> DOMAIN h \cup {Nothing}],
             \A n \in owns : pointers[n] = points[n], Become(h, pointers, owns)
      PROVE  ContainersInv'
  <2>1. {pointers[n] : n \in owns} = Held
    BY <1>2 DEF Held
  <2>2. /\ \A n \in owns : pointers[n] # Nothing
        /\ \A m, n \in owns : pointers[m] = pointers[n] => m = n
    BY <1>1, <1>2
  <2> QED BY <1>1, <1>2, <2>1, <2>2, BecomeOK
<1>3. CASE Become(h, points, owns)
  <2>1. points \in [Names -> DOMAIN h \cup {Nothing}]
    BY <1>1
  <2> QED BY <1>2, <1>3, <2>1
<1>4. CASE r \notin owns /\ Become(h, [points EXCEPT ![r] = c], owns)
  <2> DEFINE pointers == [points EXCEPT ![r] = c]
  <2>1. /\ pointers \in [Names -> DOMAIN h \cup {Nothing}]
        /\ \A n \in owns : pointers[n] = points[n]
    BY <1>1, <1>4
  <2> HIDE DEF pointers
  <2>2. Become(h, pointers, owns)
    BY <1>4 DEF pointers
  <2> QED BY <1>2, <2>1, <2>2
<1> QED BY <1>3, <1>4

\* An operation on a container gives the client nothing, or the container again.
LEMMA ChangedOK ==
    ASSUME ContainersInv, Intact, NEW n \in Names, Live(n), NEW r, NEW h, NEW content,
           Sound([h EXCEPT ![points[n]] = content], Held), DOMAIN heap \subseteq DOMAIN h,
           Changed(h, n, content, r)
    PROVE  ContainersInv'
<1> DEFINE g == [h EXCEPT ![points[n]] = content]
<1>1. DOMAIN g = DOMAIN h
  OBVIOUS
<1>2. points[n] \in DOMAIN heap
  BY ContainersFacts
<1>3. CASE r = Nothing
  <2>1. Become(g, points, owns)
    BY <1>3 DEF Changed
  <2> HIDE DEF g
  <2>2. Sound(g, Held)
    BY DEF g
  <2> QED BY <1>1, <1>2, <2>1, <2>2, PointOK
<1>4. CASE r # Nothing
  <2>1. r \notin owns /\ Become(g, [points EXCEPT ![r] = points[n]], owns)
    BY <1>4 DEF Changed, Receives
  <2> HIDE DEF g
  <2>2. Sound(g, Held)
    BY DEF g
  <2> QED BY <1>1, <1>2, <2>1, <2>2, PointOK
<1> QED BY <1>3, <1>4

\* What a pointer to an array or a dict leads to.
LEMMA HandleOK ==
    ASSUME ContainersInv, Intact, NEW a \in Names, Is("array", a) \/ Is("dict", a)
    PROVE  /\ Live(a) /\ points[a] \in DOMAIN heap /\ Cell(a) # Deleted
           /\ Once(Cell(a).at) /\ Elements(Cell(a).at) = Children(heap, points[a])
           /\ Is("array", a) => Cell(a).at \in Seq(DOMAIN heap)
           /\ Is("dict", a) => Cell(a).at \in [DOMAIN Keys -> DOMAIN heap \cup {Nothing}]
<1>1. Live(a) /\ points[a] \in DOMAIN heap
  BY ContainersFacts DEF Is
<1>2. Sound(heap, Held)
  BY ContainersFacts
<1>3. Once(Cell(a).at) /\ Elements(Cell(a).at) = Children(heap, points[a])
  BY <1>1, <1>2 DEF Sound, Cell, Children
<1>4. Cell(a) \in CellsOver(DOMAIN heap)
  BY <1>1, <1>2 DEF Sound, HeapOK, Cell
<1> QED BY <1>1, <1>3, <1>4, KindOK DEF Is, Live

\* A value that lives is cloned.
LEMMA CloneHere ==
    ASSUME ContainersInv, Intact, NEW c \in DOMAIN heap, heap[c] # Deleted
    PROVE  \E t : /\ Clone(heap, c).heap = With(heap, t) /\ DOMAIN heap \cap DOMAIN t = {}
                  /\ Sound(t, {Clone(heap, c).cell})
<1>1. /\ Sound(heap, Held) /\ \A d \in DOMAIN heap : Children(heap, d) \subseteq DOMAIN heap
  BY ContainersFacts
<1>2. \A x \in Reach(heap, {c}) : heap[x] # Deleted
  BY <1>1, ReachLives
<1> QED BY <1>1, <1>2, CloneOK

\* The clone of a value that lives is given to the client.
LEMMA CloneGiven ==
    ASSUME ContainersInv, Intact, NEW c \in DOMAIN heap, heap[c] # Deleted,
           NEW r \in Names, GiveNew(Clone(heap, c), r)
    PROVE  ContainersInv'
<1>1. PICK t : /\ Clone(heap, c).heap = With(heap, t) /\ DOMAIN heap \cap DOMAIN t = {}
               /\ Sound(t, {Clone(heap, c).cell})
  BY CloneHere
<1>2. Sound(heap, Held)
  BY ContainersFacts
<1>3. /\ Sound(With(heap, t), Held \cup {Clone(heap, c).cell})
      /\ DOMAIN With(heap, t) = DOMAIN heap \cup DOMAIN t
  BY <1>1, <1>2, WithOK
<1>4. Clone(heap, c).cell \in DOMAIN t
  BY <1>1 DEF Sound
<1>5. /\ DOMAIN heap \subseteq DOMAIN Clone(heap, c).heap
      /\ Clone(heap, c).cell \notin DOMAIN heap
      /\ Sound(Clone(heap, c).heap, Held \cup {Clone(heap, c).cell})
  BY <1>1, <1>3, <1>4
<1> QED BY <1>5, GiveNewOK

\* The empty contents.
LEMMA EmptyOK ==
    /\ Once(<<>>) /\ Elements(<<>>) = {} /\ Once(NoEntries) /\ Elements(NoEntries) = {}
    /\ \A D : /\ TextCell \in CellsOver(D) /\ Array(<<>>) \in CellsOver(D) /\ Dict(NoEntries) \in CellsOver(D)
              /\ NoEntries \in [DOMAIN Keys -> D \cup {Nothing}]
    /\ TextCell # Deleted /\ Array(<<>>) # Deleted /\ Dict(NoEntries) # Deleted
    /\ TextCell.at = <<>> /\ Array(<<>>).at = <<>> /\ Dict(NoEntries).at = NoEntries
<1>1. Once(<<>>) /\ Elements(<<>>) = {}
  BY DEF Once, Elements
<1>2. Once(NoEntries) /\ Elements(NoEntries) = {}
  BY DEF Once, Elements, NoEntries
<1>3. \A D : NoEntries \in [DOMAIN Keys -> D \cup {Nothing}]
  BY DEF NoEntries
<1>4. \A D : <<>> \in Seq(D)
  OBVIOUS
<1>5. /\ TextCell # Deleted /\ Array(<<>>) # Deleted /\ Dict(NoEntries) # Deleted
      /\ TextCell.at = <<>> /\ Array(<<>>).at = <<>> /\ Dict(NoEntries).at = NoEntries
  BY DEF TextCell, Array, Dict, Deleted
<1> QED BY <1>1, <1>2, <1>3, <1>4, <1>5 DEF CellsOver

\* An empty value is made.
LEMMA NewKept ==
    ASSUME ContainersInv, NEW r \in Names,
           NEW content \in {TextCell, Array(<<>>), Dict(NoEntries)}, New(r, content)
    PROVE  ContainersInv'
<1>1. Intact /\ GiveNew(NewCell(heap, content), r)
  BY DEF New
<1>2. Sound(heap, Held)
  BY <1>1, ContainersFacts
<1>3. /\ content \in CellsOver(DOMAIN heap) /\ content # Deleted
      /\ Once(content.at) /\ Elements(content.at) = {}
  BY EmptyOK
<1> DEFINE made == NewCell(heap, content)
<1>4. /\ Sound(made.heap, (Held \ Elements(content.at)) \cup {made.cell})
      /\ DOMAIN made.heap = DOMAIN heap \cup {made.cell} /\ made.cell \notin DOMAIN heap
  BY <1>2, <1>3, WrapOK
<1> HIDE DEF made
<1>5. Sound(made.heap, Held \cup {made.cell})
  BY <1>3, <1>4
<1>6. GiveNew(made, r)
  BY <1>1 DEF made
<1> QED BY <1>1, <1>4, <1>5, <1>6, GiveNewOK

\* A value is copied.
LEMMA CopyKept ==
    ASSUME ContainersInv, NEW n \in Names, NEW r \in Names, Copy(n, r)
    PROVE  ContainersInv'
<1>1. Intact /\ Live(n) /\ GiveNew(Clone(heap, points[n]), r)
  BY DEF Copy
<1>2. points[n] \in DOMAIN heap /\ heap[points[n]] # Deleted
  BY <1>1, ContainersFacts
<1> QED BY <1>1, <1>2, CloneGiven

\* A value that the client owns is deleted.
LEMMA DeleteKept ==
    ASSUME ContainersInv, NEW n \in Names, Delete(n)
    PROVE  ContainersInv'
<1> DEFINE pointers == [points EXCEPT ![n] = Nothing]
           owned == owns \ {n}
           h == Destroyed(heap, {points[n]})
<1>1. Intact /\ n \in owns /\ Become(h, pointers, owned)
  BY DEF Delete
<1>2. /\ owns \subseteq Names /\ points \in [Names -> DOMAIN heap \cup {Nothing}]
      /\ \A m \in owns : points[m] # Nothing
      /\ \A m, k \in owns : points[m] = points[k] => m = k
      /\ Sound(heap, Held)
  BY <1>1, ContainersFacts
<1>3. Sound(h, Held \ {points[n]})
  <2>1. {points[n]} \subseteq Held
    BY <1>1 DEF Held
  <2> QED BY <1>2, <2>1, DestroyOK
<1>4. DOMAIN h = DOMAIN heap
  BY DEF Destroyed
<1>5. /\ pointers \in [Names -> DOMAIN heap \cup {Nothing}]
      /\ \A m \in owned : pointers[m] = points[m] /\ m \in owns /\ m # n
  BY <1>2
<1> HIDE DEF pointers, h
<1>6. {pointers[m] : m \in owned} = Held \ {points[n]}
  <2>1. \A m \in owned : pointers[m] \in Held \ {points[n]}
    BY <1>1, <1>2, <1>5 DEF Held
  <2>2. \A c \in Held \ {points[n]} : \E m \in owned : c = pointers[m]
    BY <1>5 DEF Held
  <2> QED BY <2>1, <2>2
<1>7. owned \subseteq Names /\ (\A m \in owned : pointers[m] # Nothing)
      /\ \A m, k \in owned : pointers[m] = pointers[k] => m = k
  BY <1>2, <1>5
<1> QED BY <1>1, <1>3, <1>4, <1>5, <1>6, <1>7, BecomeOK

\* An array gets a clone.
LEMMA InsertElementKept ==
    ASSUME ContainersInv, NEW a \in Names, NEW n \in Names, NEW i, NEW r, InsertElement(a, i, n, r)
    PROVE  ContainersInv'
<1> DEFINE s == Cell(a).at
           copy == CloneOne(heap, points[n])
           content == Array(InsertAt(s, i + 1, copy.cell))
<1>1. /\ Intact /\ Is("array", a) /\ Live(n) /\ i \in 0 .. Len(s)
      /\ Changed(copy.heap, a, content, r)
  BY DEF InsertElement
<1>2. /\ Sound(heap, Held) /\ DOMAIN heap \subseteq Nat \ {0}
      /\ points[n] \in DOMAIN heap /\ heap[points[n]] # Deleted
  BY <1>1, ContainersFacts
<1>3. /\ Live(a) /\ points[a] \in DOMAIN heap /\ heap[points[a]] # Deleted
      /\ s \in Seq(DOMAIN heap) /\ Once(s) /\ Elements(s) = Children(heap, points[a])
  BY <1>1, HandleOK DEF Cell
<1>4. PICK t : /\ copy.heap = With(heap, t) /\ DOMAIN heap \cap DOMAIN t = {}
               /\ Sound(t, {copy.cell})
  BY <1>1, <1>2, CloneHere DEF CloneOne
<1> HIDE DEF copy, s
<1>5. copy.cell \in DOMAIN t /\ DOMAIN t \subseteq Nat \ {0}
  BY <1>4 DEF Sound, HeapOK
<1>6. Nothing \notin DOMAIN heap \cup DOMAIN t /\ DOMAIN heap \subseteq DOMAIN heap \cup DOMAIN t
  BY <1>2, <1>5, ContainersAssumption DEF ContainersAssumption
<1>7. copy.cell \notin Elements(s) /\ copy.cell \in DOMAIN heap \cup DOMAIN t
  <2>1. Children(heap, points[a]) \subseteq DOMAIN heap
    BY <1>1, <1>3, ContainersFacts
  <2> QED BY <1>3, <1>4, <1>5, <2>1
<1>8. /\ InsertAt(s, i + 1, copy.cell) \in Seq(DOMAIN heap \cup DOMAIN t)
      /\ Once(InsertAt(s, i + 1, copy.cell))
      /\ Elements(InsertAt(s, i + 1, copy.cell)) = Elements(s) \cup {copy.cell}
  <2>1. ASSUME NEW E, DOMAIN heap \subseteq E, Nothing \notin E, NEW x \in E, x \notin Elements(s)
        PROVE  /\ InsertAt(s, i + 1, x) \in Seq(E) /\ Once(InsertAt(s, i + 1, x))
               /\ Elements(InsertAt(s, i + 1, x)) = Elements(s) \cup {x}
    BY <1>1, <1>3, <2>1, InsertPlaces
  <2> QED BY <1>6, <1>7, <2>1
<1>9. /\ content \in CellsOver(DOMAIN heap \cup DOMAIN t) /\ content # Deleted
      /\ Once(content.at) /\ Elements(content.at) = Children(heap, points[a]) \cup {copy.cell}
  <2>1. content.at = InsertAt(s, i + 1, copy.cell)
    BY <1>8, ContentOK
  <2> QED BY <1>3, <1>8, <2>1, ContentOK
<1> HIDE DEF content
<1>10. Sound([copy.heap EXCEPT ![points[a]] = content], Held)
  BY <1>2, <1>3, <1>4, <1>9, AttachOK
<1>11. DOMAIN heap \subseteq DOMAIN copy.heap
  BY <1>4 DEF With
<1> QED BY <1>1, <1>3, <1>10, <1>11, ChangedOK

\* An element of an array is deleted, and the clone that takes its place is made of a value
\* that nothing of this leads to.
LEMMA SetElementKept ==
    ASSUME ContainersInv, NEW a \in Names, NEW n \in Names, NEW i, NEW r, SetElement(a, i, n, r)
    PROVE  ContainersInv'
<1> DEFINE s == Cell(a).at
           p == points[a]
           q == points[n]
           h == Destroyed(heap, {s[i]})
           copy == Clone(h, q)
           content == Array([s EXCEPT ![i] = copy.cell])
           c0 == Array(RemoveAt(s, i))
           h0 == [h EXCEPT ![p] = c0]
<1>1. Intact /\ Is("array", a) /\ Live(n) /\ i \in DOMAIN s
  BY DEF SetElement
<1>2. CASE Meets(h, q)
  BY <1>2 DEF SetElement, Faulted, ContainersInv, Intact
<1>3. CASE ~Meets(h, q)
  <2>1. Changed(copy.heap, a, content, r)
    BY <1>3 DEF SetElement
  <2>2. /\ Sound(heap, Held) /\ DOMAIN heap \subseteq Nat \ {0}
        /\ \A d \in DOMAIN heap : Children(heap, d) \subseteq DOMAIN heap
        /\ q \in DOMAIN heap /\ heap[q] # Deleted
    BY <1>1, ContainersFacts
  <2>3. /\ Live(a) /\ p \in DOMAIN heap /\ heap[p] # Deleted
        /\ s \in Seq(DOMAIN heap) /\ Once(s) /\ Elements(s) = Children(heap, p)
    BY <1>1, HandleOK DEF Cell
  <2>4. s[i] \in Children(heap, p) /\ s[i] \in DOMAIN heap
    <3>1. s[i] \in DOMAIN heap
      BY <1>1, <2>3
    <3>2. s[i] # Nothing
      BY <2>2, <3>1, ContainersAssumption DEF ContainersAssumption
    <3> HIDE DEF s
    <3> QED BY <1>1, <2>3, <3>1, <3>2 DEF Elements
  <2>5. p \notin Reach(heap, {s[i]}) /\ s[i] \in Reach(heap, {s[i]})
    <3>1. {s[i]} \subseteq Children(heap, p) /\ {s[i]} \subseteq DOMAIN heap
      BY <2>4
    <3> HIDE DEF s, p
    <3> QED BY <2>2, <2>3, <3>1, NoWayBack, ReachLeast
  <2>6. /\ DOMAIN h = DOMAIN heap /\ h[p] = heap[p] /\ h[s[i]] = Deleted
        /\ \A d \in DOMAIN heap : h[d] = Deleted \/ h[d] = heap[d]
    BY <2>3, <2>4, <2>5 DEF Destroyed
  <2>7. /\ RemoveAt(s, i) \in Seq(DOMAIN heap) /\ Once(RemoveAt(s, i))
        /\ Elements(RemoveAt(s, i)) = Elements(s) \ {s[i]}
    <3> HIDE DEF s
    <3> QED BY <1>1, <2>2, <2>3, RemovePlaces
  <2>8. /\ c0 \in CellsOver(DOMAIN heap) /\ c0 # Deleted /\ Once(c0.at)
        /\ Elements(c0.at) = Children(heap, p) \ {s[i]}
    <3> HIDE DEF s, p
    <3> QED BY <2>3, <2>7, ContentOK
  <2> HIDE DEF c0, copy, content, s, p, q
  <2>9. Sound(h0, Held)
    <3>1. {s[i]} \subseteq Children(heap, p)
      BY <2>4
    <3> QED BY <2>2, <2>3, <2>8, <3>1, DestroyIn
  <2> HIDE DEF h
  <2>10. /\ DOMAIN h0 = DOMAIN heap /\ h0[p] = c0
         /\ \A d \in DOMAIN heap : d # p => h0[d] = h[d]
    BY <2>3, <2>6
  <2> HIDE DEF h0
  <2>11. \A d \in DOMAIN h : Children(h, d) \subseteq DOMAIN h
    <3>1. Elements(Deleted.at) = {}
      BY DEF Elements, Deleted
    <3> QED BY <2>2, <2>6, <3>1 DEF Children
  <2>12. /\ p \notin Reach(h, {q}) /\ Reach(h, {q}) \subseteq DOMAIN h
         /\ \A x \in Reach(h, {q}) : h[x] # Deleted
    <3>1. \A x \in Reach(h, {q}) : h[x] # Deleted
      BY <1>3 DEF Meets
    <3>2. /\ Reach(h, {q}) \subseteq DOMAIN h
          /\ \A x \in Reach(h, {q}) : Children(h, x) \subseteq Reach(h, {q})
      <4>1. {q} \subseteq DOMAIN h
        BY <2>2, <2>6
      <4> QED BY <2>11, <4>1, ReachLeast
    <3>3. s[i] \in Children(h, p)
      BY <2>4, <2>6 DEF Children
    <3> QED BY <2>6, <3>1, <3>2, <3>3
  <2>13. \A x \in Reach(h, {q}) : h[x] = h0[x] /\ h[x] # Deleted
    BY <2>6, <2>10, <2>12
  <2>14. PICK t : /\ copy.heap = With(h, t) /\ DOMAIN h \cap DOMAIN t = {}
                  /\ Sound(t, {copy.cell})
    <3>1. q \in DOMAIN h /\ DOMAIN h = DOMAIN h0
      BY <2>2, <2>6, <2>10
    <3> QED BY <2>9, <2>11, <2>13, <3>1, CloneOK DEF copy
  <2>15. copy.cell \in DOMAIN t /\ DOMAIN t \subseteq Nat \ {0} /\ copy.cell # Nothing
    <3>1. copy.cell \in DOMAIN t /\ DOMAIN t \subseteq Nat \ {0}
      BY <2>14 DEF Sound, HeapOK
    <3> QED BY <3>1, ContainersAssumption DEF ContainersAssumption
  <2>16. copy.cell \notin Elements(s)
    BY <2>2, <2>3, <2>6, <2>14, <2>15
  <2>17. /\ content \in CellsOver(DOMAIN h0 \cup DOMAIN t) /\ content # Deleted
         /\ Once(content.at) /\ Elements(content.at) = Children(h0, p) \cup {copy.cell}
    <3> DEFINE E == DOMAIN h0 \cup DOMAIN t
               u == [s EXCEPT ![i] = copy.cell]
    <3>1. s \in [DOMAIN s -> DOMAIN heap] /\ s \in Seq(E)
      <4>1. DOMAIN heap \subseteq E
        BY <2>10
      <4>2. s \in Seq(E)
        <5> HIDE DEF E
        <5> QED BY <2>3, <4>1, SeqMonotonic
      <4> QED BY <2>3, <4>2
    <3>2. /\ Once(u) /\ Elements(u) = (Elements(s) \ {s[i]}) \cup ({copy.cell} \ {Nothing})
      <4>1. ASSUME NEW c, c \notin Elements(s)
            PROVE  /\ Once([s EXCEPT ![i] = c])
                   /\ Elements([s EXCEPT ![i] = c]) = (Elements(s) \ {s[i]}) \cup ({c} \ {Nothing})
        <5>1. Once(s) /\ i \in DOMAIN s
          BY <1>1, <2>3
        <5>2. s = [j \in DOMAIN s |-> s[j]]
          BY <3>1
        <5>3. Once([s EXCEPT ![i] = c])
          BY <4>1, <5>1, <5>2, ExceptPlaces
        <5>4. Elements([s EXCEPT ![i] = c]) = (Elements(s) \ {s[i]}) \cup ({c} \ {Nothing})
          BY <4>1, <5>1, <5>2, ExceptPlaces
        <5> QED BY <5>3, <5>4
      <4> QED BY <2>16, <4>1
    <3>3. u \in Seq(E)
      <4>1. copy.cell \in E
        BY <2>15
      <4> HIDE DEF E
      <4> QED BY <1>1, <3>1, <4>1 DEF s
    <3>4. content.at = u /\ content \in CellsOver(E) /\ content # Deleted
      <4> HIDE DEF u, E
      <4> QED BY <3>3, ContentOK DEF content, u
    <3>5. Children(h0, p) = Elements(s) \ {s[i]}
      BY <2>3, <2>8, <2>10 DEF Children
    <3> HIDE DEF u, E
    <3>6. Elements(u) = Children(h0, p) \cup {copy.cell}
      BY <2>15, <3>2, <3>5
    <3> QED BY <3>2, <3>4, <3>6 DEF E
  <2>18. Sound([With(h0, t) EXCEPT ![p] = content], Held)
    <3>1. p \in DOMAIN h0 /\ h0[p] # Deleted /\ DOMAIN h0 \cap DOMAIN t = {}
      BY <2>3, <2>6, <2>8, <2>10, <2>14
    <3> QED BY <2>9, <2>14, <2>17, <3>1, AttachOK
  <2>19. [With(h0, t) EXCEPT ![p] = content] = [copy.heap EXCEPT ![p] = content]
    <3>1. /\ DOMAIN With(h0, t) = DOMAIN With(h, t)
          /\ \A d \in DOMAIN With(h, t) : d # p => With(h0, t)[d] = With(h, t)[d]
      BY <2>6, <2>10 DEF With
    <3>2. /\ With(h0, t) = [d \in DOMAIN With(h0, t) |-> With(h0, t)[d]]
          /\ With(h, t) = [d \in DOMAIN With(h, t) |-> With(h, t)[d]]
      BY DEF With
    <3> QED BY <2>14, <3>1, <3>2
  <2>20. DOMAIN heap \subseteq DOMAIN copy.heap
    BY <2>6, <2>14 DEF With
  <2> QED BY <1>1, <2>1, <2>3, <2>18, <2>19, <2>20, ChangedOK DEF p
<1> QED BY <1>2, <1>3

\* A container lets cells go, with one operation.
LEMMA DropKept ==
    ASSUME ContainersInv, Intact, NEW a \in Names, Is("array", a) \/ Is("dict", a),
           NEW G, G \subseteq Children(heap, points[a]), NEW content, NEW r,
           content \in CellsOver(DOMAIN heap), content # Deleted, Once(content.at),
           Elements(content.at) = Children(heap, points[a]) \ G,
           Changed(Destroyed(heap, G), a, content, r)
    PROVE  ContainersInv'
<1>1. /\ Live(a) /\ points[a] \in DOMAIN heap /\ heap[points[a]] # Deleted
  BY HandleOK DEF Cell
<1>2. Sound(heap, Held)
  BY ContainersFacts
<1>3. Sound([Destroyed(heap, G) EXCEPT ![points[a]] = content], Held)
  BY <1>1, <1>2, DestroyIn
<1>4. DOMAIN heap \subseteq DOMAIN Destroyed(heap, G)
  BY DEF Destroyed
<1> QED BY <1>1, <1>3, <1>4, ChangedOK

\* An element of an array is removed.
LEMMA RemoveElementKept ==
    ASSUME ContainersInv, NEW a \in Names, NEW i, NEW r, RemoveElement(a, i, r)
    PROVE  ContainersInv'
<1> DEFINE s == Cell(a).at
           content == Array(RemoveAt(s, i))
<1>1. /\ Intact /\ Is("array", a) /\ i \in DOMAIN s
      /\ Changed(Destroyed(heap, {s[i]}), a, content, r)
  BY DEF RemoveElement
<1>2. /\ s \in Seq(DOMAIN heap) /\ Once(s) /\ Elements(s) = Children(heap, points[a])
      /\ DOMAIN heap \subseteq Nat \ {0}
  BY <1>1, HandleOK, ContainersFacts
<1> HIDE DEF s
<1>3. {s[i]} \subseteq Children(heap, points[a])
  <2>1. s[i] \in DOMAIN heap
    BY <1>1, <1>2
  <2>2. s[i] # Nothing
    BY <1>2, <2>1, ContainersAssumption DEF ContainersAssumption
  <2> QED BY <1>1, <1>2, <2>2 DEF Elements
<1>4. /\ RemoveAt(s, i) \in Seq(DOMAIN heap) /\ Once(RemoveAt(s, i))
      /\ Elements(RemoveAt(s, i)) = Elements(s) \ {s[i]}
  BY <1>1, <1>2, RemovePlaces
<1>5. /\ content \in CellsOver(DOMAIN heap) /\ content # Deleted /\ Once(content.at)
      /\ Elements(content.at) = Children(heap, points[a]) \ {s[i]}
  BY <1>2, <1>4, ContentOK
<1> HIDE DEF content
<1> QED BY <1>1, <1>3, <1>5, DropKept

\* A container is emptied.
LEMMA ClearKept ==
    ASSUME ContainersInv, NEW n \in Names, NEW r, Clear(n, r)
    PROVE  ContainersInv'
<1> DEFINE content == IF Is("array", n) THEN Array(<<>>) ELSE Dict(NoEntries)
           G == Children(heap, points[n])
<1>1. /\ Intact /\ (Is("array", n) \/ Is("dict", n))
      /\ Changed(Destroyed(heap, G), n, content, r)
  BY DEF Clear
<1>2. /\ content \in CellsOver(DOMAIN heap) /\ content # Deleted /\ Once(content.at)
      /\ Elements(content.at) = {}
  BY EmptyOK
<1>3. Elements(content.at) = G \ G /\ G \subseteq Children(heap, points[n])
  BY <1>2
<1> HIDE DEF content, G
<1> QED BY <1>1, <1>2, <1>3, DropKept DEF G

\* The client gets a clone of an element, or a pointer to it.
LEMMA GetElementKept ==
    ASSUME ContainersInv, NEW a \in Names, NEW i, NEW r \in Names,
           GetElement(a, i, r) \/ GetElements(a, i, r)
    PROVE  ContainersInv'
<1> DEFINE s == Cell(a).at
<1>1. Intact /\ Is("array", a) /\ i \in DOMAIN s
  BY DEF GetElement, GetElements
<1>2. /\ s \in Seq(DOMAIN heap) /\ Elements(s) = Children(heap, points[a])
      /\ points[a] \in DOMAIN heap /\ Sound(heap, Held) /\ DOMAIN heap \subseteq Nat \ {0}
  BY <1>1, HandleOK, ContainersFacts
<1>3. s[i] \in DOMAIN heap
  <2> HIDE DEF s
  <2> QED BY <1>1, <1>2
<1>4. heap[s[i]] # Deleted
  <2>1. s[i] # Nothing
    BY <1>2, <1>3, ContainersAssumption DEF ContainersAssumption
  <2>2. s[i] \in Children(heap, points[a])
    <3> HIDE DEF s
    <3> QED BY <1>1, <1>2, <2>1 DEF Elements
  <2> QED BY <1>2, <2>2 DEF Sound
<1>5. CASE GetElement(a, i, r)
  <2>1. GiveNew(Clone(heap, s[i]), r)
    BY <1>5 DEF GetElement, CloneOne
  <2> HIDE DEF s
  <2> QED BY <1>1, <1>3, <1>4, <2>1, CloneGiven
<1>6. CASE GetElements(a, i, r)
  <2>1. r \notin owns /\ Become(heap, [points EXCEPT ![r] = s[i]], owns)
    BY <1>6 DEF GetElements, GivePointer, Receives
  <2> HIDE DEF s
  <2> QED BY <1>1, <1>2, <1>3, <2>1, PointOK
<1> QED BY <1>5, <1>6

\* The client gets a pointer to the value of an entry.
LEMMA GetEntryKept ==
    ASSUME ContainersInv, NEW d \in Names, NEW k \in DOMAIN Keys, NEW r \in Names, GetEntry(d, k, r)
    PROVE  ContainersInv'
<1> DEFINE e == Cell(d).at
<1>1. /\ Intact /\ Is("dict", d) /\ e[k] # Nothing /\ r \notin owns
      /\ Become(heap, [points EXCEPT ![r] = e[k]], owns)
  BY DEF GetEntry, GivePointer, Receives
<1>2. e \in [DOMAIN Keys -> DOMAIN heap \cup {Nothing}] /\ Sound(heap, Held)
  BY <1>1, HandleOK, ContainersFacts
<1> HIDE DEF e
<1>3. e[k] \in DOMAIN heap
  BY <1>1, <1>2
<1> QED BY <1>1, <1>2, <1>3, PointOK

\* An entry of a dict loses its value.
LEMMA RemoveEntryKept ==
    ASSUME ContainersInv, NEW d \in Names, NEW k \in DOMAIN Keys, NEW r, RemoveEntry(d, k, r)
    PROVE  ContainersInv'
<1> DEFINE e == Cell(d).at
           u == [e EXCEPT ![k] = Nothing]
           content == Dict(u)
<1>1. /\ Intact /\ Is("dict", d) /\ e[k] # Nothing
      /\ Changed(Destroyed(heap, {e[k]}), d, content, r)
  BY DEF RemoveEntry
<1>2. /\ e \in [DOMAIN Keys -> DOMAIN heap \cup {Nothing}] /\ Once(e)
      /\ Elements(e) = Children(heap, points[d])
  BY <1>1, HandleOK
<1> HIDE DEF e
<1>3. /\ e = [j \in DOMAIN e |-> e[j]] /\ k \in DOMAIN e /\ Nothing \notin Elements(e)
      /\ e[k] \in Elements(e)
  BY <1>1, <1>2 DEF Elements
<1>4. Once(u)
  BY <1>2, <1>3, ExceptPlaces
<1>5. Elements(u) = (Elements(e) \ {e[k]}) \cup ({Nothing} \ {Nothing})
  <2>1. ASSUME NEW c, c \notin Elements(e)
        PROVE  Elements([e EXCEPT ![k] = c]) = (Elements(e) \ {e[k]}) \cup ({c} \ {Nothing})
    <3>1. e = [j \in DOMAIN e |-> e[j]] /\ Once(e) /\ k \in DOMAIN e
      BY <1>2, <1>3
    <3> QED BY ONLY <2>1, <3>1, ExceptPlaces
  <2> QED BY <1>3, <2>1
<1>6. u \in [DOMAIN Keys -> DOMAIN heap \cup {Nothing}]
  BY <1>2
<1> HIDE DEF u
<1>7. /\ content \in CellsOver(DOMAIN heap) /\ content # Deleted /\ content.at = u
  BY <1>6, ContentOK
<1>8. Elements(content.at) = Children(heap, points[d]) \ {e[k]} /\ {e[k]} \subseteq Children(heap, points[d])
  BY <1>2, <1>3, <1>5, <1>7
<1> HIDE DEF content
<1> QED BY <1>1, <1>4, <1>7, <1>8, DropKept

\* The value of an entry is deleted and the dict takes the one that the client gives it.
LEMMA SetEntryKept ==
    ASSUME ContainersInv, NEW d \in Names, NEW k \in DOMAIN Keys, NEW n \in Names, NEW r,
           SetEntry(d, k, n, r)
    PROVE  ContainersInv'
<1> DEFINE e == Cell(d).at
           p == points[d]
           q == points[n]
           old == {e[k]} \ {Nothing}
           e0 == [e EXCEPT ![k] = Nothing]
           u == [e EXCEPT ![k] = q]
           content == Dict(u)
           h == Destroyed(heap, old)
           h0 == [h EXCEPT ![p] = Dict(e0)]
           g == [h EXCEPT ![p] = content]
           pointers == IF r = Nothing THEN points ELSE [points EXCEPT ![r] = p]
           owned == owns \ {n}
<1>1. /\ Intact /\ Is("dict", d) /\ n \in owns /\ p \notin Reach(heap, {q})
      /\ r # Nothing => r \notin owns
      /\ Become(g, pointers, owned)
  BY DEF SetEntry, Receives
<1>2. /\ e \in [DOMAIN Keys -> DOMAIN heap \cup {Nothing}] /\ Once(e)
      /\ Elements(e) = Children(heap, p) /\ p \in DOMAIN heap /\ heap[p] # Deleted
  BY <1>1, HandleOK DEF Cell
<1>3. /\ owns \subseteq Names /\ points \in [Names -> DOMAIN heap \cup {Nothing}]
      /\ \A m \in owns : points[m] # Nothing
      /\ \A m, l \in owns : points[m] = points[l] => m = l
      /\ Sound(heap, Held) /\ DOMAIN heap \subseteq Nat \ {0} /\ Held \subseteq DOMAIN heap
      /\ \A x \in DOMAIN heap : Children(heap, x) \subseteq DOMAIN heap
  BY <1>1, ContainersFacts
<1>4. q \in Held /\ q \in DOMAIN heap /\ q # Nothing
  BY <1>1, <1>3 DEF Held
<1>5. q \notin Elements(e)
  BY <1>2, <1>3, <1>4 DEF Sound
<1> HIDE DEF e, p, q
<1>6. /\ e = [j \in DOMAIN e |-> e[j]] /\ k \in DOMAIN e /\ Nothing \notin Elements(e)
      /\ old \subseteq Elements(e)
  BY <1>2 DEF Elements
<1>7. Once(e0) /\ Once(u)
  BY <1>2, <1>5, <1>6, ExceptPlaces
<1>8. Elements(e0) = (Elements(e) \ {e[k]}) \cup ({Nothing} \ {Nothing})
  <2>1. ASSUME NEW c, c \notin Elements(e)
        PROVE  Elements([e EXCEPT ![k] = c]) = (Elements(e) \ {e[k]}) \cup ({c} \ {Nothing})
    <3>1. e = [j \in DOMAIN e |-> e[j]] /\ Once(e) /\ k \in DOMAIN e
      BY <1>2, <1>6
    <3> QED BY ONLY <2>1, <3>1, ExceptPlaces
  <2> QED BY <1>6, <2>1
<1>9. Elements(u) = (Elements(e) \ {e[k]}) \cup ({q} \ {Nothing})
  <2>1. ASSUME NEW c, c \notin Elements(e)
        PROVE  Elements([e EXCEPT ![k] = c]) = (Elements(e) \ {e[k]}) \cup ({c} \ {Nothing})
    <3>1. e = [j \in DOMAIN e |-> e[j]] /\ Once(e) /\ k \in DOMAIN e
      BY <1>2, <1>6
    <3> QED BY ONLY <2>1, <3>1, ExceptPlaces
  <2> QED BY <1>5, <2>1
<1>10. /\ e0 \in [DOMAIN Keys -> DOMAIN heap \cup {Nothing}]
       /\ u \in [DOMAIN Keys -> DOMAIN heap \cup {Nothing}]
  BY <1>2, <1>4
<1> HIDE DEF e0, u
<1>11. /\ Dict(e0) \in CellsOver(DOMAIN heap) /\ Dict(e0) # Deleted /\ Dict(e0).at = e0
       /\ content \in CellsOver(DOMAIN heap) /\ content # Deleted /\ content.at = u
  BY <1>10, ContentOK
<1>12. Elements(Dict(e0).at) = Children(heap, p) \ old /\ old \subseteq Children(heap, p)
  BY <1>2, <1>6, <1>8, <1>11
<1> HIDE DEF old, content
<1>13. Sound(h0, Held)
  BY <1>2, <1>3, <1>7, <1>11, <1>12, DestroyIn
<1>14. /\ DOMAIN h = DOMAIN heap
       /\ \A x \in DOMAIN heap : h[x] = Deleted \/ h[x] = heap[x]
       /\ h = [x \in DOMAIN h |-> h[x]]
  BY DEF Destroyed
<1> HIDE DEF h
<1>15. /\ DOMAIN h0 = DOMAIN heap /\ h0[p] = Dict(e0)
       /\ \A x \in DOMAIN heap : x # p => h0[x] = h[x]
  BY <1>2, <1>14
<1>16. g = [h0 EXCEPT ![p] = content] /\ DOMAIN g = DOMAIN heap
  BY <1>2, <1>14
<1> HIDE DEF h0, g
<1>17. Closed(h0, Reach(heap, {q})) /\ Reach(heap, {q}) \subseteq DOMAIN heap /\ q \in Reach(heap, {q})
  <2>1. /\ Reach(heap, {q}) \subseteq DOMAIN heap /\ q \in Reach(heap, {q})
        /\ \A x \in Reach(heap, {q}) : Children(heap, x) \subseteq Reach(heap, {q})
    <3>1. {q} \subseteq DOMAIN heap
      BY <1>4
    <3>2. {q} \subseteq Reach(heap, {q})
      BY <1>3, <3>1, ReachLeast
    <3> QED BY <1>3, <3>1, <3>2, ReachLeast
  <2>2. ASSUME NEW x \in Reach(heap, {q}) PROVE Children(h0, x) \subseteq Reach(heap, {q})
    <3>1. h0[x] = Deleted \/ h0[x] = heap[x]
      BY <1>1, <1>14, <1>15, <2>1
    <3>2. Elements(Deleted.at) = {}
      BY DEF Elements, Deleted
    <3> QED BY <2>1, <3>1, <3>2 DEF Children
  <2> QED BY <2>1, <2>2 DEF Closed
<1>18. /\ Elements(content.at) = Children(h0, p) \cup {q}
       /\ Children(h0, p) = Elements(e0)
  BY <1>4, <1>8, <1>9, <1>11, <1>15 DEF Children
<1>19. Children(h0, p) \cap Held = {}
  BY <1>2, <1>13, <1>15 DEF Sound
<1>20. Sound(g, Held \ {q})
  <2>1. /\ Elements(content.at) \subseteq Children(h0, p) \cup Held
        /\ Elements(content.at) \cap Held \subseteq Reach(heap, {q})
    BY <1>4, <1>17, <1>18, <1>19
  <2>2. Sound([h0 EXCEPT ![p] = content], (Held \cup Children(h0, p)) \ Elements(content.at))
    <3>1. /\ p \in DOMAIN h0 /\ h0[p] # Deleted /\ content \in CellsOver(DOMAIN h0)
          /\ content # Deleted /\ Once(content.at)
          /\ Reach(heap, {q}) \subseteq DOMAIN h0 /\ p \notin Reach(heap, {q})
      BY <1>1, <1>2, <1>7, <1>11, <1>15, <1>17
    <3> QED BY <1>13, <1>17, <2>1, <3>1, RewriteOK
  <2>3. (Held \cup Children(h0, p)) \ Elements(content.at) = Held \ {q}
    BY <1>18, <1>19
  <2> QED BY <1>16, <2>2, <2>3
<1>21. /\ pointers \in [Names -> DOMAIN g \cup {Nothing}]
       /\ \A m \in owned : pointers[m] = points[m] /\ m \in owns /\ m # n
  BY <1>1, <1>2, <1>3, <1>16
<1> HIDE DEF pointers
<1>22. {pointers[m] : m \in owned} = Held \ {q}
  <2>1. \A m \in owned : pointers[m] \in Held \ {q}
    BY <1>1, <1>3, <1>21 DEF Held, q
  <2>2. \A c \in Held \ {q} : \E m \in owned : c = pointers[m]
    BY <1>21 DEF Held, q
  <2> QED BY <2>1, <2>2
<1>23. /\ owned \subseteq Names /\ \A m \in owned : pointers[m] # Nothing
       /\ \A m, l \in owned : pointers[m] = pointers[l] => m = l
  BY <1>3, <1>21
<1> HIDE DEF owned
<1> QED BY <1>1, <1>20, <1>21, <1>22, <1>23, BecomeOK

\* A new array of clones of elements of a container.
LEMMA ClonesGiven ==
    ASSUME ContainersInv, Intact, NEW a \in Names, Is("array", a) \/ Is("dict", a),
           NEW cells \in Seq(DOMAIN heap), Elements(cells) \subseteq Children(heap, points[a]),
           Once(cells), NEW r \in Names,
           GiveNew(NewCell(CloneAll(heap, cells).heap, Array(CloneAll(heap, cells).cells)), r)
    PROVE  ContainersInv'
<1> DEFINE parts == CloneAll(heap, cells)
           content == Array(parts.cells)
           made == NewCell(parts.heap, content)
<1>1. Sound(heap, Held) /\ points[a] \in DOMAIN heap /\ DOMAIN heap \subseteq Nat \ {0}
  BY HandleOK, ContainersFacts
<1>2. Cloned(heap, cells, parts)
  BY <1>1, CloneElements
<1> HIDE DEF parts
<1>3. PICK t : /\ parts.heap = With(heap, t) /\ DOMAIN heap \cap DOMAIN t = {}
               /\ Sound(t, Elements(parts.cells))
               /\ parts.cells \in [DOMAIN cells -> DOMAIN t \cup {Nothing}]
               /\ \A i \in DOMAIN cells : parts.cells[i] = Nothing <=> cells[i] = Nothing
               /\ Once(parts.cells)
  BY <1>2 DEF Cloned
<1>4. \A i \in DOMAIN cells : parts.cells[i] # Nothing
  <2>1. \A i \in DOMAIN cells : cells[i] \in DOMAIN heap
    OBVIOUS
  <2> QED BY <1>1, <1>3, <2>1, ContainersAssumption DEF ContainersAssumption
<1>5. parts.cells \in Seq(DOMAIN t)
  BY <1>3, <1>4, FullPlaces
<1>6. parts.cells \in Seq(DOMAIN heap \cup DOMAIN t)
  <2>1. DOMAIN t \subseteq DOMAIN heap \cup DOMAIN t
    OBVIOUS
  <2> QED BY <1>5, <2>1, SeqMonotonic
<1>7. /\ content \in CellsOver(DOMAIN heap \cup DOMAIN t) /\ content # Deleted
      /\ Once(content.at) /\ Elements(content.at) = Elements(parts.cells)
  BY <1>3, <1>6, ContentOK
<1> HIDE DEF content
<1>8. /\ Sound(made.heap, Held \cup {made.cell})
      /\ DOMAIN heap \subseteq DOMAIN made.heap /\ made.cell \notin DOMAIN heap
  BY <1>1, <1>3, <1>7, WrapNew
<1>9. GiveNew(made, r)
  BY DEF parts, content
<1> HIDE DEF made
<1> QED BY <1>8, <1>9, GiveNewOK

\* slice, reverse and sort.
LEMMA SlicedKept ==
    ASSUME ContainersInv, NEW a \in Names, NEW r \in Names,
           Sliced(a, r) \/ Reversed(a, r) \/ Sorted(a, r)
    PROVE  ContainersInv'
<1> DEFINE s == Cell(a).at
<1>1. Intact /\ Is("array", a)
  BY DEF Sliced, Reversed, Sorted, NewArray
<1>2. s \in Seq(DOMAIN heap) /\ Once(s) /\ Elements(s) = Children(heap, points[a])
  BY <1>1, HandleOK
<1>3. ASSUME NEW cells \in Seq(DOMAIN heap), Once(cells), Elements(cells) \subseteq Elements(s),
             NewArray(a, cells, r)
      PROVE  ContainersInv'
  <2>1. GiveNew(NewCell(CloneAll(heap, cells).heap, Array(CloneAll(heap, cells).cells)), r)
    BY <1>3 DEF NewArray
  <2>2. Elements(cells) \subseteq Children(heap, points[a])
    BY <1>2, <1>3
  <2> QED BY <1>1, <1>3, <2>1, <2>2, ClonesGiven
<1>4. CASE Sliced(a, r)
  <2>1. PICK from, to \in -1 .. MaxLength : NewArray(a, Slice(s, from, to), r)
    BY <1>4 DEF Sliced
  <2>2. from \in Int /\ to \in Int
    OBVIOUS
  <2> HIDE DEF s
  <2>3. /\ Slice(s, from, to) \in Seq(DOMAIN heap) /\ Once(Slice(s, from, to))
        /\ Elements(Slice(s, from, to)) \subseteq Elements(s)
    BY <1>2, <2>2, SlicePlaces
  <2> QED BY <1>3, <2>1, <2>3
<1>5. CASE Reversed(a, r)
  <2>1. NewArray(a, Reverse(s), r)
    BY <1>5 DEF Reversed
  <2> HIDE DEF s
  <2>2. /\ Reverse(s) \in Seq(DOMAIN heap) /\ Once(Reverse(s))
        /\ Elements(Reverse(s)) \subseteq Elements(s)
    BY <1>2, ReversePlaces
  <2> QED BY <1>3, <2>1, <2>2
<1>6. CASE Sorted(a, r)
  <2>1. NewArray(a, s, r)
    BY <1>6 DEF Sorted
  <2> HIDE DEF s
  <2> QED BY <1>2, <1>3, <2>1
<1> QED BY <1>4, <1>5, <1>6

\* The values of a dict.
LEMMA DictValuesKept ==
    ASSUME ContainersInv, NEW d \in Names, NEW r \in Names, DictValues(d, r)
    PROVE  ContainersInv'
<1> DEFINE e == Cell(d).at
           cells == Present(e)
<1>1. /\ Intact /\ Is("dict", d)
      /\ GiveNew(NewCell(CloneAll(heap, cells).heap, Array(CloneAll(heap, cells).cells)), r)
  BY DEF DictValues
<1>2. /\ e \in [DOMAIN Keys -> DOMAIN heap \cup {Nothing}] /\ Once(e)
      /\ Elements(e) = Children(heap, points[d]) /\ DOMAIN heap \subseteq Nat \ {0}
  BY <1>1, HandleOK, ContainersFacts
<1> HIDE DEF e
<1>3. cells \in Seq(DOMAIN heap) /\ Once(cells) /\ Elements(cells) = Elements(e)
  BY <1>2, PresentOK
<1> HIDE DEF cells
<1> QED BY <1>1, <1>2, <1>3, ClonesGiven

\* What operator= begins with: it empties the container p.
Emptied(h, p, empty) == [Destroyed(h, Children(h, p)) EXCEPT ![p] = empty]

\* Its cells are destroyed, all others live on.
LEMMA EmptiedOK ==
    ASSUME ContainersInv, Intact, NEW a \in Names, Is("array", a) \/ Is("dict", a),
           NEW empty \in {Array(<<>>), Dict(NoEntries)}
    PROVE  LET h == Emptied(heap, points[a], empty)
           IN  /\ Sound(h, Held) /\ DOMAIN h = DOMAIN heap
               /\ h[points[a]] = empty /\ Children(h, points[a]) = {} /\ empty # Deleted
               /\ \A x \in DOMAIN heap : x # points[a] => h[x] = Deleted \/ h[x] = heap[x]
<1> DEFINE h == Emptied(heap, points[a], empty)
           p == points[a]
           G == Children(heap, p)
<1>1. p \in DOMAIN heap /\ heap[p] # Deleted /\ Sound(heap, Held)
  BY HandleOK, ContainersFacts DEF Cell
<1>2. /\ empty \in CellsOver(DOMAIN heap) /\ empty # Deleted /\ Once(empty.at)
      /\ Elements(empty.at) = {}
  BY EmptyOK
<1>3. Elements(empty.at) = Children(heap, p) \ G /\ G \subseteq Children(heap, p)
  BY <1>2
<1>4. Sound(h, Held)
  <2> HIDE DEF p
  <2>1. h = [Destroyed(heap, G) EXCEPT ![p] = empty]
    BY DEF p, Emptied
  <2> HIDE DEF G
  <2>2. Sound([Destroyed(heap, G) EXCEPT ![p] = empty], Held)
    BY <1>1, <1>2, <1>3, DestroyIn
  <2> QED BY <2>1, <2>2
<1>5. /\ DOMAIN Destroyed(heap, G) = DOMAIN heap
      /\ \A x \in DOMAIN heap : Destroyed(heap, G)[x] = Deleted \/ Destroyed(heap, G)[x] = heap[x]
  BY DEF Destroyed
<1>6. /\ DOMAIN h = DOMAIN heap /\ h[p] = empty
      /\ \A x \in DOMAIN heap : x # p => h[x] = Deleted \/ h[x] = heap[x]
  <2> HIDE DEF p
  <2>1. h = [Destroyed(heap, G) EXCEPT ![p] = empty]
    BY DEF p, Emptied
  <2> HIDE DEF G
  <2> QED BY <1>1, <1>5, <2>1
<1> HIDE DEF h
<1>7. Children(h, p) = {}
  BY <1>2, <1>6 DEF Children
<1> QED BY <1>2, <1>4, <1>6, <1>7 DEF h

\* Then it takes clones of the cells of the other.
LEMMA FilledOK ==
    ASSUME ContainersInv, Intact, NEW a \in Names, Live(a),
           NEW h, Sound(h, Held), DOMAIN h = DOMAIN heap,
           h[points[a]] # Deleted, Children(h, points[a]) = {},
           NEW cells, NEW copy, Cloned(h, cells, copy),
           NEW content, content # Deleted, content.at = copy.cells,
           \A D : copy.cells \in [DOMAIN cells -> D \cup {Nothing}] => content \in CellsOver(D),
           Changed(copy.heap, a, content, Nothing)
    PROVE  ContainersInv'
<1>1. PICK t : /\ copy.heap = With(h, t) /\ DOMAIN h \cap DOMAIN t = {}
               /\ Sound(t, Elements(copy.cells))
               /\ copy.cells \in [DOMAIN cells -> DOMAIN t \cup {Nothing}]
               /\ Once(copy.cells)
  BY DEF Cloned
<1>2. points[a] \in DOMAIN h
  BY ContainersFacts
<1>3. content \in CellsOver(DOMAIN h \cup DOMAIN t)
  <2>1. copy.cells \in [DOMAIN cells -> (DOMAIN h \cup DOMAIN t) \cup {Nothing}]
    BY <1>1
  <2> QED BY <2>1
<1>4. /\ Once(content.at)
      /\ Elements(content.at) = Children(h, points[a]) \cup Elements(copy.cells)
  BY <1>1
<1>5. Sound([copy.heap EXCEPT ![points[a]] = content], Held)
  BY <1>1, <1>2, <1>3, <1>4, AttachOK
<1>6. DOMAIN heap \subseteq DOMAIN copy.heap
  BY <1>1 DEF With
<1> QED BY <1>5, <1>6, ChangedOK

\* An array gets the elements of another, or of itself, which it has deleted by then.
LEMMA AssignArrayKept ==
    ASSUME ContainersInv, NEW a \in Names, NEW b \in Names, AssignArray(a, b)
    PROVE  ContainersInv'
<1> DEFINE p == points[a]
           q == points[b]
           h == Emptied(heap, p, Array(<<>>))
           cells == h[q].at
           copy == CloneAll(h, cells)
           content == Array(copy.cells)
<1>1. Intact /\ Is("array", a) /\ Is("array", b)
  BY DEF AssignArray
<1>2. CASE Meets(h, q)
  BY <1>2 DEF AssignArray, Emptied, Faulted, ContainersInv, Intact
<1>3. CASE ~Meets(h, q)
  <2>1. Changed(copy.heap, a, content, Nothing)
    BY <1>3 DEF AssignArray, Emptied
  <2>2. /\ Sound(h, Held) /\ DOMAIN h = DOMAIN heap
        /\ h[p] = Array(<<>>) /\ Children(h, p) = {} /\ Array(<<>>) # Deleted
        /\ \A x \in DOMAIN heap : x # p => h[x] = Deleted \/ h[x] = heap[x]
    <3>1. Array(<<>>) \in {Array(<<>>), Dict(NoEntries)}
      OBVIOUS
    <3>2. Is("array", a) \/ Is("dict", a)
      BY <1>1
    <3> QED BY <1>1, <3>1, <3>2, EmptiedOK
  <2> HIDE DEF h
  <2>3. q \in DOMAIN heap /\ heap[q].kind = "array"
    BY <1>1, HandleOK DEF Is, Cell
  <2>4. h[q] # Deleted
    <3>1. \A d \in DOMAIN h : Children(h, d) \subseteq DOMAIN h
      BY <2>2, ChildrenAreCells DEF Sound
    <3>2. {q} \subseteq DOMAIN h
      BY <2>2, <2>3
    <3>3. {q} \subseteq Reach(h, {q})
      BY <3>1, <3>2, ReachLeast
    <3> QED BY <1>3, <3>3 DEF Meets
  <2>5. h[q].kind = "array"
    BY <2>2, <2>3, <2>4 DEF Array
  <2>6. /\ cells \in Seq(DOMAIN h) /\ Once(cells) /\ Elements(cells) = Children(h, q)
        /\ DOMAIN h \subseteq Nat \ {0}
    <3>1. h[q] \in CellsOver(DOMAIN h) /\ Once(h[q].at)
      BY <2>2, <2>3 DEF Sound, HeapOK
    <3> QED BY <2>2, <2>5, <3>1, KindOK DEF Children, Sound, HeapOK
  <2> HIDE DEF cells
  <2>7. Cloned(h, cells, copy)
    BY <2>2, <2>3, <2>6, CloneElements
  <2> HIDE DEF copy
  <2>8. \A i \in DOMAIN cells : copy.cells[i] # Nothing
    <3>1. \A i \in DOMAIN cells : cells[i] \in DOMAIN h
      BY <2>6
    <3>2. \A i \in DOMAIN cells : cells[i] # Nothing
      BY <2>6, <3>1, ContainersAssumption DEF ContainersAssumption
    <3> QED BY <2>7, <3>2 DEF Cloned
  <2>9. \A D : copy.cells \in [DOMAIN cells -> D \cup {Nothing}] => content \in CellsOver(D)
    <3> SUFFICES ASSUME NEW D, copy.cells \in [DOMAIN cells -> D \cup {Nothing}]
                 PROVE  content \in CellsOver(D)
      OBVIOUS
    <3>1. copy.cells \in Seq(D)
      BY <2>6, <2>8, FullPlaces
    <3> QED BY <3>1, ContentOK
  <2>10. content # Deleted /\ content.at = copy.cells
    BY DEF Array, Deleted
  <2>11. Live(a)
    BY <1>1 DEF Is
  <2> HIDE DEF content
  <2> QED BY <1>1, <2>1, <2>2, <2>7, <2>9, <2>10, <2>11, FilledOK
<1> QED BY <1>2, <1>3

\* A dict gets the entries of another.
LEMMA AssignDictKept ==
    ASSUME ContainersInv, NEW a \in Names, NEW b \in Names, AssignDict(a, b)
    PROVE  ContainersInv'
<1> DEFINE p == points[a]
           q == points[b]
           h == Emptied(heap, p, Dict(NoEntries))
           cells == h[q].at
           copy == CloneAll(h, cells)
           content == Dict(copy.cells)
<1>1. Intact /\ Is("dict", a) /\ Is("dict", b)
  BY DEF AssignDict
<1>2. CASE Meets(h, q)
  BY <1>2 DEF AssignDict, Emptied, Faulted, ContainersInv, Intact
<1>3. CASE ~Meets(h, q)
  <2>1. Changed(copy.heap, a, content, Nothing)
    BY <1>3 DEF AssignDict, Emptied
  <2>2. /\ Sound(h, Held) /\ DOMAIN h = DOMAIN heap
        /\ h[p] = Dict(NoEntries) /\ Children(h, p) = {} /\ Dict(NoEntries) # Deleted
        /\ \A x \in DOMAIN heap : x # p => h[x] = Deleted \/ h[x] = heap[x]
    <3>1. Dict(NoEntries) \in {Array(<<>>), Dict(NoEntries)}
      OBVIOUS
    <3>2. Is("array", a) \/ Is("dict", a)
      BY <1>1
    <3> QED BY <1>1, <3>1, <3>2, EmptiedOK
  <2> HIDE DEF h
  <2>3. q \in DOMAIN heap /\ heap[q].kind = "dict"
    BY <1>1, HandleOK DEF Is, Cell
  <2>4. h[q] # Deleted
    <3>1. \A d \in DOMAIN h : Children(h, d) \subseteq DOMAIN h
      BY <2>2, ChildrenAreCells DEF Sound
    <3>2. {q} \subseteq DOMAIN h
      BY <2>2, <2>3
    <3>3. {q} \subseteq Reach(h, {q})
      BY <3>1, <3>2, ReachLeast
    <3> QED BY <1>3, <3>3 DEF Meets
  <2>5. h[q].kind = "dict"
    BY <2>2, <2>3, <2>4 DEF Dict
  <2>6. /\ cells \in [DOMAIN Keys -> DOMAIN h \cup {Nothing}] /\ Once(cells)
        /\ Elements(cells) = Children(h, q)
    <3>1. h[q] \in CellsOver(DOMAIN h) /\ Once(h[q].at)
      BY <2>2, <2>3 DEF Sound, HeapOK
    <3> QED BY <2>5, <3>1, KindOK DEF Children
  <2> HIDE DEF cells
  <2>7. Cloned(h, cells, copy)
    BY <2>2, <2>3, <2>6, CloneElements
  <2> HIDE DEF copy
  <2>8. \A D : copy.cells \in [DOMAIN cells -> D \cup {Nothing}] => content \in CellsOver(D)
    <3>1. DOMAIN cells = DOMAIN Keys
      BY <2>6
    <3> QED BY <3>1, ContentOK
  <2>9. content # Deleted /\ content.at = copy.cells
    BY DEF Dict, Deleted
  <2>10. Live(a)
    BY <1>1 DEF Is
  <2> HIDE DEF content
  <2> QED BY <1>1, <2>1, <2>2, <2>7, <2>8, <2>9, <2>10, FilledOK
<1> QED BY <1>2, <1>3

\* A new container of one clone.
LEMMA WrappedCloneGiven ==
    ASSUME ContainersInv, Intact, NEW n \in Names, Live(n), NEW r \in Names,
           NEW content, content # Deleted, Once(content.at),
           Elements(content.at) = {Clone(heap, points[n]).cell},
           \A D : Clone(heap, points[n]).cell \in D => content \in CellsOver(D),
           GiveNew(NewCell(Clone(heap, points[n]).heap, content), r)
    PROVE  ContainersInv'
<1> DEFINE copy == Clone(heap, points[n])
           made == NewCell(copy.heap, content)
<1>1. Sound(heap, Held) /\ points[n] \in DOMAIN heap /\ heap[points[n]] # Deleted
  BY ContainersFacts
<1>2. PICK t : /\ copy.heap = With(heap, t) /\ DOMAIN heap \cap DOMAIN t = {}
               /\ Sound(t, {copy.cell})
  BY <1>1, CloneHere
<1>3. copy.cell \in DOMAIN heap \cup DOMAIN t
  BY <1>2 DEF Sound
<1>4. content \in CellsOver(DOMAIN heap \cup DOMAIN t)
  BY <1>3
<1>5. Elements(content.at) = {copy.cell}
  OBVIOUS
<1> HIDE DEF copy
<1>6. /\ Sound(made.heap, Held \cup {made.cell})
      /\ DOMAIN heap \subseteq DOMAIN made.heap /\ made.cell \notin DOMAIN heap
  BY <1>1, <1>2, <1>4, <1>5, WrapNew
<1>7. GiveNew(made, r)
  BY DEF copy
<1> HIDE DEF made
<1> QED BY <1>6, <1>7, GiveNewOK

\* The clone of a value is a cell.
LEMMA CloneIsCell ==
    ASSUME ContainersInv, Intact, NEW n \in Names, Live(n)
    PROVE  Clone(heap, points[n]).cell \in Nat \ {0} /\ Clone(heap, points[n]).cell # Nothing
<1>1. points[n] \in DOMAIN heap /\ heap[points[n]] # Deleted
  BY ContainersFacts
<1>2. PICK t : Sound(t, {Clone(heap, points[n]).cell})
  BY <1>1, CloneHere
<1>3. Clone(heap, points[n]).cell \in Nat \ {0}
  BY <1>2 DEF Sound, HeapOK
<1> QED BY <1>3, ContainersAssumption DEF ContainersAssumption

\* array(...) of a clone.
LEMMA ArrayOfKept ==
    ASSUME ContainersInv, NEW n \in Names, NEW r \in Names, ArrayOf(n, r)
    PROVE  ContainersInv'
<1> DEFINE copy == Clone(heap, points[n])
           content == Array(<<copy.cell>>)
<1>1. Intact /\ Live(n) /\ GiveNew(NewCell(copy.heap, content), r)
  BY DEF ArrayOf
<1>2. copy.cell # Nothing
  BY <1>1, CloneIsCell
<1> HIDE DEF copy
<1>3. Once(<<copy.cell>>) /\ Elements(<<copy.cell>>) = {copy.cell}
  BY <1>2 DEF Once, Elements
<1>4. \A D : copy.cell \in D => <<copy.cell>> \in Seq(D)
  OBVIOUS
<1>5. /\ content # Deleted /\ Once(content.at) /\ Elements(content.at) = {copy.cell}
      /\ \A D : copy.cell \in D => content \in CellsOver(D)
  <2>1. content.at = <<copy.cell>> /\ content # Deleted
    BY DEF Array, Deleted
  <2>2. \A D : copy.cell \in D => content \in CellsOver(D)
    BY <1>4, ContentOK
  <2> QED BY <1>3, <2>1, <2>2
<1> HIDE DEF content
<1> QED BY <1>1, <1>5, WrappedCloneGiven DEF copy

\* dict(...) of a key and a clone.
LEMMA DictOfKept ==
    ASSUME ContainersInv, NEW k \in DOMAIN Keys, NEW n \in Names, NEW r \in Names, DictOf(k, n, r)
    PROVE  ContainersInv'
<1> DEFINE copy == Clone(heap, points[n])
           u == [NoEntries EXCEPT ![k] = copy.cell]
           content == Dict(u)
<1>1. Intact /\ Live(n) /\ GiveNew(NewCell(copy.heap, content), r)
  BY DEF DictOf
<1>2. copy.cell # Nothing
  BY <1>1, CloneIsCell
<1> HIDE DEF copy
<1>3. DOMAIN u = DOMAIN Keys /\ \A j \in DOMAIN Keys : u[j] = IF j = k THEN copy.cell ELSE Nothing
  BY DEF NoEntries
<1>4. \A D : copy.cell \in D => u \in [DOMAIN Keys -> D \cup {Nothing}]
  BY DEF NoEntries
<1> HIDE DEF u
<1>5. Once(u) /\ Elements(u) = {copy.cell}
  BY <1>2, <1>3 DEF Once, Elements
<1>6. /\ content # Deleted /\ Once(content.at) /\ Elements(content.at) = {copy.cell}
      /\ \A D : copy.cell \in D => content \in CellsOver(D)
  <2>1. content.at = u /\ content # Deleted
    BY DEF Dict, Deleted
  <2>2. \A D : copy.cell \in D => content \in CellsOver(D)
    BY <1>4, ContentOK
  <2> QED BY <1>5, <2>1, <2>2
<1> HIDE DEF content
<1> QED BY <1>1, <1>6, WrappedCloneGiven DEF copy

\* The keys of a dict: an array of new texts.
LEMMA DictKeysKept ==
    ASSUME ContainersInv, NEW d \in Names, NEW r \in Names, DictKeys(d, r)
    PROVE  ContainersInv'
<1> DEFINE present == Present(Cell(d).at)
           texts == Fresh(heap, DOMAIN present)
           E == {texts[i] : i \in DOMAIN texts}
           t == [c \in E |-> TextCell]
           content == Array(texts)
           made == NewCell(With(heap, t), content)
<1>1. Intact /\ Is("dict", d) /\ GiveNew(made, r)
  BY DEF DictKeys
<1>2. Sound(heap, Held) /\ IsFiniteSet(DOMAIN heap) /\ DOMAIN heap \subseteq Nat \ {0}
  BY <1>1, ContainersFacts DEF HeapOK
<1>3. present \in Seq(DOMAIN heap)
  BY <1>1, <1>2, HandleOK, PresentOK
<1> HIDE DEF present
<1>4. PICK m \in Nat : DOMAIN present = 1 .. m
  <2>1. Len(present) \in Nat /\ DOMAIN present = 1 .. Len(present)
    BY <1>3
  <2> QED BY <2>1
<1>5. IsFiniteSet(DOMAIN present)
  BY <1>4, FS_Interval
<1>6. /\ texts \in [DOMAIN present -> (Nat \ {0}) \ DOMAIN heap]
      /\ \A i, j \in DOMAIN present : texts[i] = texts[j] => i = j
  BY <1>2, <1>5, FreshOK
<1> HIDE DEF texts
<1>7. /\ DOMAIN texts = 1 .. m /\ texts \in [1 .. m -> E]
      /\ E \subseteq Nat \ {0} /\ DOMAIN heap \cap E = {}
  BY <1>4, <1>6
<1>8. texts \in Seq(E) /\ Once(texts) /\ Elements(texts) = E
  <2>1. texts \in Seq(E)
    <3> HIDE DEF E
    <3> QED BY <1>7, SeqDef
  <2>2. Once(texts)
    BY <1>6 DEF Once
  <2>3. Nothing \notin E
    BY <1>7, ContainersAssumption DEF ContainersAssumption
  <2> QED BY <2>1, <2>2, <2>3 DEF Elements
<1>9. IsFiniteSet(E)
  <2>1. texts \in Surjection(DOMAIN present, E)
    BY <1>6 DEF Surjection
  <2> QED BY <1>5, <2>1, FS_Surjection
<1> HIDE DEF E
<1>10. /\ DOMAIN t = E /\ \A c \in E : t[c] = TextCell /\ Children(t, c) = {}
  BY DEF Children, TextCell, Elements
<1>11. Sound(t, E)
  <2>1. HeapOK(t)
    BY <1>7, <1>9 DEF HeapOK, CellsOver
  <2> HIDE DEF t
  <2>2. \A c \in E : t[c] # Deleted /\ Once(t[c].at)
    BY <1>10 DEF TextCell, Deleted, Once
  <2>3. Ordered(t)
    BY <1>10 DEF Ordered
  <2> QED BY <1>10, <2>1, <2>2, <2>3 DEF Sound
<1> HIDE DEF t
<1>12. /\ content \in CellsOver(DOMAIN heap \cup DOMAIN t) /\ content # Deleted
       /\ Once(content.at) /\ Elements(content.at) = E
  <2>1. texts \in Seq(DOMAIN heap \cup DOMAIN t)
    <3>1. E \subseteq DOMAIN heap \cup DOMAIN t
      BY <1>10
    <3> QED BY <1>8, <3>1, SeqMonotonic
  <2> QED BY <1>8, <2>1, ContentOK
<1> HIDE DEF content
<1>13. /\ Sound(made.heap, Held \cup {made.cell})
       /\ DOMAIN heap \subseteq DOMAIN made.heap /\ made.cell \notin DOMAIN heap
  <2>1. DOMAIN heap \cap DOMAIN t = {}
    BY <1>7, <1>10
  <2> QED BY <1>2, <1>11, <1>12, <2>1, WrapNew
<1> HIDE DEF made
<1> QED BY <1>1, <1>13, GiveNewOK

\* At the start there is no value.
LEMMA ContainersStart ==
    ASSUME ContainersInit
    PROVE  ContainersInv
<1>1. heap = [c \in {} |-> TextCell] /\ DOMAIN heap = {}
  BY DEF ContainersInit
<1>2. owns = {} /\ points = [n \in Names |-> Nothing]
  BY DEF ContainersInit
<1>3. Held = {}
  BY <1>2 DEF Held
<1>4. HeapOK(heap)
  BY <1>1, FS_EmptySet DEF HeapOK
<1>5. Ordered(heap)
  BY <1>1 DEF Ordered
<1>6. Sound(heap, Held)
  BY <1>1, <1>3, <1>4, <1>5 DEF Sound
<1> QED BY <1>1, <1>2, <1>6 DEF ContainersInv, Held

\* Every operation keeps it.
LEMMA ContainersStep ==
    ASSUME ContainersInv, [ContainersNext]_containerVars
    PROVE  ContainersInv'
<1>1. CASE UNCHANGED containerVars
  <2>1. heap' = heap /\ points' = points /\ owns' = owns /\ fault' = fault
    BY <1>1 DEF containerVars
  <2>2. Held' = Held
    BY <2>1 DEF Held
  <2>3. Sound(heap, Held) => Sound(heap, Held)'
    BY <2>1, <2>2
  <2> QED BY <2>1, <2>3 DEF ContainersInv, Intact, Held
<1>2. ASSUME NEW r \in Names, NEW content \in {TextCell, Array(<<>>), Dict(NoEntries)},
             New(r, content)
      PROVE  ContainersInv'
  BY <1>2, NewKept
<1>3. ASSUME NEW n \in Names, Delete(n) \/ Clear(n, Nothing) PROVE ContainersInv'
  BY <1>3, DeleteKept, ClearKept
<1>4. ASSUME NEW a \in Names, NEW n \in Names,
             \/ Copy(a, n) \/ Sliced(a, n) \/ Reversed(a, n) \/ Sorted(a, n) \/ ArrayOf(a, n)
             \/ AssignArray(a, n) \/ AssignDict(a, n) \/ DictValues(a, n) \/ DictKeys(a, n)
      PROVE  ContainersInv'
  BY <1>4, CopyKept, SlicedKept, ArrayOfKept, AssignArrayKept, AssignDictKept, DictValuesKept,
     DictKeysKept
<1>5. ASSUME NEW a \in Names, NEW n \in Names, NEW i \in 0 .. MaxLength,
             \/ InsertElement(a, i, n, Nothing) \/ SetElement(a, i, n, Nothing)
             \/ GetElement(a, i, n) \/ GetElements(a, i, n)
      PROVE  ContainersInv'
  BY <1>5, InsertElementKept, SetElementKept, GetElementKept
<1>6. ASSUME NEW a \in Names, NEW n \in Names, NEW r \in Names, NEW i \in 0 .. MaxLength,
             ArrayMethod(a, i, n, r)
      PROVE  ContainersInv'
  BY <1>6, InsertElementKept, RemoveElementKept, SetElementKept, ClearKept DEF ArrayMethod
<1>7. ASSUME NEW a \in Names, NEW n \in Names, NEW k \in DOMAIN Keys,
             SetEntry(a, k, n, Nothing) \/ GetEntry(a, k, n) \/ DictOf(k, a, n)
      PROVE  ContainersInv'
  BY <1>7, SetEntryKept, GetEntryKept, DictOfKept
<1>8. ASSUME NEW a \in Names, NEW n \in Names, NEW r \in Names, NEW k \in DOMAIN Keys,
             DictMethod(a, k, n, r)
      PROVE  ContainersInv'
  BY <1>8, SetEntryKept, RemoveEntryKept, ClearKept DEF DictMethod
<1>9. ASSUME NEW a \in Names, NEW i \in 1 .. MaxLength, RemoveElement(a, i, Nothing)
      PROVE  ContainersInv'
  BY <1>9, RemoveElementKept
<1>10. ASSUME NEW d \in Names, NEW k \in DOMAIN Keys, RemoveEntry(d, k, Nothing)
       PROVE  ContainersInv'
  BY <1>10, RemoveEntryKept
<1>11. CASE ContainersNext
  BY <1>2, <1>3, <1>4, <1>5, <1>6, <1>7, <1>8, <1>9, <1>10, <1>11 DEF ContainersNext
<1> QED BY <1>1, <1>11

\* Where a cell has its places.
PlacesOf(h, c) ==
    {p \in UNION {{d} \X DOMAIN h[d].at : d \in DOMAIN h} : h[p[1]].at[p[2]] = c}

\* It has one in the cell it is a child of, and no other.
LEMMA OnlyPlace ==
    ASSUME NEW h, NEW R, Sound(h, R), NEW c, c # Nothing
    PROVE  /\ (\A d \in DOMAIN h : c \notin Children(h, d)) => PlacesOf(h, c) = {}
           /\ \A d \in DOMAIN h : c \in Children(h, d) => \E p : PlacesOf(h, c) = {p}
<1> DEFINE places == PlacesOf(h, c)
<1>1. ASSUME NEW p \in places
      PROVE  /\ p = <<p[1], p[2]>> /\ p[1] \in DOMAIN h /\ p[2] \in DOMAIN h[p[1]].at
             /\ h[p[1]].at[p[2]] = c /\ c \in Children(h, p[1])
  <2>1. PICK d \in DOMAIN h : p \in {d} \X DOMAIN h[d].at
    BY <1>1 DEF PlacesOf
  <2>2. p = <<p[1], p[2]>> /\ p[1] = d /\ p[2] \in DOMAIN h[d].at /\ h[p[1]].at[p[2]] = c
    BY <1>1, <2>1 DEF PlacesOf
  <2>3. c \in Children(h, d)
    BY <2>2 DEF Children, Elements
  <2> QED BY <2>2, <2>3
<1>2. ASSUME NEW d \in DOMAIN h, c \in Children(h, d) PROVE \E p : places = {p}
  <2>1. PICK i \in DOMAIN h[d].at : h[d].at[i] = c
    BY <1>2 DEF Children, Elements
  <2>2. <<d, i>> \in places
    <3>1. <<d, i>> \in {d} \X DOMAIN h[d].at /\ <<d, i>>[1] = d /\ <<d, i>>[2] = i
      BY <2>1
    <3> QED BY <2>1, <3>1 DEF PlacesOf
  <2>3. ASSUME NEW p \in places PROVE p = <<d, i>>
    <3>1. p[1] = d
      BY <1>1, <1>2 DEF Sound
    <3>2. Once(h[d].at)
      BY DEF Sound
    <3>3. p[2] = i
      BY <1>1, <2>1, <3>1, <3>2 DEF Once
    <3> QED BY <1>1, <3>1, <3>3
  <2> QED BY <2>2, <2>3
<1> QED BY <1>1, <1>2

\* What the invariant says of one value.
LEMMA OwnedOnce ==
    ASSUME ContainersInv
    PROVE  OneOwner
<1> SUFFICES ASSUME Intact, NEW c \in DOMAIN heap
             PROVE  Cardinality(PlacesOf(heap, c)) + Cardinality({n \in owns : points[n] = c})
                      = IF heap[c] = Deleted THEN 0 ELSE 1
  BY DEF OneOwner, PlacesOf
<1> DEFINE places == PlacesOf(heap, c)
           owners == {n \in owns : points[n] = c}
<1>1. /\ Sound(heap, Held) /\ DOMAIN heap \subseteq Nat \ {0}
      /\ \A m, l \in owns : points[m] = points[l] => m = l
  BY ContainersFacts
<1>2. c # Nothing
  BY <1>1, ContainersAssumption DEF ContainersAssumption
<1>3. /\ (\A d \in DOMAIN heap : c \notin Children(heap, d)) => places = {}
      /\ \A d \in DOMAIN heap : c \in Children(heap, d) => \E p : places = {p}
  BY <1>1, <1>2, OnlyPlace
<1>4. c \notin Held => owners = {}
  BY DEF Held
<1>5. c \in Held => \E n : owners = {n}
  <2> SUFFICES ASSUME c \in Held PROVE \E n : owners = {n}
    OBVIOUS
  <2>1. PICK n \in owns : points[n] = c
    BY DEF Held
  <2> QED BY <1>1, <2>1
<1>6. Cardinality({}) = 0 /\ \A x : Cardinality({x}) = 1
  BY FS_EmptySet, FS_Singleton
<1> HIDE DEF places, owners
<1>7. CASE heap[c] = Deleted
  <2>1. c \notin Held /\ \A d \in DOMAIN heap : c \notin Children(heap, d)
    BY <1>1, <1>7 DEF Sound
  <2>2. Cardinality(places) = 0 /\ Cardinality(owners) = 0
    BY <1>3, <1>4, <1>6, <2>1
  <2> QED BY <1>7, <2>2 DEF places, owners
<1>8. CASE heap[c] # Deleted /\ c \in Held
  <2>1. \A d \in DOMAIN heap : c \notin Children(heap, d)
    BY <1>1, <1>8 DEF Sound
  <2>2. Cardinality(places) = 0 /\ Cardinality(owners) = 1
    BY <1>3, <1>5, <1>6, <1>8, <2>1
  <2> QED BY <1>8, <2>2 DEF places, owners
<1>9. CASE heap[c] # Deleted /\ c \notin Held
  <2>1. \E d \in DOMAIN heap : c \in Children(heap, d)
    BY <1>1, <1>9 DEF Sound
  <2>2. Cardinality(places) = 1 /\ Cardinality(owners) = 0
    BY <1>3, <1>4, <1>6, <1>9, <2>1
  <2> QED BY <1>9, <2>2 DEF places, owners
<1> QED BY <1>7, <1>8, <1>9 DEF places, owners

\* Every value that lives is owned once, by the client or by one place of one container,
\* for any client, any keys and any bounds: arrays clone, dicts keep what they are given,
\* and the destructors of container_values.cpp delete all that is theirs.
THEOREM OneOwnerCorrect == ContainersSpec => []OneOwner
<1>1. ContainersInit => ContainersInv
  BY ContainersStart
<1>2. ContainersInv /\ [ContainersNext]_containerVars => ContainersInv'
  BY ContainersStep
<1>3. ContainersInv => OneOwner
  BY OwnedOnce
<1> QED BY <1>1, <1>2, <1>3, PTL DEF ContainersSpec

----------------------------------------------------------------------------
(* The comparison operators.                                               *)

StrictOrder(R, S) ==
    /\ \A x \in S : <<x, x>> \notin R
    /\ \A x, y \in S : x = y \/ <<x, y>> \in R \/ <<y, x>> \in R
    /\ \A x, y, z \in S : <<x, y>> \in R /\ <<y, z>> \in R => <<x, z>> \in R

\* The first n elements are equal, and the next ones decide, or t is longer.
DecidedAt(R, s, t, n) ==
    /\ n <= Len(s) /\ n < Len(t)
    /\ \A i \in 1 .. n : s[i] = t[i]
    /\ n = Len(s) \/ <<s[n + 1], t[n + 1]>> \in R

\* The order of sequences that the loops over two vectors find.
Lexicographic(R, S) == {p \in Seq(S) \X Seq(S) : \E n \in Nat : DecidedAt(R, p[1], p[2], n)}

\* What Lexicographic says of two sequences.
LEMMA LexicographicMeans ==
    ASSUME NEW R, NEW S, NEW s \in Seq(S), NEW t \in Seq(S)
    PROVE  <<s, t>> \in Lexicographic(R, S) <=> \E n \in Nat : DecidedAt(R, s, t, n)
BY DEF Lexicographic

\* Two sequences are equal, or there is a place at which they are decided.
LEMMA SomewhereDecided ==
    ASSUME NEW R, NEW S, StrictOrder(R, S), NEW s \in Seq(S), NEW t \in Seq(S), s # t
    PROVE  \E n \in Nat : DecidedAt(R, s, t, n) \/ DecidedAt(R, t, s, n)
<1>1. /\ Len(s) \in Nat /\ Len(t) \in Nat
      /\ DOMAIN s = 1 .. Len(s) /\ DOMAIN t = 1 .. Len(t)
      /\ \A i \in 1 .. Len(s) : s[i] \in S
      /\ \A i \in 1 .. Len(t) : t[i] \in S
  BY ElementOfSeq, LenProperties
<1> DEFINE End == {n \in Nat : n >= Len(s) \/ n >= Len(t) \/ s[n + 1] # t[n + 1]}
<1>2. Len(s) \in End
  BY <1>1
<1>3. PICK n \in End : \A m \in End : n <= m
  <2>1. End \subseteq Nat /\ End # {}
    BY <1>2
  <2> HIDE DEF End
  <2> QED BY <2>1, SmallestOf
<1>4. \A m : m \in End <=> m \in Nat /\ (m >= Len(s) \/ m >= Len(t) \/ s[m + 1] # t[m + 1])
  OBVIOUS
<1> HIDE DEF End
<1>5. n \in Nat /\ n <= Len(s)
  BY <1>2, <1>3, <1>4
<1>6. ASSUME NEW m \in Nat, m < n PROVE m < Len(s) /\ m < Len(t) /\ s[m + 1] = t[m + 1]
  <2>1. m \notin End
    BY <1>3, <1>5, <1>6
  <2> QED BY <1>1, <1>6, <1>4, <2>1
<1>7. n <= Len(t)
  <2>1. CASE n = 0
    BY <1>1, <2>1
  <2>2. CASE n # 0
    <3>1. n - 1 \in Nat /\ n - 1 < n
      BY <1>5, <2>2
    <3>2. n - 1 < Len(t)
      BY <1>6, <3>1
    <3> QED BY <1>1, <1>5, <3>2
  <2> QED BY <2>1, <2>2
<1>8. ASSUME NEW i \in 1 .. n PROVE s[i] = t[i]
  <2>1. i - 1 \in Nat /\ i - 1 < n /\ (i - 1) + 1 = i
    BY <1>5
  <2> QED BY <1>6, <2>1
<1>9. CASE n = Len(s) /\ n = Len(t)
  <2>1. s = t
    BY <1>1, <1>8, <1>9, SeqEqual
  <2> QED BY <2>1
<1>10. CASE n = Len(s) /\ n < Len(t)
  <2>1. DecidedAt(R, s, t, n)
    BY <1>5, <1>8, <1>10 DEF DecidedAt
  <2> QED BY <1>5, <2>1
<1>11. CASE n < Len(s) /\ n = Len(t)
  <2>1. DecidedAt(R, t, s, n)
    BY <1>5, <1>8, <1>11 DEF DecidedAt
  <2> QED BY <1>5, <2>1
<1>12. CASE n < Len(s) /\ n < Len(t)
  <2>1. s[n + 1] # t[n + 1]
    BY <1>1, <1>3, <1>5, <1>12, <1>4
  <2>2. s[n + 1] \in S /\ t[n + 1] \in S
    <3>1. n + 1 \in 1 .. Len(s) /\ n + 1 \in 1 .. Len(t)
      BY <1>1, <1>5, <1>12
    <3> QED BY <1>1, <3>1
  <2>3. <<s[n + 1], t[n + 1]>> \in R \/ <<t[n + 1], s[n + 1]>> \in R
    BY <2>1, <2>2 DEF StrictOrder
  <2>4. DecidedAt(R, s, t, n) \/ DecidedAt(R, t, s, n)
    BY <1>5, <1>7, <1>8, <1>12, <2>3 DEF DecidedAt
  <2> QED BY <1>5, <2>4
<1>13. (n = Len(s) \/ n < Len(s)) /\ (n = Len(t) \/ n < Len(t))
  <2>1. n \in Nat /\ Len(s) \in Nat /\ Len(t) \in Nat /\ n <= Len(s) /\ n <= Len(t)
    BY <1>1, <1>5, <1>7
  <2> QED BY ONLY <2>1
<1> QED BY <1>9, <1>10, <1>11, <1>12, <1>13

\* Of two decisions the earlier one is that of the outer sequences.
LEMMA DecisionsCompose ==
    ASSUME NEW R, NEW S, StrictOrder(R, S),
           NEW s \in Seq(S), NEW t \in Seq(S), NEW u \in Seq(S),
           NEW n \in Nat, DecidedAt(R, s, t, n), NEW m \in Nat, DecidedAt(R, t, u, m)
    PROVE  \E k \in Nat : DecidedAt(R, s, u, k)
<1>1. /\ Len(s) \in Nat /\ Len(t) \in Nat /\ Len(u) \in Nat
      /\ \A i \in 1 .. Len(s) : s[i] \in S
      /\ \A i \in 1 .. Len(t) : t[i] \in S
      /\ \A i \in 1 .. Len(u) : u[i] \in S
  BY ElementOfSeq, LenProperties
<1>2. /\ n <= Len(s) /\ n < Len(t)
      /\ \A i \in 1 .. n : s[i] = t[i]
      /\ n = Len(s) \/ <<s[n + 1], t[n + 1]>> \in R
  BY DEF DecidedAt
<1>3. /\ m <= Len(t) /\ m < Len(u)
      /\ \A i \in 1 .. m : t[i] = u[i]
      /\ m = Len(t) \/ <<t[m + 1], u[m + 1]>> \in R
  BY DEF DecidedAt
<1>4. CASE n < m
  <2>1. n + 1 \in 1 .. m /\ t[n + 1] = u[n + 1]
    BY <1>3, <1>4
  <2>2. \A i \in 1 .. n : s[i] = u[i]
    BY <1>2, <1>3, <1>4
  <2>3. n < Len(u)
    BY <1>1, <1>3, <1>4
  <2>4. DecidedAt(R, s, u, n)
    BY <1>2, <2>1, <2>2, <2>3 DEF DecidedAt
  <2> QED BY <2>4
<1>5. CASE m < n
  <2>1. m + 1 \in 1 .. n /\ s[m + 1] = t[m + 1]
    BY <1>2, <1>5
  <2>2. \A i \in 1 .. m : s[i] = u[i]
    BY <1>2, <1>3, <1>5
  <2>3. m < Len(s) /\ m # Len(t)
    BY <1>1, <1>2, <1>5
  <2>4. DecidedAt(R, s, u, m)
    BY <1>1, <1>3, <2>1, <2>2, <2>3 DEF DecidedAt
  <2> QED BY <2>4
<1>6. CASE m = n
  <2>1. \A i \in 1 .. n : s[i] = u[i]
    BY <1>2, <1>3, <1>6
  <2>2. n = Len(s) \/ <<s[n + 1], u[n + 1]>> \in R
    <3>1. CASE n = Len(s)
      BY <3>1
    <3>2. CASE n # Len(s)
      <4>1. n + 1 \in 1 .. Len(s) /\ n + 1 \in 1 .. Len(t) /\ n + 1 \in 1 .. Len(u)
        BY <1>1, <1>2, <1>3, <1>6, <3>2
      <4>2. s[n + 1] \in S /\ t[n + 1] \in S /\ u[n + 1] \in S
        BY <1>1, <4>1
      <4>3. <<s[n + 1], t[n + 1]>> \in R /\ <<t[n + 1], u[n + 1]>> \in R
        BY <1>1, <1>2, <1>3, <1>6, <3>2
      <4> QED BY <4>2, <4>3 DEF StrictOrder
    <3> QED BY <3>1, <3>2
  <2>3. DecidedAt(R, s, u, n)
    BY <1>2, <1>3, <1>6, <2>1, <2>2 DEF DecidedAt
  <2> QED BY <2>3
<1> QED BY <1>4, <1>5, <1>6

\* Sequences of what is totally ordered are totally ordered.
LEMMA LexicographicOrder ==
    ASSUME NEW R, NEW S, StrictOrder(R, S)
    PROVE  StrictOrder(Lexicographic(R, S), Seq(S))
<1>1. ASSUME NEW s \in Seq(S) PROVE <<s, s>> \notin Lexicographic(R, S)
  <2>1. SUFFICES ASSUME NEW n \in Nat, DecidedAt(R, s, s, n) PROVE FALSE
    BY LexicographicMeans
  <2>2. n < Len(s) /\ <<s[n + 1], s[n + 1]>> \in R /\ Len(s) \in Nat
    BY <2>1, LenProperties DEF DecidedAt
  <2>3. n + 1 \in 1 .. Len(s)
    BY <2>2
  <2>4. s[n + 1] \in S
    BY <2>3, ElementOfSeq
  <2> QED BY <2>2, <2>4 DEF StrictOrder
<1>2. ASSUME NEW s \in Seq(S), NEW t \in Seq(S)
      PROVE  s = t \/ <<s, t>> \in Lexicographic(R, S) \/ <<t, s>> \in Lexicographic(R, S)
  BY SomewhereDecided, LexicographicMeans
<1>3. ASSUME NEW s \in Seq(S), NEW t \in Seq(S), NEW u \in Seq(S),
             <<s, t>> \in Lexicographic(R, S), <<t, u>> \in Lexicographic(R, S)
      PROVE  <<s, u>> \in Lexicographic(R, S)
  <2>1. PICK n \in Nat : DecidedAt(R, s, t, n)
    BY <1>3, LexicographicMeans
  <2>2. PICK m \in Nat : DecidedAt(R, t, u, m)
    BY <1>3, LexicographicMeans
  <2>3. \E k \in Nat : DecidedAt(R, s, u, k)
    BY <2>1, <2>2, DecisionsCompose
  <2> QED BY <2>3, LexicographicMeans
<1> QED BY <1>1, <1>2, <1>3 DEF StrictOrder

IntOrder  == {p \in Int \X Int : p[1] < p[2]}
TextOrder == Lexicographic(IntOrder, Int)

\* Numbers are ordered by <.
LEMMA NumbersOrdered == StrictOrder(IntOrder, Int)
BY DEF StrictOrder, IntOrder

\* Texts are ordered as sequences of numbers.
LEMMA TextsOrdered == StrictOrder(TextOrder, Seq(Int))
BY NumbersOrdered, LexicographicOrder DEF TextOrder

\* Two sequences with the same first n elements.
LEMMA SamePrefix ==
    ASSUME NEW S, NEW s \in Seq(S), NEW t \in Seq(S), NEW n \in Nat, n <= Len(s), n <= Len(t)
    PROVE  SubSeq(s, 1, n) = SubSeq(t, 1, n) <=> \A i \in 1 .. n : s[i] = t[i]
<1>1. /\ Len(s) \in Nat /\ Len(t) \in Nat
      /\ \A i \in 1 .. n : s[i] \in S /\ t[i] \in S
  <2>1. Len(s) \in Nat /\ Len(t) \in Nat
    BY LenProperties
  <2>2. \A i \in 1 .. n : i \in 1 .. Len(s) /\ i \in 1 .. Len(t)
    BY <2>1
  <2> QED BY <2>1, <2>2, ElementOfSeq
<1>2. /\ SubSeq(s, 1, n) \in Seq(S) /\ Len(SubSeq(s, 1, n)) = n
      /\ \A i \in 1 .. n : SubSeq(s, 1, n)[i] = s[i]
  BY <1>1, SubSeqProperties
<1>3. /\ SubSeq(t, 1, n) \in Seq(S) /\ Len(SubSeq(t, 1, n)) = n
      /\ \A i \in 1 .. n : SubSeq(t, 1, n)[i] = t[i]
  BY <1>1, SubSeqProperties
<1>4. ASSUME \A i \in 1 .. n : s[i] = t[i] PROVE SubSeq(s, 1, n) = SubSeq(t, 1, n)
  <2>1. Len(SubSeq(s, 1, n)) = Len(SubSeq(t, 1, n))
    BY <1>2, <1>3
  <2>2. \A i \in 1 .. Len(SubSeq(s, 1, n)) : SubSeq(s, 1, n)[i] = SubSeq(t, 1, n)[i]
    BY <1>2, <1>3, <1>4
  <2> QED BY <1>2, <1>3, <2>1, <2>2, SeqEqual
<1> QED BY <1>2, <1>3, <1>4

\* operator< of two texts.
LEMMA TextLessMeans ==
    ASSUME NEW s \in Seq(Int), NEW t \in Seq(Int)
    PROVE  TextLess(s, t) <=> <<s, t>> \in TextOrder
<1>1. /\ Len(s) \in Nat /\ Len(t) \in Nat
      /\ \A i \in 1 .. Len(s) : s[i] \in Int
      /\ \A i \in 1 .. Len(t) : t[i] \in Int
  BY ElementOfSeq, LenProperties
<1>2. ASSUME NEW n \in Nat, n <= Len(s), n < Len(t), n # Len(s)
      PROVE  <<s[n + 1], t[n + 1]>> \in IntOrder <=> s[n + 1] < t[n + 1]
  <2>1. n + 1 \in 1 .. Len(s) /\ n + 1 \in 1 .. Len(t)
    BY <1>1, <1>2
  <2>2. s[n + 1] \in Int /\ t[n + 1] \in Int
    BY <1>1, <2>1
  <2> QED BY <2>2 DEF IntOrder
<1>3. ASSUME NEW n \in Nat, n <= Len(s), n < Len(t)
      PROVE  SubSeq(s, 1, n) = SubSeq(t, 1, n) <=> \A i \in 1 .. n : s[i] = t[i]
  <2>1. n <= Len(t)
    BY <1>1, <1>3
  <2> QED BY <1>3, <2>1, SamePrefix
<1>4. TextLess(s, t) <=> \E n \in Nat : DecidedAt(IntOrder, s, t, n)
  <2>1. ASSUME NEW n \in 0 .. Len(s), n < Len(t), SubSeq(s, 1, n) = SubSeq(t, 1, n),
               n = Len(s) \/ s[n + 1] < t[n + 1]
        PROVE  n \in Nat /\ DecidedAt(IntOrder, s, t, n)
    <3>1. n \in Nat /\ n <= Len(s)
      BY <1>1
    <3> QED BY <1>2, <1>3, <2>1, <3>1 DEF DecidedAt
  <2>2. ASSUME NEW n \in Nat, DecidedAt(IntOrder, s, t, n)
        PROVE  /\ n \in 0 .. Len(s) /\ n < Len(t) /\ SubSeq(s, 1, n) = SubSeq(t, 1, n)
               /\ n = Len(s) \/ s[n + 1] < t[n + 1]
    <3>1. n <= Len(s) /\ n < Len(t)
      BY <2>2 DEF DecidedAt
    <3>2. n \in 0 .. Len(s)
      BY <1>1, <3>1
    <3> QED BY <1>2, <1>3, <2>2, <3>1, <3>2 DEF DecidedAt
  <2> QED BY <2>1, <2>2 DEF TextLess
<1> QED BY <1>4, LexicographicMeans DEF TextOrder

\* The first place at which two sequences differ decides.
LEMMA FirstDifference ==
    ASSUME NEW R, NEW S, StrictOrder(R, S), NEW s \in Seq(S), NEW t \in Seq(S),
           NEW d \in Nat \ {0}, d <= Len(s), d <= Len(t),
           \A i \in 1 .. d - 1 : s[i] = t[i], s[d] # t[d]
    PROVE  <<s, t>> \in Lexicographic(R, S) <=> <<s[d], t[d]>> \in R
<1>1. /\ Len(s) \in Nat /\ Len(t) \in Nat
      /\ \A i \in 1 .. Len(s) : s[i] \in S
  BY ElementOfSeq, LenProperties
<1>2. ASSUME <<s[d], t[d]>> \in R PROVE \E n \in Nat : DecidedAt(R, s, t, n)
  <2>1. d - 1 \in Nat /\ d - 1 <= Len(s) /\ d - 1 < Len(t) /\ (d - 1) + 1 = d
    BY <1>1
  <2>2. DecidedAt(R, s, t, d - 1)
    BY <1>2, <2>1 DEF DecidedAt
  <2> QED BY <2>1, <2>2
<1>3. ASSUME NEW n \in Nat, DecidedAt(R, s, t, n) PROVE <<s[d], t[d]>> \in R
  <2>1. /\ n <= Len(s) /\ n < Len(t)
        /\ \A i \in 1 .. n : s[i] = t[i]
        /\ n = Len(s) \/ <<s[n + 1], t[n + 1]>> \in R
    BY <1>3 DEF DecidedAt
  <2>2. CASE n >= d
    <3>1. d \in 1 .. n
      BY <2>2
    <3> QED BY <2>1, <3>1
  <2>3. CASE n < d - 1
    <3>1. n + 1 \in 1 .. d - 1 /\ n + 1 \in 1 .. Len(s) /\ n # Len(s)
      BY <1>1, <2>3
    <3>2. s[n + 1] = t[n + 1] /\ s[n + 1] \in S
      BY <1>1, <3>1
    <3> QED BY <2>1, <3>1, <3>2 DEF StrictOrder
  <2>4. CASE n = d - 1
    <3>1. n # Len(s) /\ n + 1 = d
      BY <1>1, <2>4
    <3> QED BY <2>1, <3>1
  <2> QED BY <2>2, <2>3, <2>4
<1> QED BY <1>2, <1>3, LexicographicMeans

\* Of two sequences that nowhere differ the longer one comes later.
LEMMA NoDifference ==
    ASSUME NEW R, NEW S, StrictOrder(R, S), NEW s \in Seq(S), NEW t \in Seq(S),
           \A i \in 1 .. Len(s) : i <= Len(t) => s[i] = t[i]
    PROVE  <<s, t>> \in Lexicographic(R, S) <=> Len(s) < Len(t)
<1>1. /\ Len(s) \in Nat /\ Len(t) \in Nat
      /\ \A i \in 1 .. Len(s) : s[i] \in S
  BY ElementOfSeq, LenProperties
<1>2. ASSUME Len(s) < Len(t) PROVE \E n \in Nat : DecidedAt(R, s, t, n)
  <2>1. DecidedAt(R, s, t, Len(s))
    BY <1>1, <1>2 DEF DecidedAt
  <2> QED BY <1>1, <2>1
<1>3. ASSUME NEW n \in Nat, DecidedAt(R, s, t, n) PROVE Len(s) < Len(t)
  <2>1. /\ n <= Len(s) /\ n < Len(t)
        /\ n = Len(s) \/ <<s[n + 1], t[n + 1]>> \in R
    BY <1>3 DEF DecidedAt
  <2>2. CASE n = Len(s)
    BY <2>1, <2>2
  <2>3. CASE n # Len(s)
    <3>1. n + 1 \in 1 .. Len(s) /\ n + 1 <= Len(t)
      BY <1>1, <2>1, <2>3
    <3>2. s[n + 1] = t[n + 1] /\ s[n + 1] \in S
      BY <1>1, <3>1
    <3> QED BY <2>1, <2>3, <3>2 DEF StrictOrder
  <2> QED BY <2>2, <2>3
<1> QED BY <1>2, <1>3, LexicographicMeans

ArrayOrder == Lexicographic(TextOrder, Seq(Int))

\* Arrays are ordered as sequences of texts.
LEMMA ArraysOrdered == StrictOrder(ArrayOrder, Seq(Seq(Int)))
BY TextsOrdered, LexicographicOrder DEF ArrayOrder

\* std::min of two lengths.
LEMMA MinOfTwo ==
    ASSUME NEW m \in Nat, NEW n \in Nat
    PROVE  Min({m, n}) = IF m <= n THEN m ELSE n
<1>1. Min({m, n}) \in {m, n} /\ \A y \in {m, n} : Min({m, n}) <= y
  BY MinIsSmallest
<1> QED BY <1>1

\* operator< of two arrays.
LEMMA ArrayLessMeans ==
    ASSUME NEW s \in Seq(Seq(Int)), NEW t \in Seq(Seq(Int))
    PROVE  ArrayLess(s, t) <=> <<s, t>> \in ArrayOrder
<1> DEFINE n == Min({Len(s), Len(t)})
           differ == {i \in 1 .. n : s[i] # t[i]}
<1>1. /\ Len(s) \in Nat /\ Len(t) \in Nat
      /\ \A i \in 1 .. Len(s) : s[i] \in Seq(Int)
      /\ \A i \in 1 .. Len(t) : t[i] \in Seq(Int)
  BY ElementOfSeq, LenProperties
<1>2. n = IF Len(s) <= Len(t) THEN Len(s) ELSE Len(t)
  BY <1>1, MinOfTwo
<1>3. ArrayLess(s, t) = IF differ = {} THEN Len(s) < Len(t) ELSE TextLess(s[Min(differ)], t[Min(differ)])
  BY DEF ArrayLess
<1>4. \A i : i \in differ <=> i \in 1 .. n /\ s[i] # t[i]
  OBVIOUS
<1> HIDE DEF n, differ
<1>5. CASE differ = {}
  <2>1. ASSUME NEW i \in 1 .. Len(s), i <= Len(t) PROVE s[i] = t[i]
    <3>1. i \in 1 .. n
      BY <1>1, <1>2, <2>1
    <3> QED BY <1>4, <1>5, <3>1
  <2> QED BY <1>3, <1>5, <2>1, NoDifference, TextsOrdered DEF ArrayOrder
<1>6. CASE differ # {}
  <2>1. differ \subseteq Nat
    BY <1>1, <1>2, <1>4
  <2> DEFINE d == Min(differ)
  <2>2. d \in differ /\ \A y \in differ : d <= y
    BY <1>6, <2>1, MinIsSmallest
  <2> HIDE DEF d
  <2>3. d \in 1 .. n /\ s[d] # t[d]
    BY <1>4, <2>2
  <2>4. d \in Nat \ {0} /\ d <= Len(s) /\ d <= Len(t)
    BY <1>1, <1>2, <2>3
  <2>5. ASSUME NEW i \in 1 .. d - 1 PROVE s[i] = t[i]
    <3>1. i \in 1 .. n /\ ~(d <= i)
      BY <1>1, <1>2, <2>3, <2>4
    <3> QED BY <1>4, <2>2, <3>1
  <2>6. <<s, t>> \in ArrayOrder <=> <<s[d], t[d]>> \in TextOrder
    BY <2>3, <2>4, <2>5, FirstDifference, TextsOrdered DEF ArrayOrder
  <2>7. d \in 1 .. Len(s) /\ d \in 1 .. Len(t)
    BY <1>1, <2>4
  <2>8. TextLess(s[d], t[d]) <=> <<s[d], t[d]>> \in TextOrder
    BY <1>1, <2>7, TextLessMeans
  <2>9. ArrayLess(s, t) = TextLess(s[d], t[d])
    BY <1>3, <1>6 DEF d
  <2> QED BY <2>6, <2>8, <2>9
<1> QED BY <1>5, <1>6

\* Entries, and the order that operator< of dicts compares them in.
Pairs == [key : Seq(Int), text : Seq(Int)]
PairOrder ==
    {p \in Pairs \X Pairs :
        IF p[1].key # p[2].key THEN <<p[1].key, p[2].key>> \in TextOrder
                               ELSE <<p[1].text, p[2].text>> \in TextOrder}
DictOrder ==
    {p \in Seq(Pairs) \X Seq(Pairs) :
        IF Len(p[1]) # Len(p[2]) THEN Len(p[1]) < Len(p[2]) ELSE p \in Lexicographic(PairOrder, Pairs)}

\* Entries of a dict go by their keys, and with the same key by what they hold.
LEMMA PairOrderMeans ==
    ASSUME NEW x \in Pairs, NEW y \in Pairs
    PROVE  <<x, y>> \in PairOrder <=>
              IF x.key # y.key THEN <<x.key, y.key>> \in TextOrder ELSE <<x.text, y.text>> \in TextOrder
BY DEF PairOrder

\* That is an order of entries.
LEMMA PairsOrdered == StrictOrder(PairOrder, Pairs)
<1>1. \A x \in Pairs : x.key \in Seq(Int) /\ x.text \in Seq(Int)
  BY DEF Pairs
<1>2. \A x, y \in Pairs : x.key = y.key /\ x.text = y.text => x = y
  BY DEF Pairs
<1>3. /\ \A x \in Seq(Int) : <<x, x>> \notin TextOrder
      /\ \A x, y \in Seq(Int) : x = y \/ <<x, y>> \in TextOrder \/ <<y, x>> \in TextOrder
      /\ \A x, y, z \in Seq(Int) :
            <<x, y>> \in TextOrder /\ <<y, z>> \in TextOrder => <<x, z>> \in TextOrder
  BY TextsOrdered DEF StrictOrder
<1>4. \A x \in Pairs : <<x, x>> \notin PairOrder
  BY <1>1, <1>3, PairOrderMeans
<1>5. ASSUME NEW x \in Pairs, NEW y \in Pairs
      PROVE  x = y \/ <<x, y>> \in PairOrder \/ <<y, x>> \in PairOrder
  <2>1. x.key \in Seq(Int) /\ y.key \in Seq(Int) /\ x.text \in Seq(Int) /\ y.text \in Seq(Int)
    BY <1>1
  <2>2. CASE x.key # y.key
    BY <1>3, <2>1, <2>2, PairOrderMeans
  <2>3. CASE x.key = y.key
    BY <1>2, <1>3, <2>1, <2>3, PairOrderMeans
  <2> QED BY <2>2, <2>3
<1>6. ASSUME NEW x \in Pairs, NEW y \in Pairs, NEW z \in Pairs,
             <<x, y>> \in PairOrder, <<y, z>> \in PairOrder
      PROVE  <<x, z>> \in PairOrder
  <2>1. /\ x.key \in Seq(Int) /\ y.key \in Seq(Int) /\ z.key \in Seq(Int)
        /\ x.text \in Seq(Int) /\ y.text \in Seq(Int) /\ z.text \in Seq(Int)
    BY <1>1
  <2>2. IF x.key # y.key THEN <<x.key, y.key>> \in TextOrder ELSE <<x.text, y.text>> \in TextOrder
    BY <1>6, PairOrderMeans
  <2>3. IF y.key # z.key THEN <<y.key, z.key>> \in TextOrder ELSE <<y.text, z.text>> \in TextOrder
    BY <1>6, PairOrderMeans
  <2>4. CASE x.key # z.key
    <3>1. <<x.key, z.key>> \in TextOrder
      BY <1>3, <2>1, <2>2, <2>3, <2>4
    <3> QED BY <2>4, <3>1, PairOrderMeans
  <2>5. CASE x.key = z.key
    <3>1. x.key = y.key
      BY <1>3, <2>1, <2>2, <2>3, <2>5
    <3>2. <<x.text, z.text>> \in TextOrder
      BY <1>3, <2>1, <2>2, <2>3, <2>5, <3>1
    <3> QED BY <2>5, <3>2, PairOrderMeans
  <2> QED BY <2>4, <2>5
<1> QED BY <1>4, <1>5, <1>6 DEF StrictOrder

\* The shorter dict comes first; those of one length go by their entries.
LEMMA DictOrderMeans ==
    ASSUME NEW s \in Seq(Pairs), NEW t \in Seq(Pairs)
    PROVE  <<s, t>> \in DictOrder <=>
              IF Len(s) # Len(t) THEN Len(s) < Len(t) ELSE <<s, t>> \in Lexicographic(PairOrder, Pairs)
BY DEF DictOrder

\* That is an order of dicts.
LEMMA DictsOrdered == StrictOrder(DictOrder, Seq(Pairs))
<1> DEFINE L == Lexicographic(PairOrder, Pairs)
<1>1. StrictOrder(L, Seq(Pairs))
  BY PairsOrdered, LexicographicOrder
<1>2. ASSUME NEW s \in Seq(Pairs), NEW t \in Seq(Pairs)
      PROVE  <<s, t>> \in DictOrder <=> IF Len(s) # Len(t) THEN Len(s) < Len(t) ELSE <<s, t>> \in L
  BY DictOrderMeans
<1>3. \A s \in Seq(Pairs) : Len(s) \in Nat
  BY LenProperties
<1> HIDE DEF L
<1>4. /\ \A x \in Seq(Pairs) : <<x, x>> \notin L
      /\ \A x, y \in Seq(Pairs) : x = y \/ <<x, y>> \in L \/ <<y, x>> \in L
      /\ \A x, y, z \in Seq(Pairs) : <<x, y>> \in L /\ <<y, z>> \in L => <<x, z>> \in L
  BY <1>1 DEF StrictOrder
<1>5. \A x \in Seq(Pairs) : <<x, x>> \notin DictOrder
  BY <1>2, <1>4
<1>6. ASSUME NEW x \in Seq(Pairs), NEW y \in Seq(Pairs)
      PROVE  x = y \/ <<x, y>> \in DictOrder \/ <<y, x>> \in DictOrder
  <2>1. Len(x) \in Nat /\ Len(y) \in Nat
    BY <1>3
  <2>2. Len(x) < Len(y) \/ Len(y) < Len(x) \/ Len(x) = Len(y)
    BY <2>1
  <2> QED BY <1>2, <1>4, <2>2
<1>7. ASSUME NEW x \in Seq(Pairs), NEW y \in Seq(Pairs), NEW z \in Seq(Pairs),
             <<x, y>> \in DictOrder, <<y, z>> \in DictOrder
      PROVE  <<x, z>> \in DictOrder
  <2>1. Len(x) \in Nat /\ Len(y) \in Nat /\ Len(z) \in Nat
    BY <1>3
  <2>2. IF Len(x) # Len(y) THEN Len(x) < Len(y) ELSE <<x, y>> \in L
    BY <1>2, <1>7
  <2>3. IF Len(y) # Len(z) THEN Len(y) < Len(z) ELSE <<y, z>> \in L
    BY <1>2, <1>7
  <2>4. IF Len(x) # Len(z) THEN Len(x) < Len(z) ELSE Len(x) = Len(y) /\ Len(y) = Len(z)
    BY <2>1, <2>2, <2>3
  <2>5. Len(x) = Len(z) => <<x, z>> \in L
    BY <1>4, <2>2, <2>3, <2>4
  <2> QED BY <1>2, <2>4, <2>5
<1> QED BY <1>5, <1>6, <1>7 DEF StrictOrder

\* operator< of two dicts.
LEMMA DictLessMeans ==
    ASSUME NEW s \in Seq(Pairs), NEW t \in Seq(Pairs)
    PROVE  DictLess(s, t) <=> <<s, t>> \in DictOrder
<1> DEFINE differ == {i \in DOMAIN s : s[i] # t[i]}
           d == Min(differ)
<1>1. /\ Len(s) \in Nat /\ Len(t) \in Nat /\ DOMAIN s = 1 .. Len(s)
      /\ \A i \in 1 .. Len(s) : s[i] \in Pairs
      /\ \A i \in 1 .. Len(t) : t[i] \in Pairs
  BY ElementOfSeq, LenProperties
<1>2. DictLess(s, t) <=>
        IF Len(s) # Len(t) THEN Len(s) < Len(t)
        ELSE /\ differ # {}
             /\ IF s[d].key # t[d].key THEN TextLess(s[d].key, t[d].key) ELSE TextLess(s[d].text, t[d].text)
  BY DEF DictLess
<1>3. \A i : i \in differ <=> i \in 1 .. Len(s) /\ s[i] # t[i]
  BY <1>1
<1> HIDE DEF differ
<1>4. CASE Len(s) # Len(t)
  BY <1>2, <1>4, DictOrderMeans
<1>5. CASE Len(s) = Len(t) /\ differ = {}
  <2>1. \A i \in 1 .. Len(s) : s[i] = t[i]
    BY <1>3, <1>5
  <2>2. <<s, t>> \in Lexicographic(PairOrder, Pairs) <=> Len(s) < Len(t)
    BY <2>1, NoDifference, PairsOrdered
  <2>3. ~(Len(s) < Len(t))
    BY <1>1, <1>5
  <2>4. <<s, t>> \notin DictOrder
    BY <1>5, <2>2, <2>3, DictOrderMeans
  <2> QED BY <1>2, <1>5, <2>4
<1>6. CASE Len(s) = Len(t) /\ differ # {}
  <2>1. differ \subseteq Nat
    BY <1>1, <1>3
  <2>2. d \in differ /\ \A y \in differ : d <= y
    BY <1>6, <2>1, MinIsSmallest
  <2> HIDE DEF d
  <2>3. d \in 1 .. Len(s) /\ s[d] # t[d]
    BY <1>3, <2>2
  <2>4. d \in Nat \ {0} /\ d <= Len(s) /\ d <= Len(t)
    BY <1>1, <1>6, <2>3
  <2>5. ASSUME NEW i \in 1 .. d - 1 PROVE s[i] = t[i]
    <3>1. i \in 1 .. Len(s) /\ ~(d <= i)
      BY <1>1, <2>3, <2>4
    <3> QED BY <1>3, <2>2, <3>1
  <2>6. <<s, t>> \in DictOrder <=> <<s[d], t[d]>> \in PairOrder
    <3>1. <<s, t>> \in Lexicographic(PairOrder, Pairs) <=> <<s[d], t[d]>> \in PairOrder
      BY <2>3, <2>4, <2>5, FirstDifference, PairsOrdered
    <3> QED BY <1>6, <3>1, DictOrderMeans
  <2>7. s[d] \in Pairs /\ t[d] \in Pairs
    BY <1>1, <1>6, <2>3
  <2>8. /\ s[d].key \in Seq(Int) /\ t[d].key \in Seq(Int)
        /\ s[d].text \in Seq(Int) /\ t[d].text \in Seq(Int)
    BY <2>7 DEF Pairs
  <2>9. /\ TextLess(s[d].key, t[d].key) <=> <<s[d].key, t[d].key>> \in TextOrder
        /\ TextLess(s[d].text, t[d].text) <=> <<s[d].text, t[d].text>> \in TextOrder
    BY <2>8, TextLessMeans
  <2>10. DictLess(s, t) <=>
           IF s[d].key # t[d].key THEN TextLess(s[d].key, t[d].key) ELSE TextLess(s[d].text, t[d].text)
    BY <1>2, <1>6
  <2>11. <<s[d], t[d]>> \in PairOrder <=>
           IF s[d].key # t[d].key THEN <<s[d].key, t[d].key>> \in TextOrder
                                  ELSE <<s[d].text, t[d].text>> \in TextOrder
    BY <2>7, PairOrderMeans
  <2>12. CASE s[d].key # t[d].key
    <3>1. DictLess(s, t) <=> TextLess(s[d].key, t[d].key)
      BY <2>10, <2>12
    <3> QED BY <2>6, <2>9, <2>11, <2>12, <3>1
  <2>13. CASE s[d].key = t[d].key
    <3>1. DictLess(s, t) <=> TextLess(s[d].text, t[d].text)
      BY <2>10, <2>13
    <3> QED BY <2>6, <2>9, <2>11, <2>13, <3>1
  <2> QED BY <2>12, <2>13
<1> QED BY <1>4, <1>5, <1>6

\* What is asked of a total order: the lines of ComparisonsOrder, of a relation.
LEMMA OrderAnswers ==
    ASSUME NEW R, NEW S, StrictOrder(R, S), NEW x \in S, NEW y \in S
    PROVE  /\ <<x, y>> \in R <=> x # y /\ <<y, x>> \notin R
           /\ x = y <=> <<x, y>> \notin R /\ <<y, x>> \notin R
           /\ \A z \in S : <<x, y>> \in R /\ <<y, z>> \in R => <<x, z>> \in R
           /\ \A z \in S : <<y, x>> \notin R /\ <<z, y>> \notin R => <<z, x>> \notin R
<1>1. /\ \A u \in S : <<u, u>> \notin R
      /\ \A u, v \in S : u = v \/ <<u, v>> \in R \/ <<v, u>> \in R
      /\ \A u, v, w \in S : <<u, v>> \in R /\ <<v, w>> \in R => <<u, w>> \in R
  BY DEF StrictOrder
<1>2. ASSUME NEW z \in S, <<y, x>> \notin R, <<z, y>> \notin R PROVE <<z, x>> \notin R
  <2>1. CASE y = z
    BY <1>2, <2>1
  <2>2. CASE <<y, z>> \in R
    BY <1>1, <1>2, <2>2
  <2> QED BY <1>1, <1>2, <2>1, <2>2
<1> QED BY <1>1, <1>2

\* The operators of what compare the parts that At gives by the order R.
OrderedBy(what, C, At, R) ==
    \A u, v \in C : /\ Says(what, "<", u, v) <=> <<At[u], At[v]>> \in R
                    /\ Says(what, "==", u, v) <=> At[u] = At[v]
                    /\ Says(what, "!=", u, v) <=> At[u] # At[v]
                    /\ Says(what, ">", u, v) <=> <<At[v], At[u]>> \in R

\* A comparison yields one bool, and > answers for what neither is < nor ==.
LEMMA CompareSays ==
    ASSUME NEW less \in BOOLEAN, NEW equal \in BOOLEAN
    PROVE  /\ BoolValue(TRUE) \in Compare("<", less, equal) <=> less
           /\ BoolValue(TRUE) \in Compare("==", less, equal) <=> equal
           /\ BoolValue(TRUE) \in Compare("!=", less, equal) <=> ~equal
           /\ BoolValue(TRUE) \in Compare(">", less, equal) <=> ~less /\ ~equal
           /\ \A op \in Comparisons : \E b \in BOOLEAN : Compare(op, less, equal) = {BoolValue(b)}
<1>1. \A b \in BOOLEAN : BoolValue(TRUE) = BoolValue(b) <=> b
  BY DEF BoolValue, Value
<1>2. /\ Compare("<", less, equal) = {BoolValue(less)}
      /\ Compare("==", less, equal) = {BoolValue(equal)}
      /\ Compare("!=", less, equal) = {BoolValue(~equal)}
      /\ Compare(">", less, equal) = {BoolValue(~less /\ ~equal)}
  BY DEF Compare
<1>3. (~equal) \in BOOLEAN /\ (~less /\ ~equal) \in BOOLEAN
  OBVIOUS
<1> QED BY <1>1, <1>2, <1>3 DEF Comparisons

\* What an operator of two basic values does is to compare two parts.
LEMMA BasicCompares ==
    ASSUME NEW x, NEW y \in Comparable("binary", x), NEW z \in Comparable("binary", x), NEW op \in Comparisons
    PROVE  BasicOperation(op, y, z) =
             IF x.type = "string" THEN Compare(op, TextLess(y.text, z.text), y.text = z.text)
                                  ELSE Compare(op, y.n < z.n, y.n = z.n)
<1>1. /\ y.type = x.type /\ z.type = x.type
      /\ x.type \in {"int", "char", "double", "string"}
      /\ x.type = "double" => ~IsNaN(y) /\ ~IsNaN(z)
  BY DEF Comparable, BasicTypes
<1>2. CASE x.type = "int"
  BY <1>1, <1>2 DEF BasicOperation, IntOperation, Comparisons, BitOperators
<1>3. CASE x.type = "char"
  BY <1>1, <1>3 DEF BasicOperation, CharOperation, Comparisons, BitOperators
<1>4. CASE x.type = "double"
  BY <1>1, <1>4 DEF BasicOperation, DoubleOperation, Comparisons, Arithmetic
<1>5. CASE x.type = "string"
  BY <1>1, <1>5 DEF BasicOperation, StringOperation, Comparisons
<1> QED BY <1>1, <1>2, <1>3, <1>4, <1>5

\* Numbers are compared by their number, and texts by their text.
LEMMA BasicOrdered ==
    ASSUME NEW x
    PROVE  LET C == Comparable("binary", x)
           IN  \E R, S, At : StrictOrder(R, S) /\ At \in [C -> S] /\ OrderedBy("binary", C, At, R)
<1> DEFINE C == Comparable("binary", x)
<1>1. \A u \in C : u.n \in Int /\ u.text \in Seq(Int)
  BY ValuesAssumption DEF ValuesAssumption, Comparable
<1>2. ASSUME NEW u \in C, NEW v \in C, NEW op \in Comparisons
      PROVE  Says("binary", op, u, v) <=>
               BoolValue(TRUE) \in
                 IF x.type = "string" THEN Compare(op, TextLess(u.text, v.text), u.text = v.text)
                                      ELSE Compare(op, u.n < v.n, u.n = v.n)
  <2>1. Says("binary", op, u, v) <=> BoolValue(TRUE) \in BasicOperation(op, u, v)
    BY DEF Says
  <2>2. BasicOperation(op, u, v) =
          IF x.type = "string" THEN Compare(op, TextLess(u.text, v.text), u.text = v.text)
                               ELSE Compare(op, u.n < v.n, u.n = v.n)
    BY <1>2, BasicCompares
  <2> QED BY <2>1, <2>2
<1> HIDE DEF C
<1>3. {"<", ">", "==", "!="} \subseteq Comparisons
  BY DEF Comparisons
<1>4. CASE x.type = "string"
  <2> DEFINE At == [u \in C |-> u.text]
  <2>1. At \in [C -> Seq(Int)]
    BY <1>1
  <2>2. ASSUME NEW u \in C, NEW v \in C
        PROVE  /\ Says("binary", "<", u, v) <=> <<At[u], At[v]>> \in TextOrder
               /\ Says("binary", "==", u, v) <=> At[u] = At[v]
               /\ Says("binary", "!=", u, v) <=> At[u] # At[v]
               /\ Says("binary", ">", u, v) <=> <<At[v], At[u]>> \in TextOrder
    <3> DEFINE less == TextLess(u.text, v.text)
               equal == u.text = v.text
    <3>1. u.text \in Seq(Int) /\ v.text \in Seq(Int)
      BY <1>1
    <3>2. less \in BOOLEAN /\ equal \in BOOLEAN
      BY DEF TextLess
    <3>3. \A op \in Comparisons :
            Says("binary", op, u, v) <=> BoolValue(TRUE) \in Compare(op, less, equal)
      BY <1>2, <1>4
    <3>4. less <=> <<u.text, v.text>> \in TextOrder
      BY <3>1, TextLessMeans
    <3> HIDE DEF less
    <3>5. /\ Says("binary", "<", u, v) <=> less
          /\ Says("binary", "==", u, v) <=> equal
          /\ Says("binary", "!=", u, v) <=> ~equal
          /\ Says("binary", ">", u, v) <=> ~less /\ ~equal
      <4> HIDE DEF equal
      <4> QED BY <1>3, <3>2, <3>3, CompareSays
    <3>6. <<v.text, u.text>> \in TextOrder <=> ~less /\ ~equal
      BY <3>1, <3>4, TextsOrdered, OrderAnswers
    <3> QED BY <3>4, <3>5, <3>6
  <2>3. OrderedBy("binary", C, At, TextOrder)
    BY <2>2 DEF OrderedBy
  <2> HIDE DEF At
  <2> QED BY <2>1, <2>3, TextsOrdered DEF C
<1>5. CASE x.type # "string"
  <2> DEFINE At == [u \in C |-> u.n]
  <2>1. At \in [C -> Int]
    BY <1>1
  <2>2. ASSUME NEW u \in C, NEW v \in C
        PROVE  /\ Says("binary", "<", u, v) <=> <<At[u], At[v]>> \in IntOrder
               /\ Says("binary", "==", u, v) <=> At[u] = At[v]
               /\ Says("binary", "!=", u, v) <=> At[u] # At[v]
               /\ Says("binary", ">", u, v) <=> <<At[v], At[u]>> \in IntOrder
    <3> DEFINE less == u.n < v.n
               equal == u.n = v.n
    <3>1. u.n \in Int /\ v.n \in Int
      BY <1>1
    <3>2. less \in BOOLEAN /\ equal \in BOOLEAN
      OBVIOUS
    <3>3. \A op \in Comparisons :
            Says("binary", op, u, v) <=> BoolValue(TRUE) \in Compare(op, less, equal)
      BY <1>2, <1>5
    <3>4. (less <=> <<u.n, v.n>> \in IntOrder) /\ (~less /\ ~equal <=> <<v.n, u.n>> \in IntOrder)
      BY <3>1 DEF IntOrder
    <3>5. /\ Says("binary", "<", u, v) <=> less
          /\ Says("binary", "==", u, v) <=> equal
          /\ Says("binary", "!=", u, v) <=> ~equal
          /\ Says("binary", ">", u, v) <=> ~less /\ ~equal
      <4> HIDE DEF less, equal
      <4> QED BY <1>3, <3>2, <3>3, CompareSays
    <3> QED BY <3>4, <3>5
  <2>3. OrderedBy("binary", C, At, IntOrder)
    BY <2>2 DEF OrderedBy
  <2> HIDE DEF At
  <2> QED BY <2>1, <2>3, NumbersOrdered DEF C
<1> QED BY <1>4, <1>5 DEF C

\* Four of the operators of a container are made of the other two.
LEMMA ContainerSays ==
    ASSUME NEW less, NEW equal
    PROVE  /\ ContainerOperation("<", less, equal) <=> less
           /\ ContainerOperation("==", less, equal) <=> equal
           /\ ContainerOperation("!=", less, equal) <=> ~equal
           /\ ContainerOperation(">", less, equal) <=> ~(less \/ equal)
           /\ ContainerOperation("<=", less, equal) <=> (less \/ equal)
           /\ ContainerOperation(">=", less, equal) <=> ~less
BY DEF ContainerOperation

\* Arrays and dicts are compared as they are.
LEMMA ContainersOrdered ==
    ASSUME NEW what \in {"arrays", "dicts"}, NEW x
    PROVE  LET C == Comparable(what, x)
           IN  \E R, S, At : /\ StrictOrder(R, S) /\ At \in [C -> S] /\ OrderedBy(what, C, At, R)
                             /\ \A u, v \in C : /\ Says(what, "<=", u, v) <=> <<At[v], At[u]>> \notin R
                                                /\ Says(what, ">=", u, v) <=> <<At[u], At[v]>> \notin R
<1>1. CASE what = "arrays"
  <2> DEFINE At == [u \in Arrays |-> u]
  <2>1. At \in [Arrays -> Seq(Seq(Int))]
    BY ValuesAssumption DEF ValuesAssumption
  <2>2. ASSUME NEW u \in Arrays, NEW v \in Arrays
        PROVE  /\ ArrayLess(u, v) <=> <<u, v>> \in ArrayOrder
               /\ <<v, u>> \in ArrayOrder <=> <<u, v>> \notin ArrayOrder /\ u # v
    <3>1. u \in Seq(Seq(Int)) /\ v \in Seq(Seq(Int))
      BY ValuesAssumption DEF ValuesAssumption
    <3> QED BY <3>1, ArrayLessMeans, ArraysOrdered, OrderAnswers
  <2>3. ASSUME NEW u \in Arrays, NEW v \in Arrays
        PROVE  /\ Says(what, "<", u, v) <=> ArrayLess(u, v)
               /\ Says(what, "==", u, v) <=> u = v
               /\ Says(what, "!=", u, v) <=> u # v
               /\ Says(what, ">", u, v) <=> ~ArrayLess(u, v) /\ u # v
               /\ Says(what, "<=", u, v) <=> ArrayLess(u, v) \/ u = v
               /\ Says(what, ">=", u, v) <=> ~ArrayLess(u, v)
    <3> DEFINE less == ArrayLess(u, v)
               equal == u = v
    <3>1. \A op : Says(what, op, u, v) = ContainerOperation(op, less, equal)
      BY <1>1 DEF Says
    <3> HIDE DEF less, equal
    <3>2. /\ Says(what, "<", u, v) <=> less
          /\ Says(what, "==", u, v) <=> equal
          /\ Says(what, "!=", u, v) <=> ~equal
          /\ Says(what, ">", u, v) <=> ~less /\ ~equal
          /\ Says(what, "<=", u, v) <=> less \/ equal
          /\ Says(what, ">=", u, v) <=> ~less
      BY <3>1, ContainerSays
    <3> QED BY <3>2 DEF less, equal
  <2>4. OrderedBy(what, Arrays, At, ArrayOrder)
    BY <2>2, <2>3 DEF OrderedBy
  <2>5. \A u, v \in Arrays : /\ Says(what, "<=", u, v) <=> <<At[v], At[u]>> \notin ArrayOrder
                             /\ Says(what, ">=", u, v) <=> <<At[u], At[v]>> \notin ArrayOrder
    BY <2>2, <2>3
  <2>6. Comparable(what, x) = Arrays
    BY <1>1 DEF Comparable
  <2>7. StrictOrder(ArrayOrder, Seq(Seq(Int)))
    BY ArraysOrdered
  <2> HIDE DEF At
  <2>8. /\ At \in [Comparable(what, x) -> Seq(Seq(Int))]
        /\ OrderedBy(what, Comparable(what, x), At, ArrayOrder)
        /\ \A u, v \in Comparable(what, x) : /\ Says(what, "<=", u, v) <=> <<At[v], At[u]>> \notin ArrayOrder
                                             /\ Says(what, ">=", u, v) <=> <<At[u], At[v]>> \notin ArrayOrder
    BY Zenon, <2>1, <2>4, <2>5, <2>6
  <2> QED BY Zenon, <2>7, <2>8
<1>2. CASE what = "dicts"
  <2> DEFINE At == [u \in Dicts |-> u]
  <2>1. At \in [Dicts -> Seq(Pairs)]
    BY ValuesAssumption DEF ValuesAssumption, Pairs
  <2>2. ASSUME NEW u \in Dicts, NEW v \in Dicts
        PROVE  /\ DictLess(u, v) <=> <<u, v>> \in DictOrder
               /\ <<v, u>> \in DictOrder <=> <<u, v>> \notin DictOrder /\ u # v
    <3>1. u \in Seq(Pairs) /\ v \in Seq(Pairs)
      BY ValuesAssumption DEF ValuesAssumption, Pairs
    <3> QED BY <3>1, DictLessMeans, DictsOrdered, OrderAnswers
  <2>3. ASSUME NEW u \in Dicts, NEW v \in Dicts
        PROVE  /\ Says(what, "<", u, v) <=> DictLess(u, v)
               /\ Says(what, "==", u, v) <=> u = v
               /\ Says(what, "!=", u, v) <=> u # v
               /\ Says(what, ">", u, v) <=> ~DictLess(u, v) /\ u # v
               /\ Says(what, "<=", u, v) <=> DictLess(u, v) \/ u = v
               /\ Says(what, ">=", u, v) <=> ~DictLess(u, v)
    <3> DEFINE less == DictLess(u, v)
               equal == u = v
    <3>1. \A op : Says(what, op, u, v) = ContainerOperation(op, less, equal)
      BY <1>2 DEF Says
    <3> HIDE DEF less, equal
    <3>2. /\ Says(what, "<", u, v) <=> less
          /\ Says(what, "==", u, v) <=> equal
          /\ Says(what, "!=", u, v) <=> ~equal
          /\ Says(what, ">", u, v) <=> ~less /\ ~equal
          /\ Says(what, "<=", u, v) <=> less \/ equal
          /\ Says(what, ">=", u, v) <=> ~less
      BY <3>1, ContainerSays
    <3> QED BY <3>2 DEF less, equal
  <2>4. OrderedBy(what, Dicts, At, DictOrder)
    BY <2>2, <2>3 DEF OrderedBy
  <2>5. \A u, v \in Dicts : /\ Says(what, "<=", u, v) <=> <<At[v], At[u]>> \notin DictOrder
                            /\ Says(what, ">=", u, v) <=> <<At[u], At[v]>> \notin DictOrder
    BY <2>2, <2>3
  <2>6. Comparable(what, x) = Dicts
    BY <1>2 DEF Comparable
  <2>7. StrictOrder(DictOrder, Seq(Pairs))
    BY DictsOrdered
  <2> HIDE DEF At
  <2>8. /\ At \in [Comparable(what, x) -> Seq(Pairs)]
        /\ OrderedBy(what, Comparable(what, x), At, DictOrder)
        /\ \A u, v \in Comparable(what, x) : /\ Says(what, "<=", u, v) <=> <<At[v], At[u]>> \notin DictOrder
                                             /\ Says(what, ">=", u, v) <=> <<At[u], At[v]>> \notin DictOrder
    BY <2>1, <2>4, <2>5, <2>6
  <2> QED BY Zenon, <2>7, <2>8
<1> QED BY <1>1, <1>2

\* What was asked for was answered as the operators of the code answer it.
Answered ==
    asked # <<>> =>
    LET a == asked[2]
    IN  /\ asked[1] = "binary" => /\ a[2] \in Operands /\ a[3] \in Operands
                               /\ asked[3] = BinaryOperation(a[1], a[2], a[3])
        /\ asked[1] = "arrays" => asked[3] = ContainerOperation(a[1], ArrayLess(a[2], a[3]), a[2] = a[3])
        /\ asked[1] = "dicts"  => asked[3] = ContainerOperation(a[1], DictLess(a[2], a[3]), a[2] = a[3])
        /\ asked[1] \in {"split", "replace", "find"} => a[1] \in Texts /\ a[2] \in Texts
        /\ asked[1] = "split" => asked[3] = Split(a[1], a[2])
        /\ asked[1] = "replace" => a[3] \in Texts /\ asked[3] = Replace(a[1], a[2], a[3])
        /\ asked[1] = "find" =>
             asked[3] = <<IndexOf(a[1], a[2]), LastIndexOf(a[1], a[2]), HasText(a[1], a[2]),
                          StartsWith(a[1], a[2]), EndsWith(a[1], a[2])>>
        /\ asked[1] = "format" => /\ a[1] \in Layouts /\ a[2] \in ArgumentLists /\ a[3] \in Keywords
                                  /\ asked[3] = Format(a[1], a[2], a[3])

\* An answer that is none of these.
LEMMA OtherAnswers ==
    ASSUME NEW what, what \notin {"binary", "arrays", "dicts", "split", "replace", "find", "format"},
           NEW arguments, NEW answer, Ask(what, arguments, answer)
    PROVE  Answered'
BY DEF Answered, Ask

\* An operation that is asked for gets the answer of the code; nothing changes it
\* afterwards.
LEMMA AnsweredStep ==
    ASSUME Answered, [ValuesNext]_<<containerVars, asked>>
    PROVE  Answered'
<1>1. CASE UNCHANGED <<containerVars, asked>>
  BY <1>1 DEF Answered
<1>2. CASE asked = <<>> /\ ContainersNext /\ UNCHANGED asked
  BY <1>2 DEF Answered
<1>3. ASSUME NEW x \in Operands, NEW y \in Operands, Binary(x, y) PROVE Answered'
  BY <1>3 DEF Answered, Binary, Ask
<1>4. ASSUME NEW x \in Operands, UnaryCall(x) \/ Choose(x) \/ Convert(x) PROVE Answered'
  BY <1>4, OtherAnswers DEF UnaryCall, Choose, Convert
<1>5. ASSUME NEW s \in Arrays, NEW t \in Arrays, CompareArrays(s, t) PROVE Answered'
  BY <1>5 DEF Answered, CompareArrays, Ask
<1>6. ASSUME NEW s \in Arrays, NEW t \in Texts, Search(s, t) PROVE Answered'
  BY <1>6, OtherAnswers DEF Search
<1>7. ASSUME NEW s \in Dicts, NEW t \in Dicts, CompareDicts(s, t) PROVE Answered'
  BY <1>7 DEF Answered, CompareDicts, Ask
<1>8. ASSUME NEW s \in Texts, NEW t \in Texts, AskText(s, t) PROVE Answered'
  <2>1. CASE Ask("split", <<s, t>>, Split(s, t))
    BY <2>1 DEF Answered, Ask
  <2>2. ASSUME NEW new \in Texts, Ask("replace", <<s, t, new>>, Replace(s, t, new)) PROVE Answered'
    BY <2>2 DEF Answered, Ask
  <2>3. CASE Ask("find", <<s, t>>, <<IndexOf(s, t), LastIndexOf(s, t), HasText(s, t),
                                     StartsWith(s, t), EndsWith(s, t)>>)
    BY <2>3 DEF Answered, Ask
  <2> QED BY <1>8, <2>1, <2>2, <2>3, OtherAnswers DEF AskText
<1>9. ASSUME NEW s \in Layouts, AskFormat(s) PROVE Answered'
  BY <1>9 DEF Answered, AskFormat, Ask
<1> QED BY <1>1, <1>2, <1>3, <1>4, <1>5, <1>6, <1>7, <1>8, <1>9 DEF ValuesNext, AskNext

\* So what asked holds is always an operation with its answer.
LEMMA AnsweredAlways == ValuesSpec => []Answered
<1>1. ValuesInit => Answered
  BY DEF ValuesInit, Answered
<1> QED BY <1>1, AnsweredStep, PTL DEF ValuesSpec

\* An answer to a comparison of basic values is what the operator says.
LEMMA BasicAnswers ==
    ASSUME NEW x, NEW y, {x, y} \subseteq Comparable("binary", x), NEW op \in Comparisons
    PROVE  BinaryOperation(op, x, y).outcomes = {BoolValue(TRUE)} <=> Says("binary", op, x, y)
<1>1. x.type = y.type /\ x.type \in BasicTypes
  BY DEF Comparable
<1>2. BinaryOperation(op, x, y).outcomes = BasicOperation(op, x, y)
  BY <1>1 DEF BinaryOperation, Answer
<1>3. PICK b : BasicOperation(op, x, y) = {b}
  <2>1. BasicOperation(op, x, y) =
          IF x.type = "string" THEN Compare(op, TextLess(x.text, y.text), x.text = y.text)
                               ELSE Compare(op, x.n < y.n, x.n = y.n)
    BY BasicCompares
  <2>2. CASE x.type = "string"
    <3>1. BasicOperation(op, x, y) = Compare(op, TextLess(x.text, y.text), x.text = y.text)
      BY <2>1, <2>2
    <3> QED BY <3>1 DEF Compare
  <2>3. CASE x.type # "string"
    <3>1. BasicOperation(op, x, y) = Compare(op, x.n < y.n, x.n = y.n)
      BY <2>1, <2>3
    <3> QED BY <3>1 DEF Compare
  <2> QED BY <2>2, <2>3
<1>4. Says("binary", op, x, y) <=> BoolValue(TRUE) \in BasicOperation(op, x, y)
  BY DEF Says
<1> QED BY <1>2, <1>3, <1>4

\* The answers of the comparison operators are those of a total order.
LEMMA ComparisonsAnswer == Answered => ComparisonsOrder
<1> SUFFICES ASSUME Answered, asked # <<>>, asked[1] \in {"binary", "arrays", "dicts"},
                    {asked[2][2], asked[2][3]} \subseteq Comparable(asked[1], asked[2][2])
             PROVE  LET what == asked[1]
                        op == asked[2][1]
                        x == asked[2][2]
                        y == asked[2][3]
                        yes == IF what = "binary" THEN asked[3].outcomes = {BoolValue(TRUE)} ELSE asked[3]
                        Less(s, t) == Says(what, "<", s, t)
                        Equal(s, t) == Says(what, "==", s, t)
                        Greater(s, t) == Says(what, ">", s, t)
                    IN  /\ op = "<"  => (yes <=> ~Equal(x, y) /\ ~Greater(x, y))
                        /\ op = ">"  => (yes <=> Less(y, x))
                        /\ op = "==" => (yes <=> ~Less(x, y) /\ ~Less(y, x))
                        /\ op = "!=" => (yes <=> Less(x, y) \/ Less(y, x))
                        /\ op = "<=" /\ what # "binary" => (yes <=> ~Less(y, x))
                        /\ op = ">=" /\ what # "binary" => (yes <=> ~Less(x, y))
                        /\ \A z \in Comparable(what, x) :
                              /\ Less(x, y) /\ Less(y, z) => Less(x, z)
                              /\ ~Greater(x, y) /\ ~Greater(y, z) => ~Greater(x, z)
  BY DEF ComparisonsOrder
<1> DEFINE what == asked[1]
           op == asked[2][1]
           x == asked[2][2]
           y == asked[2][3]
           yes == IF what = "binary" THEN asked[3].outcomes = {BoolValue(TRUE)} ELSE asked[3]
           C == Comparable(what, x)
<1>1. PICK R, S, At :
         /\ StrictOrder(R, S) /\ At \in [C -> S] /\ OrderedBy(what, C, At, R)
         /\ what # "binary" => \A u, v \in C : /\ Says(what, "<=", u, v) <=> <<At[v], At[u]>> \notin R
                                               /\ Says(what, ">=", u, v) <=> <<At[u], At[v]>> \notin R
  <2>1. CASE what = "binary"
    BY <2>1, BasicOrdered
  <2>2. CASE what \in {"arrays", "dicts"}
    BY <2>2, ContainersOrdered
  <2> QED BY <2>1, <2>2
<1>2. x \in C /\ y \in C
  OBVIOUS
<1>3. op \in {"<", ">", "==", "!="} => (yes <=> Says(what, op, x, y))
  <2>1. CASE what = "binary"
    <3>1. asked[3] = BinaryOperation(op, x, y)
      BY <2>1 DEF Answered
    <3>2. {x, y} \subseteq Comparable("binary", x)
      BY <2>1
    <3>3. yes <=> asked[3].outcomes = {BoolValue(TRUE)}
      BY <2>1
    <3> HIDE DEF what, op, x, y, yes, C
    <3>4. ASSUME op \in {"<", ">", "==", "!="} PROVE yes <=> Says(what, op, x, y)
      <4>1. op \in Comparisons
        BY <3>4 DEF Comparisons
      <4>2. BinaryOperation(op, x, y).outcomes = {BoolValue(TRUE)} <=> Says("binary", op, x, y)
        BY <3>2, <4>1, BasicAnswers
      <4> QED BY <2>1, <3>1, <3>3, <4>2
    <3> QED BY <3>4
  <2>2. CASE what = "arrays"
    BY <2>2 DEF Answered, Says
  <2>3. CASE what = "dicts"
    BY <2>3 DEF Answered, Says
  <2> QED BY <2>1, <2>2, <2>3
<1>4. what # "binary" => (yes <=> Says(what, op, x, y))
  <2>1. CASE what = "arrays"
    BY <2>1 DEF Answered, Says
  <2>2. CASE what = "dicts"
    BY <2>2 DEF Answered, Says
  <2> QED BY <2>1, <2>2
<1> HIDE DEF what, op, x, y, yes, C
<1>5. \A u \in C : At[u] \in S
  BY <1>1
<1>6. \A u, v \in C : /\ Says(what, "<", u, v) <=> <<At[u], At[v]>> \in R
                      /\ Says(what, "==", u, v) <=> At[u] = At[v]
                      /\ Says(what, "!=", u, v) <=> At[u] # At[v]
                      /\ Says(what, ">", u, v) <=> <<At[v], At[u]>> \in R
  BY <1>1 DEF OrderedBy
<1>7. /\ <<At[x], At[y]>> \in R <=> At[x] # At[y] /\ <<At[y], At[x]>> \notin R
      /\ At[x] = At[y] <=> <<At[x], At[y]>> \notin R /\ <<At[y], At[x]>> \notin R
  BY <1>1, <1>2, <1>5, OrderAnswers
<1>8. ASSUME NEW z \in C
      PROVE  /\ Says(what, "<", x, y) /\ Says(what, "<", y, z) => Says(what, "<", x, z)
             /\ ~Says(what, ">", x, y) /\ ~Says(what, ">", y, z) => ~Says(what, ">", x, z)
  <2>1. At[x] \in S /\ At[y] \in S /\ At[z] \in S
    BY <1>2, <1>5, <1>8
  <2>2. /\ <<At[x], At[y]>> \in R /\ <<At[y], At[z]>> \in R => <<At[x], At[z]>> \in R
        /\ <<At[y], At[x]>> \notin R /\ <<At[z], At[y]>> \notin R => <<At[z], At[x]>> \notin R
    BY <1>1, <2>1, OrderAnswers
  <2> QED BY <1>2, <1>6, <1>8, <2>2
<1>9. /\ op = "<"  => (yes <=> ~Says(what, "==", x, y) /\ ~Says(what, ">", x, y))
      /\ op = ">"  => (yes <=> Says(what, "<", y, x))
      /\ op = "==" => (yes <=> ~Says(what, "<", x, y) /\ ~Says(what, "<", y, x))
      /\ op = "!=" => (yes <=> Says(what, "<", x, y) \/ Says(what, "<", y, x))
  BY <1>2, <1>3, <1>6, <1>7
<1>10. /\ op = "<=" /\ what # "binary" => (yes <=> ~Says(what, "<", y, x))
       /\ op = ">=" /\ what # "binary" => (yes <=> ~Says(what, "<", x, y))
  <2>1. what # "binary" => /\ Says(what, "<=", x, y) <=> <<At[y], At[x]>> \notin R
                           /\ Says(what, ">=", x, y) <=> <<At[x], At[y]>> \notin R
    BY <1>1, <1>2
  <2> QED BY <1>2, <1>4, <1>6, <2>1
<1> QED BY <1>8, <1>9, <1>10 DEF what, op, x, y, yes, C

\* ComparisonsOrder: whatever two values, arrays or dicts a script compares, the
\* operators answer as those of one total order.
THEOREM ComparisonsCorrect == ValuesSpec => []ComparisonsOrder
BY AnsweredAlways, ComparisonsAnswer, PTL

----------------------------------------------------------------------------
(* The arithmetic of ints and chars.                                       *)

Widths == {IntBits, CharBits}
Half(bits) == 2 ^ (bits - 1)
RangeOf(bits) == -Half(bits) .. (Half(bits) - 1)

\* Half of a width is a number, and the whole is twice of it.
LEMMA WholeWidth ==
    ASSUME NEW bits \in Widths
    PROVE  bits \in Nat \ {0} /\ Half(bits) \in Nat \ {0} /\ 2 ^ bits = Half(bits) + Half(bits)
BY WidthsAssumption DEF Widths, Half

\* A number is what it is truncated to, and wholes of the width.
LEMMA SignedRest ==
    ASSUME NEW bits \in Widths, NEW n \in Int
    PROVE  /\ Signed(n, bits) \in RangeOf(bits)
           /\ \E k \in Int : n = Signed(n, bits) + k * (Half(bits) + Half(bits))
<1> DEFINE H == Half(bits)
           M == H + H
           k == (n + H) \div M
           r == (n + H) % M
<1>1. H \in Nat \ {0} /\ 2 ^ bits = M
  BY WholeWidth
<1>2. Signed(n, bits) = r - H
  BY <1>1 DEF Signed, Half
<1> HIDE DEF H
<1>3. n + H \in Int /\ M \in Nat \ {0}
  BY <1>1
<1>4. n + H = M * k + r /\ r \in 0 .. M - 1 /\ k \in Int
  <2> HIDE DEF M
  <2> QED BY <1>3
<1> HIDE DEF k, r
<1>5. r - H \in -H .. (H - 1)
  BY <1>1, <1>4
<1>6. n = (r - H) + k * M
  <2>1. k * M = M * k /\ M * k \in Int
    <3> HIDE DEF M
    <3> QED BY <1>3, <1>4
  <2> HIDE DEF M
  <2> QED BY <1>1, <1>3, <1>4, <2>1
<1> QED BY <1>2, <1>4, <1>5, <1>6 DEF H, RangeOf

\* No other number of the width is.
LEMMA SignedOnly ==
    ASSUME NEW bits \in Widths, NEW n \in Int, NEW v \in RangeOf(bits), NEW k \in Int,
           n = v + k * (Half(bits) + Half(bits))
    PROVE  Signed(n, bits) = v
<1> DEFINE H == Half(bits)
           M == H + H
           u == Signed(n, bits)
<1>1. H \in Nat \ {0}
  BY WholeWidth
<1>2. PICK l \in Int : n = u + l * M
  BY SignedRest
<1>3. u \in -H .. (H - 1) /\ v \in -H .. (H - 1)
  BY SignedRest DEF RangeOf
<1>4. n = v + k * M
  OBVIOUS
<1> HIDE DEF H, u
<1>5. M \in Nat \ {0} /\ u - v < M /\ v - u < M /\ u \in Int /\ v \in Int
  BY <1>1, <1>3
<1> HIDE DEF M
<1>6. u - v = (k - l) * M
  <2>1. k * M \in Int /\ l * M \in Int /\ (k - l) * M = k * M - l * M
    BY <1>2, <1>5
  <2> QED BY <1>2, <1>4, <1>5, <2>1
<1> DEFINE d == k - l
<1>7. d \in Int
  BY <1>2
<1>8. u - v = d * M
  BY <1>6
<1> HIDE DEF d
<1>9. CASE d >= 1
  <2>1. d * M >= M
    BY <1>5, <1>7, <1>9
  <2> QED BY <1>5, <1>8, <2>1
<1>10. CASE d <= -1
  <2>1. d * M <= -M
    BY <1>5, <1>7, <1>10
  <2> QED BY <1>5, <1>8, <2>1
<1>11. CASE d = 0
  <2>1. d * M = 0
    BY <1>5, <1>11
  <2> QED BY <1>5, <1>8, <2>1 DEF u
<1> QED BY <1>7, <1>9, <1>10, <1>11

\* A number of the width is not changed.
LEMMA SignedStays ==
    ASSUME NEW bits \in Widths, NEW v \in RangeOf(bits)
    PROVE  v \in Int /\ Signed(v, bits) = v
<1>1. v \in Int /\ Half(bits) + Half(bits) \in Int
  BY WholeWidth DEF RangeOf
<1>2. v = v + 0 * (Half(bits) + Half(bits))
  BY <1>1
<1> QED BY <1>1, <1>2, SignedOnly

\* It makes no difference whether what is added was truncated before.
LEMMA SignedAdds ==
    ASSUME NEW bits \in Widths, NEW a \in Int, NEW b \in Int
    PROVE  Signed(Signed(a, bits) + Signed(b, bits), bits) = Signed(a + b, bits)
<1> DEFINE M == Half(bits) + Half(bits)
           u == Signed(a, bits)
           v == Signed(b, bits)
           w == Signed(u + v, bits)
<1>1. M \in Int
  BY WholeWidth
<1>2. PICK k \in Int : a = u + k * M
  BY SignedRest
<1>3. PICK l \in Int : b = v + l * M
  BY SignedRest
<1>4. u \in Int /\ v \in Int
  <2>1. u \in RangeOf(bits) /\ v \in RangeOf(bits)
    BY SignedRest
  <2> HIDE DEF u, v
  <2> QED BY <2>1, WholeWidth DEF RangeOf
<1>5. u + v \in Int
  BY <1>4
<1>6. PICK m \in Int : u + v = w + m * M
  BY <1>5, SignedRest
<1>7. w \in RangeOf(bits)
  BY <1>5, SignedRest
<1>8. w \in Int
  BY <1>7, WholeWidth DEF RangeOf
<1> DEFINE n == k + l + m
<1>9. a + b = w + n * M
  <2> HIDE DEF M, u, v, w
  <2> DEFINE x == k * M
             y == l * M
             z == m * M
  <2>1. x \in Int /\ y \in Int /\ z \in Int /\ n * M = x + y + z
    BY <1>1
  <2>2. a = u + x /\ b = v + y /\ u + v = w + z
    BY <1>2, <1>3, <1>6
  <2> HIDE DEF n, x, y, z
  <2> QED BY ONLY <1>4, <1>8, <2>1, <2>2
<1>10. n \in Int /\ a + b \in Int
  OBVIOUS
<1> HIDE DEF n, w
<1> QED BY <1>7, <1>9, <1>10, SignedOnly DEF w

\* The quotient times the divisor, and the remainder, are between zero and the
\* dividend; the quotient is no greater than the dividend.
LEMMA DivisionRounds ==
    ASSUME NEW a \in Int, NEW b \in Int \ {0}
    PROVE  LET q == Quotient(a, b)
               r == Remainder(a, b)
           IN  /\ q \in Int /\ r \in Int /\ b * q \in Int /\ a = b * q + r
               /\ a >= 0 => b * q \in 0 .. a /\ r \in 0 .. a
               /\ a < 0 => b * q \in a .. 0 /\ r \in a .. 0
               /\ q \in -Magnitude(a) .. Magnitude(a)
               /\ q = Magnitude(a) /\ q # 0 /\ a < 0 => b = -1
<1> DEFINE m == Magnitude(a)
           d == Magnitude(b)
           p == m \div d
           rest == m % d
           q == Quotient(a, b)
<1>1. /\ m \in Nat /\ d \in Nat \ {0}
      /\ m = IF a < 0 THEN -a ELSE a
      /\ d = IF b < 0 THEN -b ELSE b
  BY DEF Magnitude
<1>2. q = IF a < 0 <=> b < 0 THEN p ELSE -p
  BY DEF Quotient
<1>3. Remainder(a, b) = a - b * q
  BY DEF Remainder
<1>4. m = a \/ m = -a
  BY DEF Magnitude
<1> HIDE DEF m, d, q
<1>5. p \in Nat /\ rest \in Nat /\ m = d * p + rest /\ rest < d
  <2>1. m \in Nat /\ d \in Nat \ {0}
    BY <1>1
  <2> QED BY ONLY <2>1
<1> HIDE DEF p, rest
<1>6. d * p \in Nat /\ d * p <= m
  BY <1>1, <1>5
<1>7. p <= d * p
  BY <1>1, <1>5
<1>8. b * q = IF a < 0 THEN -(d * p) ELSE d * p
  <2>1. CASE b < 0
    <3>1. b = -d /\ q = IF a < 0 THEN p ELSE -p
      BY <1>1, <1>2, <2>1
    <3>2. (-d) * p = -(d * p) /\ (-d) * (-p) = d * p
      BY <1>1, <1>5
    <3> QED BY <3>1, <3>2
  <2>2. CASE ~(b < 0)
    <3>1. b = d /\ q = IF a < 0 THEN -p ELSE p
      BY <1>1, <1>2, <2>2
    <3>2. d * (-p) = -(d * p)
      BY <1>1, <1>5
    <3> QED BY <3>1, <3>2
  <2> QED BY <2>1, <2>2
<1>9. q \in Int
  BY <1>2, <1>5
<1>10. p = m /\ p # 0 => d = 1
  <2>1. CASE d >= 2
    <3>1. d * p >= 2 * p
      BY <1>5, <2>1, <1>1
    <3> QED BY <1>1, <1>5, <1>6, <3>1
  <2> QED BY <1>1, <2>1
<1>11. q \in -m .. m
  BY <1>1, <1>2, <1>5, <1>6, <1>7
<1>12. q = m /\ q # 0 /\ a < 0 => b = -1
  <2>1. SUFFICES ASSUME q = m, q # 0, a < 0 PROVE b = -1
    OBVIOUS
  <2>2. m > 0
    BY <1>1, <2>1
  <2>3. b < 0 /\ p = m
    BY <1>2, <1>5, <2>1, <2>2
  <2>4. d = 1
    BY <1>5, <1>10, <2>2, <2>3
  <2> QED BY <1>1, <2>3, <2>4
<1> DEFINE t == d * p
           s == b * q
<1>13. /\ s \in Int
       /\ a >= 0 => s \in 0 .. a /\ a - s \in 0 .. a
       /\ a < 0 => s \in a .. 0 /\ a - s \in a .. 0
       /\ a = s + (a - s) /\ a - s \in Int
  <2>1. t \in Nat /\ t <= m /\ s = IF a < 0 THEN -t ELSE t
    BY <1>6, <1>8
  <2>2. CASE a >= 0
    <3>1. m = a /\ s = t
      BY <1>1, <2>1, <2>2
    <3> HIDE DEF t, s
    <3> QED BY ONLY <2>1, <2>2, <3>1, a \in Int
  <2>3. CASE ~(a >= 0)
    <3>1. m = -a /\ s = -t /\ a < 0
      BY <1>1, <2>1, <2>3
    <3> HIDE DEF t, s
    <3> QED BY ONLY <2>1, <3>1, a \in Int
  <2> QED BY <2>2, <2>3
<1> QED BY <1>3, <1>9, <1>11, <1>12, <1>13 DEF q, m

\* What the k-th bit counts, and the sums of the bits of a set that OfBits makes.
BitOf(s, k) == IF k - 1 \in s THEN 2 ^ (k - 1) ELSE 0
IsSum(f, s, bits) == f = [k \in 0 .. bits |-> IF k = 0 THEN 0 ELSE f[k - 1] + BitOf(s, k)]
SumOf(s, bits) == CHOOSE f : IsSum(f, s, bits)

\* There are such sums.
LEMMA SumRuns ==
    ASSUME NEW bits \in Widths, NEW s
    PROVE  /\ SumOf(s, bits)[0] = 0
           /\ \A k \in 1 .. bits : SumOf(s, bits)[k] = SumOf(s, bits)[k - 1] + BitOf(s, k)
           /\ OfBits(s, bits) = Signed(SumOf(s, bits)[bits], bits)
<1> DEFINE step == [k \in 1 .. bits |-> [v \in Int |-> v + BitOf(s, k)]]
<1>1. bits \in Nat \ {0}
  BY WholeWidth
<1>2. \A k \in 1 .. bits : BitOf(s, k) \in Int
  <2> SUFFICES ASSUME NEW k \in 1 .. bits PROVE BitOf(s, k) \in Int
    OBVIOUS
  <2>1. k - 1 \in Nat
    BY <1>1
  <2> QED BY <2>1 DEF BitOf
<1>3. step \in [(0 + 1) .. bits -> [Int -> Int]]
  BY <1>2
<1>4. \A k \in 1 .. bits, v \in Int : step[k][v] = v + BitOf(s, k)
  OBVIOUS
<1> HIDE DEF step
<1>5. PICK f : LoopFrom(f, Int, 0, bits, 0, step)
  <2>1. 0 \in Nat /\ bits \in Nat /\ 0 <= bits /\ 0 \in Int
    BY <1>1
  <2> QED BY <1>3, <2>1, LoopRuns, Zenon
<1>6. /\ f \in [0 .. bits -> Int] /\ f[0] = 0
      /\ \A k \in 1 .. bits : f[k] = step[k][f[k - 1]]
  BY <1>5 DEF LoopFrom
<1>7. ASSUME NEW k \in 1 .. bits PROVE f[k] = f[k - 1] + BitOf(s, k)
  <2>1. f[k - 1] \in Int
    BY <1>1, <1>6
  <2> QED BY <1>4, <1>6, <2>1
<1>8. IsSum(f, s, bits)
  <2>1. \A k \in 0 .. bits : k # 0 => k \in 1 .. bits
    BY <1>1
  <2> QED BY <1>6, <1>7, <2>1 DEF IsSum
<1> DEFINE g == SumOf(s, bits)
<1>9. IsSum(g, s, bits)
  BY <1>8, Zenon DEF SumOf
<1> HIDE DEF g
<1>10. g[0] = 0 /\ \A k \in 1 .. bits : g[k] = g[k - 1] + BitOf(s, k)
  <2>1. \A k \in 0 .. bits : g[k] = IF k = 0 THEN 0 ELSE g[k - 1] + BitOf(s, k)
    BY <1>9 DEF IsSum
  <2>2. 0 \in 0 .. bits /\ \A k \in 1 .. bits : k \in 0 .. bits /\ k # 0
    BY <1>1
  <2> QED BY <2>1, <2>2
<1>11. OfBits(s, bits) = Signed(g[bits], bits)
  BY DEF OfBits, g, SumOf, IsSum, BitOf
<1> QED BY <1>10, <1>11 DEF g

\* What two numbers have together is what both have and what one has.
LEMMA BitsAdd ==
    ASSUME NEW bits \in Widths, NEW x, NEW y
    PROVE  LET both == x \cap y
               one  == (x \cup y) \ (x \cap y)
           IN  /\ OfBits(both, bits) \in RangeOf(bits) /\ OfBits(one, bits) \in RangeOf(bits)
               /\ OfBits(x \cup y, bits) \in RangeOf(bits)
               /\ OfBits(x \cup y, bits) = Signed(OfBits(both, bits) + OfBits(one, bits), bits)
<1> DEFINE both == x \cap y
           one  == (x \cup y) \ (x \cap y)
           f == SumOf(x \cup y, bits)
           g == SumOf(both, bits)
           h == SumOf(one, bits)
           Good(k) == f[k] \in Int /\ g[k] \in Int /\ h[k] \in Int /\ f[k] = g[k] + h[k]
           Bad == {k \in 0 .. bits : ~Good(k)}
<1>1. bits \in Nat \ {0}
  BY WholeWidth
<1>2. /\ f[0] = 0 /\ g[0] = 0 /\ h[0] = 0
      /\ \A k \in 1 .. bits : /\ f[k] = f[k - 1] + BitOf(x \cup y, k)
                               /\ g[k] = g[k - 1] + BitOf(both, k)
                               /\ h[k] = h[k - 1] + BitOf(one, k)
  BY SumRuns
<1>3. /\ OfBits(x \cup y, bits) = Signed(f[bits], bits)
      /\ OfBits(both, bits) = Signed(g[bits], bits)
      /\ OfBits(one, bits) = Signed(h[bits], bits)
  BY SumRuns
<1>4. ASSUME NEW k \in 1 .. bits
      PROVE  /\ BitOf(x \cup y, k) \in Int /\ BitOf(both, k) \in Int /\ BitOf(one, k) \in Int
             /\ BitOf(x \cup y, k) = BitOf(both, k) + BitOf(one, k)
  <2>1. k - 1 \in Nat
    BY <1>1
  <2>2. 2 ^ (k - 1) \in Int
    BY <2>1
  <2> QED BY <2>2 DEF BitOf
<1> HIDE DEF f, g, h, both, one
<1>5. Bad = {}
  <2> SUFFICES ASSUME Bad # {} PROVE FALSE
    OBVIOUS
  <2>1. Bad \subseteq Nat
    OBVIOUS
  <2>2. PICK k \in Bad : \A l \in Bad : k <= l
    <3> HIDE DEF Bad
    <3> QED BY <2>1, SmallestOf
  <2>3. k \in 0 .. bits /\ ~Good(k)
    OBVIOUS
  <2>4. k # 0
    BY <1>2, <2>3
  <2>5. k \in 1 .. bits /\ k - 1 \in 0 .. bits /\ ~(k <= k - 1)
    BY <1>1, <2>3, <2>4
  <2>6. Good(k - 1)
    BY <2>2, <2>5
  <2>7. /\ f[k] = f[k - 1] + BitOf(x \cup y, k)
        /\ g[k] = g[k - 1] + BitOf(both, k)
        /\ h[k] = h[k - 1] + BitOf(one, k)
    BY <1>2, <2>5
  <2>8. /\ BitOf(x \cup y, k) \in Int /\ BitOf(both, k) \in Int /\ BitOf(one, k) \in Int
        /\ BitOf(x \cup y, k) = BitOf(both, k) + BitOf(one, k)
    BY <1>4, <2>5
  <2>9. f[k] \in Int /\ g[k] \in Int /\ h[k] \in Int /\ f[k] = g[k] + h[k]
    BY ONLY <2>6, <2>7, <2>8
  <2> QED BY <2>3, <2>9
<1>6. Good(bits)
  <2>1. bits \in 0 .. bits
    BY <1>1
  <2> QED BY <1>5, <2>1
<1>7. /\ Signed(f[bits], bits) \in RangeOf(bits) /\ Signed(g[bits], bits) \in RangeOf(bits)
      /\ Signed(h[bits], bits) \in RangeOf(bits)
      /\ Signed(Signed(g[bits], bits) + Signed(h[bits], bits), bits) = Signed(g[bits] + h[bits], bits)
  <2> HIDE DEF Bad
  <2> QED BY <1>6, SignedRest, SignedAdds
<1> QED BY <1>3, <1>6, <1>7 DEF both, one

\* What the operators of two ints are.
LEMMA IntDoes ==
    ASSUME NEW a \in Int, NEW b \in Int
    PROVE  LET Does(op) == BasicOperation(op, IntValue(a), IntValue(b))
           IN  /\ Does("+") = IntResult(a + b) /\ Does("*") = IntResult(a * b)
               /\ b # 0 => Does("/") = IntResult(Quotient(a, b))
               /\ b # 0 => Does("%") = IntResult(IF Quotient(a, b) \in IntRange THEN Remainder(a, b)
                                                ELSE Quotient(a, b))
               /\ \A op \in BitOperators : Does(op) = {IntValue(Bitwise(op, a, b, IntBits))}
<1>1. /\ IntValue(a).type = "int" /\ IntValue(a).n = a
      /\ IntValue(b).type = "int" /\ IntValue(b).n = b
  BY DEF IntValue, Value
<1>2. \A op : BasicOperation(op, IntValue(a), IntValue(b)) = IntOperation(op, a, b)
  BY <1>1 DEF BasicOperation
<1>3. IntOperation("+", a, b) = IntResult(a + b) /\ IntOperation("*", a, b) = IntResult(a * b)
  BY DEF IntOperation, ExactResult, BitOperators, Comparisons
<1>4. ASSUME b # 0
      PROVE  /\ IntOperation("/", a, b) = IntResult(Quotient(a, b))
             /\ IntOperation("%", a, b) = IntResult(IF Quotient(a, b) \in IntRange
                                                   THEN Remainder(a, b) ELSE Quotient(a, b))
  BY <1>4 DEF IntOperation, BitOperators, Comparisons
<1>5. \A op \in BitOperators : IntOperation(op, a, b) = {IntValue(Bitwise(op, a, b, IntBits))}
  BY DEF IntOperation, BitOperators, Comparisons
<1> QED BY <1>2, <1>3, <1>4, <1>5

\* What the operators of two chars are.
LEMMA CharDoes ==
    ASSUME NEW a \in Int, NEW b \in Int
    PROVE  LET Does(op) == BasicOperation(op, CharValue(a), CharValue(b))
           IN  /\ Does("+") = CharResult(a + b) /\ Does("*") = CharResult(a * b)
               /\ b # 0 => Does("/") = CharResult(Quotient(a, b))
               /\ b # 0 => Does("%") = CharResult(Remainder(a, b))
               /\ \A op \in BitOperators : Does(op) = {CharValue(Bitwise(op, a, b, CharBits))}
<1>1. /\ CharValue(a).type = "char" /\ CharValue(a).n = a
      /\ CharValue(b).type = "char" /\ CharValue(b).n = b
  BY DEF CharValue, Value
<1>2. \A op : BasicOperation(op, CharValue(a), CharValue(b)) = CharOperation(op, a, b)
  BY <1>1 DEF BasicOperation
<1>3. CharOperation("+", a, b) = CharResult(a + b) /\ CharOperation("*", a, b) = CharResult(a * b)
  BY DEF CharOperation, ExactResult, BitOperators, Comparisons
<1>4. ASSUME b # 0
      PROVE  /\ CharOperation("/", a, b) = CharResult(Quotient(a, b))
             /\ CharOperation("%", a, b) = CharResult(Remainder(a, b))
  BY <1>4 DEF CharOperation, BitOperators, Comparisons
<1>5. \A op \in BitOperators : CharOperation(op, a, b) = {CharValue(Bitwise(op, a, b, CharBits))}
  BY DEF CharOperation, BitOperators, Comparisons
<1> QED BY <1>2, <1>3, <1>4, <1>5

\* What an operator makes of one value of each operand.
LEMMA EvalHas ==
    ASSUME NEW op, NEW xs, NEW ys, NEW x \in xs, NEW y \in ys, NEW z \in BasicOperation(op, x, y)
    PROVE  z \in Eval(op, xs, ys)
BY DEF Eval

\* Of one value each, what the operator makes of them.
LEMMA EvalOfOne ==
    ASSUME NEW op, NEW x, NEW y
    PROVE  Eval(op, {x}, {y}) = BasicOperation(op, x, y)
BY DEF Eval

\* The ranges of ints and chars, and where ints and chars are.
LEMMA RangesAre ==
    /\ IntRange = RangeOf(IntBits) /\ CharRange = RangeOf(CharBits)
    /\ \A x \in Ints : x.n \in IntRange /\ x = IntValue(x.n) /\ x.type = "int"
    /\ \A x \in Chars : x.n \in CharRange /\ x = CharValue(x.n) /\ x.type = "char"
    /\ IntRange \subseteq Int /\ CharRange \subseteq Int
<1>1. IntRange = RangeOf(IntBits) /\ CharRange = RangeOf(CharBits)
  BY DEF IntRange, CharRange, RangeOf, Half
<1>2. \A x \in Ints : x.n \in IntRange /\ x = IntValue(x.n) /\ x.type = "int"
  BY DEF Ints, IntValue, Value
<1>3. \A x \in Chars : x.n \in CharRange /\ x = CharValue(x.n) /\ x.type = "char"
  BY DEF Chars, CharValue, Value
<1>4. IntRange \subseteq Int /\ CharRange \subseteq Int
  BY <1>1, WholeWidth DEF RangeOf, Widths
<1> QED BY <1>1, <1>2, <1>3, <1>4

\* The part of ArithmeticAgrees about two values of one width.
ArithmeticOf(x, y) ==
    /\ y.n # 0 => x \in Eval("+", Eval("*", Eval("/", {x}, {y}), {y}), Eval("%", {x}, {y}))
    /\ Eval("|", {x}, {y}) \subseteq Eval("+", Eval("&", {x}, {y}), Eval("^", {x}, {y}))
    /\ UnaryOperation("-", x) \cap Eval("+", UnaryOperation("~", x), {[x EXCEPT !.n = 1]}) # {}

\* The quotient is in the range of the dividend, but for that of the least
\* number by -1, which is the number of the next whole.
LEMMA QuotientFits ==
    ASSUME NEW bits \in Widths, NEW a \in RangeOf(bits), NEW b \in Int \ {0}
    PROVE  LET q == Quotient(a, b)
           IN  /\ q \in RangeOf(bits) => b * q \in RangeOf(bits) /\ Remainder(a, b) \in RangeOf(bits)
               /\ q \notin RangeOf(bits) => /\ a = -Half(bits) /\ b = -1 /\ q = Half(bits)
                                            /\ Remainder(a, b) = 0
<1> DEFINE H == Half(bits)
           q == Quotient(a, b)
           r == Remainder(a, b)
           m == Magnitude(a)
           s == b * q
<1>1. H \in Nat \ {0} /\ a \in Int /\ a \in -H .. (H - 1)
  BY WholeWidth DEF RangeOf
<1>2. /\ q \in Int /\ r \in Int /\ s \in Int /\ a = s + r
      /\ a >= 0 => s \in 0 .. a /\ r \in 0 .. a
      /\ a < 0 => s \in a .. 0 /\ r \in a .. 0
      /\ q \in -m .. m
      /\ q = m /\ q # 0 /\ a < 0 => b = -1
  BY <1>1, DivisionRounds
<1>3. m = IF a < 0 THEN -a ELSE a
  BY DEF Magnitude
<1>4. RangeOf(bits) = -H .. (H - 1)
  BY DEF RangeOf
<1>5. q = H => s = b * H
  OBVIOUS
<1> HIDE DEF H, q, r, m, s
<1>6. s \in -H .. (H - 1) /\ r \in -H .. (H - 1)
  BY ONLY <1>1, <1>2
<1>7. ASSUME q \notin -H .. (H - 1) PROVE a = -H /\ b = -1 /\ q = H /\ r = 0
  <2>1. q \in Int /\ (q > H - 1 \/ q < -H)
    BY <1>1, <1>2, <1>7
  <2>2. a < 0 /\ a = -H /\ m = H /\ q = m
    BY ONLY <1>1, <1>2, <1>3, <2>1
  <2>3. b = -1
    BY ONLY <1>1, <1>2, <2>2
  <2>4. s = -H
    BY <1>1, <1>5, <2>2, <2>3
  <2> QED BY ONLY <1>1, <1>2, <2>2, <2>3, <2>4
<1> QED BY <1>4, <1>6, <1>7 DEF H, q, r, s

\* The first agreement of two ints.
LEMMA IntsDivide ==
    ASSUME NEW a \in IntRange, NEW b \in IntRange, b # 0
    PROVE  LET x == IntValue(a)
               y == IntValue(b)
           IN  x \in Eval("+", Eval("*", Eval("/", {x}, {y}), {y}), Eval("%", {x}, {y}))
<1> DEFINE x == IntValue(a)
           y == IntValue(b)
           q == Quotient(a, b)
           r == Remainder(a, b)
           s == b * q
           H == Half(IntBits)
<1>1. a \in Int /\ b \in Int \ {0} /\ IntBits \in Widths /\ a \in RangeOf(IntBits)
  BY RangesAre DEF Widths
<1>2. q \in Int /\ r \in Int /\ s \in Int /\ a = s + r
  BY <1>1, DivisionRounds
<1>3. /\ Eval("/", {x}, {y}) = IntResult(q)
      /\ Eval("%", {x}, {y}) = IntResult(IF q \in IntRange THEN r ELSE q)
  <2>1. Eval("/", {x}, {y}) = BasicOperation("/", x, y) /\ Eval("%", {x}, {y}) = BasicOperation("%", x, y)
    BY EvalOfOne
  <2> HIDE DEF q, r
  <2> QED BY <1>1, <2>1, IntDoes DEF q, r
<1> HIDE DEF q, r, s
<1>4. CASE q \in IntRange
  <2>1. s \in IntRange /\ r \in IntRange
    BY <1>1, <1>4, QuotientFits, RangesAre DEF q, r, s
  <2>2. IntValue(q) \in Eval("/", {x}, {y}) /\ IntValue(r) \in Eval("%", {x}, {y})
    BY <1>3, <1>4, <2>1 DEF IntResult
  <2>3. q * b = s
    BY <1>1, <1>2 DEF s
  <2>4. IntValue(s) \in BasicOperation("*", IntValue(q), y)
    BY <1>1, <1>2, <2>1, <2>3, IntDoes DEF IntResult
  <2>5. IntValue(s) \in Eval("*", Eval("/", {x}, {y}), {y})
    <3> y \in {y}
      OBVIOUS
    <3> HIDE DEF x, y
    <3> QED BY <2>2, <2>4, EvalHas
  <2>6. x \in BasicOperation("+", IntValue(s), IntValue(r))
    BY <1>1, <1>2, IntDoes DEF IntResult
  <2>7. x \in Eval("+", Eval("*", Eval("/", {x}, {y}), {y}), Eval("%", {x}, {y}))
    <3> HIDE DEF x, y
    <3> QED BY <2>2, <2>5, <2>6, EvalHas
  <2> QED BY <2>7
<1>5. CASE q \notin IntRange
  <2>1. b = -1
    BY <1>1, <1>5, QuotientFits, RangesAre DEF q
  <2>2. 0 \in IntRange
    BY <1>1, RangesAre, WholeWidth DEF RangeOf
  <2>3. Eval("/", {x}, {y}) = Ints /\ Eval("%", {x}, {y}) = Ints
    BY <1>3, <1>5 DEF IntResult
  <2>4. x \in Ints /\ IntValue(0) \in Ints
    BY <2>2 DEF Ints
  <2>5. IntValue(0) \in BasicOperation("*", IntValue(0), y)
    <3>1. 0 * b = 0 /\ 0 \in Int
      BY <1>1
    <3> QED BY <1>1, <2>2, <3>1, IntDoes DEF IntResult
  <2>6. IntValue(0) \in Eval("*", Eval("/", {x}, {y}), {y})
    <3> y \in {y}
      OBVIOUS
    <3> HIDE DEF x, y
    <3> QED BY <2>3, <2>4, <2>5, EvalHas
  <2>7. x \in BasicOperation("+", IntValue(0), x)
    <3>1. 0 + a = a /\ 0 \in Int
      BY <1>1
    <3> QED BY <1>1, <3>1, IntDoes DEF IntResult
  <2>8. x \in Eval("+", Eval("*", Eval("/", {x}, {y}), {y}), Eval("%", {x}, {y}))
    <3> HIDE DEF x, y
    <3> QED BY <2>3, <2>4, <2>6, <2>7, EvalHas
  <2> QED BY <2>8
<1> QED BY <1>4, <1>5

\* The first agreement of two chars: a quotient that is truncated is that of the
\* least char by -1, which is truncated to the least one again.
LEMMA CharsDivide ==
    ASSUME NEW a \in CharRange, NEW b \in CharRange, b # 0
    PROVE  LET x == CharValue(a)
               y == CharValue(b)
           IN  x \in Eval("+", Eval("*", Eval("/", {x}, {y}), {y}), Eval("%", {x}, {y}))
<1> DEFINE x == CharValue(a)
           y == CharValue(b)
           q == Quotient(a, b)
           r == Remainder(a, b)
           s == b * q
           H == Half(CharBits)
           qq == Signed(q, CharBits)
           rr == Signed(r, CharBits)
           ss == Signed(qq * b, CharBits)
<1>1. a \in Int /\ b \in Int \ {0} /\ CharBits \in Widths /\ a \in RangeOf(CharBits)
  BY RangesAre DEF Widths
<1>2. q \in Int /\ r \in Int /\ s \in Int /\ a = s + r
  BY <1>1, DivisionRounds
<1>3. Eval("/", {x}, {y}) = {CharValue(qq)} /\ Eval("%", {x}, {y}) = {CharValue(rr)}
  <2>1. Eval("/", {x}, {y}) = BasicOperation("/", x, y) /\ Eval("%", {x}, {y}) = BasicOperation("%", x, y)
    BY EvalOfOne
  <2> QED BY <1>1, <2>1, CharDoes DEF CharResult
<1>4. qq \in Int /\ rr \in Int /\ qq * b \in Int /\ ss \in Int
  <2>1. qq \in Int /\ rr \in Int
    BY <1>1, <1>2, SignedRest, RangesAre
  <2> HIDE DEF qq
  <2>2. qq * b \in Int
    BY <1>1, <2>1
  <2>3. ss \in Int
    BY <1>1, <2>2, SignedRest, RangesAre
  <2> QED BY <2>1, <2>2, <2>3
<1> HIDE DEF qq, rr, q, r, s
<1>5. Eval("*", Eval("/", {x}, {y}), {y}) = {CharValue(ss)}
  <2>1. BasicOperation("*", CharValue(qq), y) = {CharValue(ss)}
    BY <1>1, <1>4, CharDoes DEF CharResult
  <2> QED BY <1>3, <2>1, EvalOfOne
<1> HIDE DEF ss
<1>6. Signed(ss + rr, CharBits) = a
  <2>1. CASE q \in CharRange
    <3>1. s \in RangeOf(CharBits) /\ r \in RangeOf(CharBits) /\ q \in RangeOf(CharBits)
      BY <1>1, <2>1, QuotientFits, RangesAre DEF q, r, s
    <3>2. qq = q /\ rr = r /\ Signed(s, CharBits) = s /\ Signed(a, CharBits) = a
      BY <1>1, <3>1, SignedStays DEF qq, rr
    <3>3. qq * b = s
      BY <1>1, <1>2, <3>2 DEF s
    <3>4. ss = s
      BY <3>2, <3>3 DEF ss
    <3> QED BY <1>2, <3>2, <3>4
  <2>2. CASE q \notin CharRange
    <3>1. a = -H /\ b = -1 /\ q = H /\ r = 0
      BY <1>1, <2>2, QuotientFits, RangesAre DEF q, r
    <3>2. H \in Nat \ {0} /\ -H \in RangeOf(CharBits) /\ 0 \in RangeOf(CharBits)
      BY <1>1, WholeWidth DEF RangeOf
    <3>3. qq = -H
      <4>1. H = -H + 1 * (H + H)
        <5> HIDE DEF H
        <5> QED BY <3>2
      <4> QED BY <1>1, <3>1, <3>2, <4>1, SignedOnly DEF qq
    <3>4. rr = 0
      BY <1>1, <3>1, <3>2, SignedStays DEF rr
    <3>5. qq * b = H
      <4> HIDE DEF H
      <4> QED BY <3>1, <3>2, <3>3
    <3>6. ss = -H
      BY <3>1, <3>3, <3>5 DEF ss, qq
    <3>7. Signed(-H, CharBits) = -H
      BY <1>1, <3>2, SignedStays
    <3>8. ss + rr = -H
      <4> HIDE DEF H
      <4> QED BY <3>2, <3>4, <3>6
    <3> QED BY <3>1, <3>7, <3>8
  <2> QED BY <2>1, <2>2
<1>7. BasicOperation("+", CharValue(ss), CharValue(rr)) = {x}
  BY <1>4, <1>6, CharDoes DEF CharResult
<1> QED BY <1>3, <1>5, <1>7, EvalOfOne

\* The second agreement of two ints.
LEMMA IntBitsAgree ==
    ASSUME NEW a \in IntRange, NEW b \in IntRange
    PROVE  LET x == IntValue(a)
               y == IntValue(b)
           IN  Eval("|", {x}, {y}) \subseteq Eval("+", Eval("&", {x}, {y}), Eval("^", {x}, {y}))
<1> DEFINE x == IntValue(a)
           y == IntValue(b)
           u == Bitwise("|", a, b, IntBits)
           v == Bitwise("&", a, b, IntBits)
           w == Bitwise("^", a, b, IntBits)
<1>1. a \in Int /\ b \in Int /\ IntBits \in Widths
  BY RangesAre DEF Widths
<1>2. /\ u \in IntRange /\ v \in IntRange /\ w \in IntRange
      /\ u = Signed(v + w, IntBits)
  BY <1>1, BitsAdd, RangesAre DEF Bitwise
<1> HIDE DEF u, v, w
<1>3. /\ Eval("|", {x}, {y}) = {IntValue(u)} /\ Eval("&", {x}, {y}) = {IntValue(v)}
      /\ Eval("^", {x}, {y}) = {IntValue(w)}
  <2>1. \A op : Eval(op, {x}, {y}) = BasicOperation(op, x, y)
    BY EvalOfOne
  <2>2. \A op \in BitOperators : BasicOperation(op, x, y) = {IntValue(Bitwise(op, a, b, IntBits))}
    BY <1>1, IntDoes
  <2>3. "|" \in BitOperators /\ "&" \in BitOperators /\ "^" \in BitOperators
    BY DEF BitOperators
  <2> HIDE DEF x, y
  <2> QED BY <2>1, <2>2, <2>3 DEF u, v, w
<1>4. Eval("+", {IntValue(v)}, {IntValue(w)}) = IntResult(v + w)
  <2>1. v \in Int /\ w \in Int
    BY <1>2, RangesAre
  <2>2. BasicOperation("+", IntValue(v), IntValue(w)) = IntResult(v + w)
    BY <2>1, IntDoes
  <2> QED BY <2>2, EvalOfOne
<1>5. IntValue(u) \in IntResult(v + w)
  <2>1. CASE v + w \in IntRange
    <3>1. u = v + w
      BY <1>1, <1>2, <2>1, SignedStays, RangesAre
    <3> QED BY <2>1, <3>1 DEF IntResult
  <2>2. CASE v + w \notin IntRange
    BY <1>2, <2>2 DEF IntResult, Ints
  <2> QED BY <2>1, <2>2
<1> QED BY <1>3, <1>4, <1>5

\* The second agreement of two chars.
LEMMA CharBitsAgree ==
    ASSUME NEW a \in CharRange, NEW b \in CharRange
    PROVE  LET x == CharValue(a)
               y == CharValue(b)
           IN  Eval("|", {x}, {y}) \subseteq Eval("+", Eval("&", {x}, {y}), Eval("^", {x}, {y}))
<1> DEFINE x == CharValue(a)
           y == CharValue(b)
           u == Bitwise("|", a, b, CharBits)
           v == Bitwise("&", a, b, CharBits)
           w == Bitwise("^", a, b, CharBits)
<1>1. a \in Int /\ b \in Int /\ CharBits \in Widths
  BY RangesAre DEF Widths
<1>2. v \in CharRange /\ w \in CharRange /\ u = Signed(v + w, CharBits)
  BY <1>1, BitsAdd, RangesAre DEF Bitwise
<1> HIDE DEF u, v, w
<1>3. /\ Eval("|", {x}, {y}) = {CharValue(u)} /\ Eval("&", {x}, {y}) = {CharValue(v)}
      /\ Eval("^", {x}, {y}) = {CharValue(w)}
  <2>1. \A op : Eval(op, {x}, {y}) = BasicOperation(op, x, y)
    BY EvalOfOne
  <2>2. \A op \in BitOperators : BasicOperation(op, x, y) = {CharValue(Bitwise(op, a, b, CharBits))}
    BY <1>1, CharDoes
  <2>3. "|" \in BitOperators /\ "&" \in BitOperators /\ "^" \in BitOperators
    BY DEF BitOperators
  <2> HIDE DEF x, y
  <2> QED BY <2>1, <2>2, <2>3 DEF u, v, w
<1>4. Eval("+", {CharValue(v)}, {CharValue(w)}) = CharResult(v + w)
  <2>1. v \in Int /\ w \in Int
    BY <1>2, RangesAre
  <2>2. BasicOperation("+", CharValue(v), CharValue(w)) = CharResult(v + w)
    BY <2>1, CharDoes
  <2> QED BY <2>2, EvalOfOne
<1> QED BY <1>2, <1>3, <1>4 DEF CharResult

\* The third agreement of ints: the negation of the least int may be any.
LEMMA IntsNegate ==
    ASSUME NEW a \in IntRange
    PROVE  LET x == IntValue(a)
           IN  UnaryOperation("-", x) \cap Eval("+", UnaryOperation("~", x), {[x EXCEPT !.n = 1]}) # {}
<1> DEFINE x == IntValue(a)
           c == -a - 1
<1>1. a \in Int /\ c \in Int /\ -a \in Int /\ c + 1 = -a /\ 1 \in Int
  BY RangesAre
<1>2. x.type = "int" /\ x.n = a /\ [x EXCEPT !.n = 1] = IntValue(1)
  BY DEF IntValue, Value
<1>3. UnaryOperation("-", x) = IntResult(-a) /\ UnaryOperation("~", x) = {IntValue(c)}
  BY <1>2 DEF UnaryOperation
<1>4. Eval("+", {IntValue(c)}, {IntValue(1)}) = IntResult(-a)
  <2> HIDE DEF c
  <2>1. BasicOperation("+", IntValue(c), IntValue(1)) = IntResult(c + 1)
    BY <1>1, IntDoes
  <2> QED BY <1>1, <2>1, EvalOfOne
<1>5. IntResult(-a) # {}
  BY DEF IntResult, Ints
<1> QED BY <1>2, <1>3, <1>4, <1>5

\* The third agreement of chars, truncated once or twice.
LEMMA CharsNegate ==
    ASSUME NEW a \in CharRange
    PROVE  LET x == CharValue(a)
           IN  UnaryOperation("-", x) \cap Eval("+", UnaryOperation("~", x), {[x EXCEPT !.n = 1]}) # {}
<1> DEFINE x == CharValue(a)
           c == -a - 1
           t == Signed(c, CharBits)
<1>1. a \in Int /\ c \in Int /\ -a \in Int /\ c + 1 = -a /\ 1 \in Int /\ CharBits \in Widths
  BY RangesAre DEF Widths
<1>2. x.type = "char" /\ x.n = a /\ [x EXCEPT !.n = 1] = CharValue(1)
  BY DEF CharValue, Value
<1>3. UnaryOperation("-", x) = CharResult(-a) /\ UnaryOperation("~", x) = {CharValue(t)}
  BY <1>2 DEF UnaryOperation, CharResult
<1>4. Signed(t + 1, CharBits) = Signed(-a, CharBits)
  <2> HIDE DEF c
  <2>1. PICK k \in Int : c = t + k * (Half(CharBits) + Half(CharBits))
    BY <1>1, SignedRest
  <2>2. Half(CharBits) \in Nat /\ t \in Int
    BY <1>1, WholeWidth, SignedRest, RangesAre
  <2> DEFINE s == Signed(t + 1, CharBits)
             M == Half(CharBits) + Half(CharBits)
  <2> HIDE DEF t
  <2>3. t + 1 \in Int
    BY <2>2
  <2>4. PICK l \in Int : t + 1 = s + l * M
    BY <1>1, <2>3, SignedRest
  <2>5. s \in RangeOf(CharBits) /\ s \in Int
    BY <1>1, <2>3, SignedRest, RangesAre
  <2>6. -a = s + (k + l) * M
    <3> HIDE DEF s, t, M
    <3> DEFINE p == k * M
               q == l * M
    <3>1. M \in Int
      BY <2>2 DEF M
    <3>2. p \in Int /\ q \in Int /\ (k + l) * M = p + q
      BY ONLY <3>1, k \in Int, l \in Int
    <3>3. c = t + p /\ t + 1 = s + q
      BY <2>1, <2>4 DEF M
    <3> HIDE DEF p, q
    <3> QED BY ONLY <1>1, <2>2, <2>5, <3>1, <3>2, <3>3
  <2>7. k + l \in Int
    OBVIOUS
  <2> HIDE DEF s
  <2>8. Signed(-a, CharBits) = s
    <3> DEFINE n == k + l
    <3>1. -a = s + n * M
      BY <2>6
    <3> HIDE DEF n
    <3> QED BY <1>1, <2>5, <2>7, <3>1, SignedOnly DEF n
  <2> QED BY <2>8 DEF s
<1>5. Eval("+", {CharValue(t)}, {CharValue(1)}) = CharResult(-a)
  <2>1. t \in Int
    <3> HIDE DEF c
    <3> QED BY <1>1, SignedRest, RangesAre
  <2> HIDE DEF t
  <2>2. BasicOperation("+", CharValue(t), CharValue(1)) = CharResult(t + 1)
    BY <1>1, <2>1, CharDoes
  <2> QED BY <1>4, <2>2, EvalOfOne DEF CharResult
<1> QED BY <1>2, <1>3, <1>5 DEF CharResult

\* All three, of two ints or two chars that an operator is asked of.
LEMMA OperandsAgree ==
    ASSUME NEW x \in Operands, NEW y \in Operands, x.type = y.type, x.type \in {"int", "char"}
    PROVE  ArithmeticOf(x, y)
<1>1. CASE x.type = "int"
  <2> DEFINE a == x.n
             b == y.n
  <2>1. a \in IntRange /\ b \in IntRange /\ x = IntValue(a) /\ y = IntValue(b)
    BY <1>1, ValuesAssumption, RangesAre
  <2> HIDE DEF a, b
  <2>2. /\ b # 0 => x \in Eval("+", Eval("*", Eval("/", {x}, {y}), {y}), Eval("%", {x}, {y}))
        /\ Eval("|", {x}, {y}) \subseteq Eval("+", Eval("&", {x}, {y}), Eval("^", {x}, {y}))
        /\ UnaryOperation("-", x) \cap Eval("+", UnaryOperation("~", x), {[x EXCEPT !.n = 1]}) # {}
    BY <2>1, IntsDivide, IntBitsAgree, IntsNegate
  <2> QED BY <2>2 DEF ArithmeticOf, b
<1>2. CASE x.type = "char"
  <2> DEFINE a == x.n
             b == y.n
  <2>1. a \in CharRange /\ b \in CharRange /\ x = CharValue(a) /\ y = CharValue(b)
    BY <1>2, ValuesAssumption, RangesAre
  <2> HIDE DEF a, b
  <2>2. /\ b # 0 => x \in Eval("+", Eval("*", Eval("/", {x}, {y}), {y}), Eval("%", {x}, {y}))
        /\ Eval("|", {x}, {y}) \subseteq Eval("+", Eval("&", {x}, {y}), Eval("^", {x}, {y}))
        /\ UnaryOperation("-", x) \cap Eval("+", UnaryOperation("~", x), {[x EXCEPT !.n = 1]}) # {}
    BY <2>1, CharsDivide, CharBitsAgree, CharsNegate
  <2> QED BY <2>2 DEF ArithmeticOf, b
<1> QED BY <1>1, <1>2

\* The operators of two ints or two chars agree.
LEMMA ArithmeticAnswer == Answered => ArithmeticAgrees
<1> SUFFICES ASSUME Answered, asked # <<>>, asked[1] = "binary",
                    asked[2][2].type = asked[2][3].type, asked[2][2].type \in {"int", "char"}
             PROVE  ArithmeticOf(asked[2][2], asked[2][3])
  BY DEF ArithmeticAgrees, ArithmeticOf
<1>1. asked[2][2] \in Operands /\ asked[2][3] \in Operands
  BY DEF Answered
<1> QED BY <1>1, OperandsAgree

\* OperatorsAgree: whatever a script compares or computes, the operators answer
\* as those of one total order, and the arithmetic of ints and chars of any width
\* agrees with itself.
THEOREM OperatorsCorrect == ValuesSpec => []OperatorsAgree
<1>1. Answered => OperatorsAgree
  BY ComparisonsAnswer, ArithmeticAnswer DEF OperatorsAgree
<1> QED BY <1>1, AnsweredAlways, PTL

----------------------------------------------------------------------------
(* The methods of String that search.                                      *)

AllTexts == Seq(Int)

\* A part of a text is a text, as long as from is before to.
LEMMA PartIs ==
    ASSUME NEW s \in AllTexts, NEW from \in 0 .. Len(s), NEW to \in from .. Len(s)
    PROVE  Part(s, from, to) \in AllTexts /\ Len(Part(s, from, to)) = to - from
<1>1. Len(s) \in Nat /\ \A i \in 1 .. Len(s) : s[i] \in Int
  BY ElementOfSeq, LenProperties DEF AllTexts
<1>2. from + 1 \in Int /\ to \in Int /\ \A i \in (from + 1) .. to : s[i] \in Int
  BY <1>1
<1>3. /\ SubSeq(s, from + 1, to) \in Seq(Int)
      /\ Len(SubSeq(s, from + 1, to)) = IF from + 1 <= to THEN to - (from + 1) + 1 ELSE 0
  BY <1>2, SubSeqProperties
<1> QED BY <1>1, <1>3 DEF Part, AllTexts

\* Two parts, one behind the other.
LEMMA PartsAdjoin ==
    ASSUME NEW s \in AllTexts, NEW from \in 0 .. Len(s), NEW at \in from .. Len(s), NEW to \in at .. Len(s)
    PROVE  Part(s, from, at) \o Part(s, at, to) = Part(s, from, to)
<1>1. Len(s) \in Nat
  BY LenProperties DEF AllTexts
<1>2. /\ from + 1 \in 1 .. Len(s) + 1
      /\ at \in (from + 1) - 1 .. Len(s) /\ to \in at .. Len(s)
  BY <1>1
<1> QED BY <1>2, ConcatAdjacentSubSeq DEF Part, AllTexts

\* What find finds.
LEMMA FindFinds ==
    ASSUME NEW s \in AllTexts, NEW t \in AllTexts, NEW from \in 0 .. Len(s)
    PROVE  LET at == FindFrom(s, t, from)
           IN  \/ /\ at = -1
                  /\ \A p \in from .. Len(s) : ~OccursAt(s, t, p)
               \/ /\ at \in from .. Len(s) /\ OccursAt(s, t, at)
                  /\ \A p \in from .. Len(s) : OccursAt(s, t, p) => at <= p
<1> DEFINE places == {at \in from .. Len(s) : OccursAt(s, t, at)}
<1>1. Len(s) \in Nat
  BY LenProperties DEF AllTexts
<1>2. FindFrom(s, t, from) = IF places = {} THEN -1 ELSE Min(places)
  BY DEF FindFrom
<1>3. places \subseteq Nat
  BY <1>1
<1>4. \A p : p \in places <=> p \in from .. Len(s) /\ OccursAt(s, t, p)
  OBVIOUS
<1> HIDE DEF places
<1>5. places # {} => Min(places) \in places /\ \A p \in places : Min(places) <= p
  BY <1>3, MinIsSmallest
<1> QED BY <1>2, <1>4, <1>5

\* Behind a text that occurs and is not empty the search goes on further right.
LEMMA FindAdvances ==
    ASSUME NEW s \in AllTexts, NEW t \in AllTexts, t # <<>>, NEW from \in 0 .. Len(s),
           FindFrom(s, t, from) # -1
    PROVE  LET at == FindFrom(s, t, from)
           IN  /\ at \in from .. Len(s) /\ at + Len(t) \in (from + 1) .. Len(s)
               /\ at \in Nat /\ at + Len(t) \in at .. Len(s)
               /\ Part(s, at, at + Len(t)) = t
<1>1. Len(s) \in Nat /\ Len(t) \in Nat \ {0}
  BY EmptySeq, LenProperties DEF AllTexts
<1>2. FindFrom(s, t, from) \in from .. Len(s) /\ OccursAt(s, t, FindFrom(s, t, from))
  BY FindFinds
<1> QED BY <1>1, <1>2 DEF OccursAt

\* The loops of split and replace, and that of joined parts, from a place on.
SplitStep(s, t, p, f) ==
    LET at == FindFrom(s, t, p)
    IN  IF at = -1 THEN <<Part(s, p, Len(s))>> ELSE <<Part(s, p, at)>> \o f[at + Len(t)]
SplitFrom(s, t) == CHOOSE f : f = [p \in 0 .. Len(s) |-> SplitStep(s, t, p, f)]

ReplaceStep(s, t, new, p, f) ==
    LET at == FindFrom(s, t, p)
    IN  IF at = -1 THEN Part(s, p, Len(s)) ELSE Part(s, p, at) \o new \o f[at + Len(t)]
ReplaceFrom(s, t, new) == CHOOSE f : f = [p \in 0 .. Len(s) |-> ReplaceStep(s, t, new, p, f)]

JoinStep(parts, between, i, f) ==
    IF i = Len(parts) THEN parts[i] ELSE parts[i] \o between \o f[i + 1]
JoinFrom(parts, between) == CHOOSE f : f = [i \in DOMAIN parts |-> JoinStep(parts, between, i, f)]

\* split is the function of its loop, taken at the start of the text.
LEMMA SplitIs ==
    ASSUME NEW s, NEW t, t # <<>>
    PROVE  Split(s, t) = SplitFrom(s, t)[0]
BY DEF Split, SplitFrom, SplitStep

\* So is replace.
LEMMA ReplaceIs ==
    ASSUME NEW s, NEW t, t # <<>>, NEW new
    PROVE  Replace(s, t, new) = ReplaceFrom(s, t, new)[0]
BY DEF Replace, ReplaceFrom, ReplaceStep

\* So is JoinedBy, from the first part on.
LEMMA JoinedIs ==
    ASSUME NEW parts, NEW between
    PROVE  JoinedBy(parts, between) = JoinFrom(parts, between)[1]
BY DEF JoinedBy, JoinFrom, JoinStep

\* The loop of replace makes a text at every place.
LEMMA ReplaceRuns ==
    ASSUME NEW s \in AllTexts, NEW t \in AllTexts, t # <<>>, NEW new \in AllTexts
    PROVE  \A p \in 0 .. Len(s) :
              /\ ReplaceFrom(s, t, new)[p] = ReplaceStep(s, t, new, p, ReplaceFrom(s, t, new))
              /\ ReplaceFrom(s, t, new)[p] \in AllTexts
<1> DEFINE N == Len(s)
           step == [x \in (0 .. N) \X [0 .. N -> AllTexts] |-> ReplaceStep(s, t, new, x[1], x[2])]
<1>1. N \in Nat /\ s \in AllTexts /\ <<>> \in AllTexts
  BY LenProperties DEF AllTexts
<1>2. ASSUME NEW p \in 0 .. N, NEW f \in [0 .. N -> AllTexts]
      PROVE  ReplaceStep(s, t, new, p, f) \in AllTexts
  <2> DEFINE at == FindFrom(s, t, p)
  <2>1. CASE at = -1
    <3>1. p \in 0 .. Len(s) /\ Len(s) \in p .. Len(s)
      BY <1>1
    <3>2. Part(s, p, Len(s)) \in AllTexts
      BY <3>1, PartIs
    <3> QED BY <2>1, <3>2 DEF ReplaceStep
  <2>2. CASE at # -1
    <3>1. at \in p .. Len(s) /\ at + Len(t) \in (p + 1) .. Len(s)
      BY <2>2, FindAdvances
    <3> HIDE DEF at
    <3>2. Part(s, p, at) \in AllTexts
      BY <3>1, PartIs
    <3>3. at + Len(t) \in 0 .. N
      BY <1>1, <3>1
    <3>4. f[at + Len(t)] \in AllTexts
      BY <3>3
    <3>5. Part(s, p, at) \o new \o f[at + Len(t)] \in AllTexts
      BY <3>2, <3>4, ConcatProperties DEF AllTexts
    <3> QED BY <2>2, <3>5 DEF ReplaceStep, at
  <2> QED BY <2>1, <2>2
<1>3. ASSUME NEW p \in 0 .. N, NEW f, NEW g, \A q \in (p + 1) .. N : f[q] = g[q]
      PROVE  ReplaceStep(s, t, new, p, f) = ReplaceStep(s, t, new, p, g)
  <2> DEFINE at == FindFrom(s, t, p)
  <2>1. CASE at = -1
    BY <2>1 DEF ReplaceStep
  <2>2. CASE at # -1
    <3>1. at + Len(t) \in (p + 1) .. N
      BY <2>2, FindAdvances
    <3>2. f[at + Len(t)] = g[at + Len(t)]
      BY <1>3, <3>1
    <3> QED BY <3>2 DEF ReplaceStep
  <2> QED BY <2>1, <2>2
<1>4. LooksAhead(step, 0, N, AllTexts)
  <2>1. step \in [(0 .. N) \X [0 .. N -> AllTexts] -> AllTexts]
    BY <1>2
  <2>2. \A p \in 0 .. N, f \in [0 .. N -> AllTexts] : step[<<p, f>>] = ReplaceStep(s, t, new, p, f)
    OBVIOUS
  <2> HIDE DEF step
  <2>3. ASSUME NEW p \in 0 .. N, NEW f \in [0 .. N -> AllTexts], NEW g \in [0 .. N -> AllTexts],
               \A q \in (p + 1) .. N : f[q] = g[q]
        PROVE  step[<<p, f>>] = step[<<p, g>>]
    <3>1. ReplaceStep(s, t, new, p, f) = ReplaceStep(s, t, new, p, g)
      BY <1>3, <2>3
    <3> QED BY <2>2, <3>1
  <2> QED BY <2>1, <2>3 DEF LooksAhead
<1>5. PICK f \in [0 .. N -> AllTexts] : \A p \in 0 .. N : f[p] = step[<<p, f>>]
  <2> HIDE DEF step
  <2> QED BY <1>1, <1>4, RecursionDown
<1>6. f = [p \in 0 .. N |-> ReplaceStep(s, t, new, p, f)]
  BY <1>5
<1> DEFINE r == ReplaceFrom(s, t, new)
<1>7. r = [p \in 0 .. N |-> ReplaceStep(s, t, new, p, r)]
  BY <1>6 DEF ReplaceFrom
<1> HIDE DEF r
<1>8. \A p \in 0 .. N : r[p] = ReplaceStep(s, t, new, p, r)
  BY Zenon, <1>7
<1> DEFINE Same == {p \in 0 .. N : r[p] = f[p]}
<1>9. ASSUME NEW p \in 0 .. N, \A q \in (p + 1) .. N : q \in Same PROVE p \in Same
  <2>1. ReplaceStep(s, t, new, p, r) = ReplaceStep(s, t, new, p, f)
    BY <1>3, <1>9
  <2>2. f[p] = ReplaceStep(s, t, new, p, f)
    BY <1>5
  <2> QED BY <1>8, <2>1, <2>2
<1>10. Same = 0 .. N
  <2>1. Same \subseteq 0 .. N
    OBVIOUS
  <2> HIDE DEF Same
  <2> QED BY <1>1, <1>9, <2>1, InductionDown
<1> QED BY <1>5, <1>8, <1>10 DEF r

\* The loop of split makes parts, one at least, at every place.
LEMMA SplitRuns ==
    ASSUME NEW s \in AllTexts, NEW t \in AllTexts, t # <<>>
    PROVE  \A p \in 0 .. Len(s) :
              /\ SplitFrom(s, t)[p] = SplitStep(s, t, p, SplitFrom(s, t))
              /\ SplitFrom(s, t)[p] \in Seq(AllTexts) \ {<<>>}
<1> DEFINE N == Len(s)
           Lists == Seq(AllTexts) \ {<<>>}
           step == [x \in (0 .. N) \X [0 .. N -> Lists] |-> SplitStep(s, t, x[1], x[2])]
<1>1. N \in Nat /\ <<s>> \in Lists
  <2>1. N \in Nat
    BY LenProperties DEF AllTexts
  <2>2. <<s>> \in Seq(AllTexts) /\ <<s>> # <<>>
    OBVIOUS
  <2> QED BY <2>1, <2>2
<1>2. ASSUME NEW p \in 0 .. N, NEW f \in [0 .. N -> Lists]
      PROVE  SplitStep(s, t, p, f) \in Lists
  <2> DEFINE at == FindFrom(s, t, p)
  <2>1. CASE at = -1
    <3>1. p \in 0 .. Len(s) /\ Len(s) \in p .. Len(s)
      BY <1>1
    <3>2. Part(s, p, Len(s)) \in AllTexts
      BY <3>1, PartIs
    <3>3. <<Part(s, p, Len(s))>> \in Lists
      BY <3>2
    <3> QED BY <2>1, <3>3 DEF SplitStep
  <2>2. CASE at # -1
    <3>1. at \in p .. Len(s) /\ at + Len(t) \in (p + 1) .. Len(s)
      BY <2>2, FindAdvances
    <3> HIDE DEF at
    <3>2. Part(s, p, at) \in AllTexts
      BY <3>1, PartIs
    <3>3. at + Len(t) \in 0 .. N
      BY <1>1, <3>1
    <3>4. f[at + Len(t)] \in Lists
      BY <3>3
    <3>5. <<Part(s, p, at)>> \in Seq(AllTexts) /\ Len(<<Part(s, p, at)>>) = 1
      BY <3>2
    <3>6. /\ <<Part(s, p, at)>> \o f[at + Len(t)] \in Seq(AllTexts)
          /\ Len(<<Part(s, p, at)>> \o f[at + Len(t)]) = 1 + Len(f[at + Len(t)])
          /\ Len(f[at + Len(t)]) \in Nat
      BY <3>4, <3>5, ConcatProperties, LenProperties
    <3>7. <<Part(s, p, at)>> \o f[at + Len(t)] # <<>>
      <4>1. Len(<<>>) = 0
        OBVIOUS
      <4> QED BY <3>6, <4>1
    <3> QED BY <2>2, <3>6, <3>7 DEF SplitStep, at
  <2> QED BY <2>1, <2>2
<1>3. ASSUME NEW p \in 0 .. N, NEW f, NEW g, \A q \in (p + 1) .. N : f[q] = g[q]
      PROVE  SplitStep(s, t, p, f) = SplitStep(s, t, p, g)
  <2> DEFINE at == FindFrom(s, t, p)
  <2>1. CASE at = -1
    BY <2>1 DEF SplitStep
  <2>2. CASE at # -1
    <3>1. at + Len(t) \in (p + 1) .. N
      BY <2>2, FindAdvances
    <3>2. f[at + Len(t)] = g[at + Len(t)]
      BY <1>3, <3>1
    <3> QED BY <3>2 DEF SplitStep
  <2> QED BY <2>1, <2>2
<1> HIDE DEF Lists
<1>4. LooksAhead(step, 0, N, Lists)
  <2>1. step \in [(0 .. N) \X [0 .. N -> Lists] -> Lists]
    BY <1>2
  <2>2. \A p \in 0 .. N, f \in [0 .. N -> Lists] : step[<<p, f>>] = SplitStep(s, t, p, f)
    OBVIOUS
  <2> HIDE DEF step
  <2>3. ASSUME NEW p \in 0 .. N, NEW f \in [0 .. N -> Lists], NEW g \in [0 .. N -> Lists],
               \A q \in (p + 1) .. N : f[q] = g[q]
        PROVE  step[<<p, f>>] = step[<<p, g>>]
    <3>1. SplitStep(s, t, p, f) = SplitStep(s, t, p, g)
      BY <1>3, <2>3
    <3> QED BY <2>2, <3>1
  <2> QED BY <2>1, <2>3 DEF LooksAhead
<1>5. PICK f \in [0 .. N -> Lists] : \A p \in 0 .. N : f[p] = step[<<p, f>>]
  <2> HIDE DEF step
  <2> QED BY <1>1, <1>4, RecursionDown
<1>6. f = [p \in 0 .. N |-> SplitStep(s, t, p, f)]
  BY <1>5
<1> DEFINE r == SplitFrom(s, t)
<1>7. r = [p \in 0 .. N |-> SplitStep(s, t, p, r)]
  BY <1>6 DEF SplitFrom
<1> HIDE DEF r
<1>8. \A p \in 0 .. N : r[p] = SplitStep(s, t, p, r)
  BY Zenon, <1>7
<1> DEFINE Same == {p \in 0 .. N : r[p] = f[p]}
<1>9. ASSUME NEW p \in 0 .. N, \A q \in (p + 1) .. N : q \in Same PROVE p \in Same
  <2>1. SplitStep(s, t, p, r) = SplitStep(s, t, p, f)
    BY <1>3, <1>9
  <2>2. f[p] = SplitStep(s, t, p, f)
    BY <1>5
  <2> QED BY <1>8, <2>1, <2>2
<1>10. Same = 0 .. N
  <2>1. Same \subseteq 0 .. N
    OBVIOUS
  <2> HIDE DEF Same
  <2> QED BY <1>1, <1>9, <2>1, InductionDown
<1> QED BY <1>5, <1>8, <1>10 DEF r, Lists

\* Joining runs from every part on.
LEMMA JoinRuns ==
    ASSUME NEW parts \in Seq(AllTexts), NEW between \in AllTexts
    PROVE  \A i \in 1 .. Len(parts) :
              /\ JoinFrom(parts, between)[i] = JoinStep(parts, between, i, JoinFrom(parts, between))
              /\ JoinFrom(parts, between)[i] \in AllTexts
<1> DEFINE N == Len(parts)
           step == [x \in (1 .. N) \X [1 .. N -> AllTexts] |-> JoinStep(parts, between, x[1], x[2])]
<1>1. /\ N \in Nat /\ DOMAIN parts = 1 .. N /\ between \in AllTexts
      /\ \A i \in 1 .. N : parts[i] \in AllTexts
  BY ElementOfSeq, LenProperties
<1>2. ASSUME NEW i \in 1 .. N, NEW f \in [1 .. N -> AllTexts]
      PROVE  JoinStep(parts, between, i, f) \in AllTexts
  <2>1. CASE i = N
    BY <1>1, <2>1 DEF JoinStep
  <2>2. CASE i # N
    <3>1. i + 1 \in 1 .. N
      <4>1. N \in Nat /\ i \in 1 .. N /\ i # N
        BY <1>1, <2>2
      <4> HIDE DEF N
      <4> QED BY ONLY <4>1
    <3>2. f[i + 1] \in AllTexts /\ parts[i] \in AllTexts
      BY <1>1, <3>1
    <3>3. parts[i] \o between \o f[i + 1] \in AllTexts
      BY <3>2, ConcatProperties DEF AllTexts
    <3> QED BY <2>2, <3>3 DEF JoinStep
  <2> QED BY <2>1, <2>2
<1>3. ASSUME NEW i \in 1 .. N, NEW f, NEW g, \A q \in (i + 1) .. N : f[q] = g[q]
      PROVE  JoinStep(parts, between, i, f) = JoinStep(parts, between, i, g)
  <2>1. CASE i = N
    BY <2>1 DEF JoinStep
  <2>2. CASE i # N
    <3>1. i + 1 \in (i + 1) .. N
      <4>1. N \in Nat /\ i \in 1 .. N /\ i # N
        BY <1>1, <2>2
      <4> HIDE DEF N
      <4> QED BY ONLY <4>1
    <3>2. f[i + 1] = g[i + 1]
      BY <1>3, <3>1
    <3> QED BY <3>2 DEF JoinStep
  <2> QED BY <2>1, <2>2
<1>4. LooksAhead(step, 1, N, AllTexts)
  <2>1. step \in [(1 .. N) \X [1 .. N -> AllTexts] -> AllTexts]
    BY <1>2
  <2>2. \A i \in 1 .. N, f \in [1 .. N -> AllTexts] : step[<<i, f>>] = JoinStep(parts, between, i, f)
    OBVIOUS
  <2> HIDE DEF step
  <2>3. ASSUME NEW i \in 1 .. N, NEW f \in [1 .. N -> AllTexts], NEW g \in [1 .. N -> AllTexts],
               \A q \in (i + 1) .. N : f[q] = g[q]
        PROVE  step[<<i, f>>] = step[<<i, g>>]
    <3>1. JoinStep(parts, between, i, f) = JoinStep(parts, between, i, g)
      BY <1>3, <2>3
    <3> QED BY <2>2, <3>1
  <2> QED BY <2>1, <2>3 DEF LooksAhead
<1>5. PICK f \in [1 .. N -> AllTexts] : \A i \in 1 .. N : f[i] = step[<<i, f>>]
  <2> HIDE DEF step
  <2> QED BY <1>1, <1>4, RecursionDown
<1>6. f = [i \in DOMAIN parts |-> JoinStep(parts, between, i, f)]
  BY <1>1, <1>5
<1> DEFINE r == JoinFrom(parts, between)
<1>7. r = [i \in DOMAIN parts |-> JoinStep(parts, between, i, r)]
  BY <1>6 DEF JoinFrom
<1> HIDE DEF r
<1>8. \A i \in 1 .. N : r[i] = JoinStep(parts, between, i, r)
  BY Zenon, <1>1, <1>7
<1> DEFINE Same == {i \in 1 .. N : r[i] = f[i]}
<1>9. ASSUME NEW i \in 1 .. N, \A q \in (i + 1) .. N : q \in Same PROVE i \in Same
  <2>1. JoinStep(parts, between, i, r) = JoinStep(parts, between, i, f)
    BY <1>3, <1>9
  <2>2. f[i] = JoinStep(parts, between, i, f)
    BY <1>5
  <2> QED BY <1>8, <2>1, <2>2
<1>10. Same = 1 .. N
  <2>1. Same \subseteq 1 .. N
    OBVIOUS
  <2> HIDE DEF Same
  <2> QED BY <1>1, <1>9, <2>1, InductionDown
<1> QED BY <1>5, <1>8, <1>10 DEF r

\* One part joined is that part.
LEMMA JoinOne ==
    ASSUME NEW part \in AllTexts, NEW between \in AllTexts
    PROVE  JoinedBy(<<part>>, between) = part
<1>1. <<part>> \in Seq(AllTexts) /\ Len(<<part>>) = 1 /\ <<part>>[1] = part /\ 1 \in 1 .. Len(<<part>>)
  OBVIOUS
<1>2. JoinFrom(<<part>>, between)[1] = JoinStep(<<part>>, between, 1, JoinFrom(<<part>>, between))
  BY <1>1, JoinRuns
<1> QED BY <1>1, <1>2, JoinedIs DEF JoinStep

\* A part in front is joined by the text between.
LEMMA JoinMore ==
    ASSUME NEW part \in AllTexts, NEW parts \in Seq(AllTexts), parts # <<>>, NEW between \in AllTexts
    PROVE  JoinedBy(<<part>> \o parts, between) = part \o between \o JoinedBy(parts, between)
<1> DEFINE all == <<part>> \o parts
           N == Len(parts)
           f == JoinFrom(all, between)
           g == JoinFrom(parts, between)
<1>1. N \in Nat /\ N >= 1
  BY EmptySeq, LenProperties
<1>2. <<part>> \in Seq(AllTexts) /\ Len(<<part>>) = 1 /\ <<part>>[1] = part
  OBVIOUS
<1>3. /\ all \in Seq(AllTexts) /\ Len(all) = 1 + N
      /\ \A i \in 1 .. 1 + N : all[i] = IF i <= 1 THEN <<part>>[i] ELSE parts[i - 1]
  BY <1>2, ConcatProperties
<1>4. all[1] = part /\ \A i \in 1 .. N : all[i + 1] = parts[i]
  <2>1. 1 \in 1 .. 1 + N
    BY <1>1
  <2>2. ASSUME NEW i \in 1 .. N PROVE i + 1 \in 1 .. 1 + N /\ ~(i + 1 <= 1) /\ (i + 1) - 1 = i
    BY <1>1
  <2> HIDE DEF all
  <2> QED BY <1>2, <1>3, <2>1, <2>2
<1>5. \A i \in 1 .. 1 + N : f[i] = JoinStep(all, between, i, f)
  BY <1>3, JoinRuns
<1>6. \A i \in 1 .. N : g[i] = JoinStep(parts, between, i, g)
  BY JoinRuns
<1> HIDE DEF all, f, g
<1> DEFINE Same == {i \in 1 .. N : f[i + 1] = g[i]}
<1>7. ASSUME NEW i \in 1 .. N, \A q \in (i + 1) .. N : q \in Same PROVE i \in Same
  <2>1. f[i + 1] = JoinStep(all, between, i + 1, f) /\ g[i] = JoinStep(parts, between, i, g)
    <3>1. i + 1 \in 1 .. 1 + N
      <4> HIDE DEF N
      <4> QED BY <1>1
    <3> QED BY <1>5, <1>6, <3>1
  <2>2. CASE i = N
    BY <1>3, <1>4, <2>1, <2>2 DEF JoinStep
  <2>3. CASE i # N
    <3>1. i + 1 \in (i + 1) .. N /\ i + 1 # 1 + N
      <4> HIDE DEF N
      <4> QED BY <1>1, <2>3
    <3>2. f[(i + 1) + 1] = g[i + 1]
      BY <1>7, <3>1
    <3>3. f[i + 1] = all[i + 1] \o between \o f[(i + 1) + 1]
      BY <1>3, <2>1, <3>1 DEF JoinStep
    <3>4. g[i] = parts[i] \o between \o g[i + 1]
      BY <2>1, <2>3 DEF JoinStep
    <3> QED BY <1>4, <3>2, <3>3, <3>4
  <2> QED BY <2>2, <2>3
<1>8. Same = 1 .. N
  <2>1. Same \subseteq 1 .. N
    OBVIOUS
  <2> HIDE DEF Same, N
  <2> QED BY <1>1, <1>7, <2>1, InductionDown
<1>9. f[1] = all[1] \o between \o f[1 + 1]
  <2>1. 1 \in 1 .. 1 + N /\ 1 # 1 + N
    <3> HIDE DEF N
    <3> QED BY <1>1
  <2> QED BY <1>3, <1>5, <2>1 DEF JoinStep
<1>10. f[1 + 1] = g[1]
  <2>1. 1 \in 1 .. N
    <3> HIDE DEF N
    <3> QED BY <1>1
  <2> QED BY <1>8, <2>1
<1> QED BY <1>4, <1>9, <1>10, JoinedIs DEF all, f, g

\* replace joins the parts that split makes by the new text.
LEMMA ReplaceJoins ==
    ASSUME NEW s \in AllTexts, NEW t \in AllTexts, t # <<>>, NEW new \in AllTexts
    PROVE  Replace(s, t, new) = JoinedBy(Split(s, t), new)
<1> DEFINE N == Len(s)
           f == SplitFrom(s, t)
           g == ReplaceFrom(s, t, new)
           Same == {p \in 0 .. N : JoinedBy(f[p], new) = g[p]}
<1>1. N \in Nat
  BY LenProperties DEF AllTexts
<1>2. \A p \in 0 .. N : f[p] = SplitStep(s, t, p, f) /\ f[p] \in Seq(AllTexts) \ {<<>>}
  BY SplitRuns
<1>3. \A p \in 0 .. N : g[p] = ReplaceStep(s, t, new, p, g)
  BY ReplaceRuns
<1> HIDE DEF f, g
<1>4. ASSUME NEW p \in 0 .. N, \A q \in (p + 1) .. N : q \in Same PROVE p \in Same
  <2> DEFINE at == FindFrom(s, t, p)
  <2>1. f[p] = SplitStep(s, t, p, f) /\ g[p] = ReplaceStep(s, t, new, p, g)
    BY <1>2, <1>3
  <2>2. CASE at = -1
    <3>1. f[p] = <<Part(s, p, N)>> /\ g[p] = Part(s, p, N)
      BY <2>1, <2>2 DEF SplitStep, ReplaceStep
    <3>2. Part(s, p, N) \in AllTexts
      <4>1. N \in p .. N
        BY <1>1
      <4> QED BY <4>1, PartIs
    <3> QED BY <3>1, <3>2, JoinOne
  <2>3. CASE at # -1
    <3>1. at \in p .. N /\ at + Len(t) \in (p + 1) .. N
      BY <2>3, FindAdvances
    <3>2. f[p] = <<Part(s, p, at)>> \o f[at + Len(t)] /\ g[p] = Part(s, p, at) \o new \o g[at + Len(t)]
      BY <2>1, <2>3 DEF SplitStep, ReplaceStep
    <3> HIDE DEF at
    <3>3. Part(s, p, at) \in AllTexts
      BY <3>1, PartIs
    <3>4. at + Len(t) \in 0 .. N
      BY <1>1, <3>1
    <3>5. f[at + Len(t)] \in Seq(AllTexts) /\ f[at + Len(t)] # <<>>
      BY <1>2, <3>4
    <3>6. JoinedBy(f[at + Len(t)], new) = g[at + Len(t)]
      BY <1>4, <3>1
    <3> DEFINE rest == f[at + Len(t)]
               part == Part(s, p, at)
    <3>7. JoinedBy(<<part>> \o rest, new) = part \o new \o JoinedBy(rest, new)
      <4>1. part \in AllTexts /\ rest \in Seq(AllTexts) /\ rest # <<>>
        BY <3>3, <3>5
      <4> HIDE DEF rest, part
      <4> QED BY <4>1, JoinMore
    <3>8. JoinedBy(f[p], new) = g[p]
      BY <3>2, <3>6, <3>7
    <3> QED BY <3>8
  <2> QED BY <2>2, <2>3
<1>5. Same = 0 .. N
  <2>1. Same \subseteq 0 .. N
    OBVIOUS
  <2> HIDE DEF Same
  <2> QED BY <1>1, <1>4, <2>1, InductionDown
<1>6. 0 \in 0 .. N
  BY <1>1
<1> QED BY <1>5, <1>6, SplitIs, ReplaceIs DEF f, g

\* A text replaced by itself leaves all as it is.
LEMMA ReplaceSame ==
    ASSUME NEW s \in AllTexts, NEW t \in AllTexts, t # <<>>
    PROVE  Replace(s, t, t) = s
<1> DEFINE N == Len(s)
           g == ReplaceFrom(s, t, t)
           Same == {p \in 0 .. N : g[p] = Part(s, p, N)}
<1>1. N \in Nat
  BY LenProperties DEF AllTexts
<1>2. \A p \in 0 .. N : g[p] = ReplaceStep(s, t, t, p, g)
  BY ReplaceRuns
<1> HIDE DEF g
<1>3. ASSUME NEW p \in 0 .. N, \A q \in (p + 1) .. N : q \in Same PROVE p \in Same
  <2> DEFINE at == FindFrom(s, t, p)
  <2>1. g[p] = ReplaceStep(s, t, t, p, g)
    BY <1>2
  <2>2. CASE at = -1
    BY <2>1, <2>2 DEF ReplaceStep
  <2>3. CASE at # -1
    <3>1. /\ at \in p .. N /\ at + Len(t) \in (p + 1) .. N
          /\ at \in Nat /\ at + Len(t) \in at .. N
          /\ Part(s, at, at + Len(t)) = t
      BY <2>3, FindAdvances
    <3>2. g[p] = Part(s, p, at) \o t \o g[at + Len(t)]
      BY <2>1, <2>3 DEF ReplaceStep
    <3> DEFINE end == at + Len(t)
    <3>3. g[end] = Part(s, end, N)
      BY <1>3, <3>1
    <3>4. g[p] = (Part(s, p, at) \o Part(s, at, end)) \o Part(s, end, N)
      BY <3>1, <3>2, <3>3
    <3>5. end \in (p + 1) .. N /\ end \in at .. N /\ at \in p .. N
      BY <3>1
    <3> HIDE DEF at, end
    <3>6. Part(s, p, at) \o Part(s, at, end) = Part(s, p, end)
      BY <3>5, PartsAdjoin
    <3>7. p \in 0 .. N /\ end \in p .. N /\ N \in end .. N
      BY <1>1, <3>5
    <3>8. Part(s, p, end) \o Part(s, end, N) = Part(s, p, N)
      BY <3>7, PartsAdjoin
    <3> QED BY <3>4, <3>6, <3>8
  <2> QED BY <2>2, <2>3
<1>4. Same = 0 .. N
  <2>1. Same \subseteq 0 .. N
    OBVIOUS
  <2> HIDE DEF Same
  <2> QED BY <1>1, <1>3, <2>1, InductionDown
<1>5. g[0] = Part(s, 0, N)
  <2>1. 0 \in 0 .. N
    BY <1>1
  <2> QED BY <1>4, <2>1
<1>6. Part(s, 0, N) = s
  BY SubSeqFull DEF Part, AllTexts
<1> QED BY <1>5, <1>6, ReplaceIs DEF g

\* The part from the start to the end is the text.
LEMMA WholePart ==
    ASSUME NEW s \in AllTexts
    PROVE  Part(s, 0, Len(s)) = s
BY SubSeqFull DEF Part, AllTexts

\* What rfind finds.
LEMMA LastFinds ==
    ASSUME NEW s \in AllTexts, NEW t \in AllTexts
    PROVE  LET at == LastIndexOf(s, t)
           IN  \/ /\ at = -1
                  /\ \A p \in 0 .. Len(s) : ~OccursAt(s, t, p)
               \/ /\ at \in 0 .. Len(s) /\ OccursAt(s, t, at)
                  /\ \A p \in 0 .. Len(s) : OccursAt(s, t, p) => p <= at
<1> DEFINE places == {at \in 0 .. Len(s) : OccursAt(s, t, at)}
<1>1. Len(s) \in Nat
  BY LenProperties DEF AllTexts
<1>2. LastIndexOf(s, t) = IF places = {} THEN -1 ELSE Max(places)
  BY DEF LastIndexOf
<1>3. places \subseteq 0..Len(s)
  OBVIOUS
<1>4. \A p : p \in places <=> p \in 0 .. Len(s) /\ OccursAt(s, t, p)
  OBVIOUS
<1> HIDE DEF places
<1>5. places # {} => Max(places) \in places /\ \A p \in places : p <= Max(places)
  BY <1>1, <1>3, MaxIsLargest
<1> QED BY <1>2, <1>4, <1>5

\* Where a text occurs first and last, and what begins and ends with it.
LEMMA PlacesAgree ==
    ASSUME NEW s \in AllTexts, NEW t \in AllTexts
    PROVE  /\ HasText(s, t) <=> IndexOf(s, t) # -1
           /\ HasText(s, t) <=> LastIndexOf(s, t) # -1
           /\ StartsWith(s, t) <=> IndexOf(s, t) = 0
           /\ EndsWith(s, t) <=> HasText(s, t) /\ LastIndexOf(s, t) = Len(s) - Len(t)
<1> DEFINE first == IndexOf(s, t)
           last == LastIndexOf(s, t)
<1>1. Len(s) \in Nat /\ Len(t) \in Nat /\ 0 \in 0 .. Len(s)
  <2>1. Len(s) \in Nat /\ Len(t) \in Nat
    BY LenProperties DEF AllTexts
  <2> QED BY <2>1
<1>2. \/ /\ first = -1
         /\ \A p \in 0 .. Len(s) : ~OccursAt(s, t, p)
      \/ /\ first \in 0 .. Len(s) /\ OccursAt(s, t, first)
         /\ \A p \in 0 .. Len(s) : OccursAt(s, t, p) => first <= p
  BY <1>1, FindFinds DEF IndexOf
<1>3. \/ /\ last = -1
         /\ \A p \in 0 .. Len(s) : ~OccursAt(s, t, p)
      \/ /\ last \in 0 .. Len(s) /\ OccursAt(s, t, last)
         /\ \A p \in 0 .. Len(s) : OccursAt(s, t, p) => p <= last
  BY LastFinds
<1>4. HasText(s, t) <=> first # -1
  BY DEF HasText
<1>5. StartsWith(s, t) <=> OccursAt(s, t, 0)
  BY <1>1 DEF StartsWith, OccursAt
<1>6. EndsWith(s, t) <=> Len(s) - Len(t) \in 0 .. Len(s) /\ OccursAt(s, t, Len(s) - Len(t))
  <2>1. CASE Len(t) <= Len(s)
    <3>1. /\ Len(s) - Len(t) \in 0 .. Len(s)
          /\ (Len(s) - Len(t)) + Len(t) = Len(s)
          /\ Len(s) <= Len(s)
      BY <1>1, <2>1
    <3>2. OccursAt(s, t, Len(s) - Len(t)) <=> Part(s, Len(s) - Len(t), Len(s)) = t
      BY <3>1 DEF OccursAt
    <3> QED BY <2>1, <3>1, <3>2 DEF EndsWith
  <2>2. CASE ~(Len(t) <= Len(s))
    <3>1. Len(s) - Len(t) \notin 0 .. Len(s)
      BY <1>1, <2>2
    <3> QED BY <2>2, <3>1 DEF EndsWith
  <2> QED BY <2>1, <2>2
<1>7. \A p \in 0 .. Len(s) : OccursAt(s, t, p) => p <= Len(s) - Len(t)
  BY <1>1 DEF OccursAt
<1> HIDE DEF first, last
<1>8. first # -1 <=> last # -1
  BY <1>1, <1>2, <1>3
<1>9. OccursAt(s, t, 0) <=> first = 0
  BY <1>1, <1>2
<1>10. Len(s) - Len(t) \in 0 .. Len(s) /\ OccursAt(s, t, Len(s) - Len(t)) <=>
          last # -1 /\ last = Len(s) - Len(t)
  <2>1. ASSUME Len(s) - Len(t) \in 0 .. Len(s), OccursAt(s, t, Len(s) - Len(t))
        PROVE  last # -1 /\ last = Len(s) - Len(t)
    <3>1. last \in 0 .. Len(s) /\ OccursAt(s, t, last) /\ Len(s) - Len(t) <= last
      BY <1>3, <2>1
    <3>2. last <= Len(s) - Len(t)
      BY <1>7, <3>1
    <3> QED BY <1>1, <3>1, <3>2
  <2>2. ASSUME last # -1, last = Len(s) - Len(t)
        PROVE  Len(s) - Len(t) \in 0 .. Len(s) /\ OccursAt(s, t, Len(s) - Len(t))
    BY <1>3, <2>2
  <2> QED BY <2>1, <2>2
<1> QED BY <1>4, <1>5, <1>6, <1>8, <1>9, <1>10 DEF first, last

\* Before the first part that split makes stands what indexOf counts.
LEMMA FirstPart ==
    ASSUME NEW s \in AllTexts, NEW t \in AllTexts, t # <<>>, HasText(s, t)
    PROVE  IndexOf(s, t) = Len(Split(s, t)[1])
<1> DEFINE at == FindFrom(s, t, 0)
           rest == SplitFrom(s, t)[at + Len(t)]
<1>1. Len(s) \in Nat /\ 0 \in 0 .. Len(s)
  <2>1. Len(s) \in Nat
    BY LenProperties DEF AllTexts
  <2> QED BY <2>1
<1>2. at # -1 /\ IndexOf(s, t) = at
  BY DEF HasText, IndexOf
<1>3. at \in 0 .. Len(s) /\ at + Len(t) \in (0 + 1) .. Len(s)
  BY <1>1, <1>2, FindAdvances
<1>4. Split(s, t) = <<Part(s, 0, at)>> \o rest
  <2>1. Split(s, t) = SplitStep(s, t, 0, SplitFrom(s, t))
    BY <1>1, SplitIs, SplitRuns
  <2> QED BY <1>2, <2>1 DEF SplitStep
<1>5. rest \in Seq(AllTexts)
  <2>1. at + Len(t) \in 0 .. Len(s)
    <3> HIDE DEF at
    <3> QED BY <1>1, <1>3
  <2> QED BY <2>1, SplitRuns
<1> HIDE DEF at, rest
<1>6. Part(s, 0, at) \in AllTexts /\ Len(Part(s, 0, at)) = at
  <2>1. Part(s, 0, at) \in AllTexts /\ Len(Part(s, 0, at)) = at - 0
    BY <1>1, <1>3, PartIs
  <2> QED BY <1>3, <2>1
<1>7. <<Part(s, 0, at)>> \in Seq(AllTexts) /\ Len(<<Part(s, 0, at)>>) = 1
  BY <1>6
<1>8. (<<Part(s, 0, at)>> \o rest)[1] = Part(s, 0, at)
  <2>1. Len(rest) \in Nat
    BY <1>5, LenProperties
  <2>2. 1 \in 1 .. 1 + Len(rest) /\ 1 <= 1
    BY <2>1
  <2>3. (<<Part(s, 0, at)>> \o rest)[1] = <<Part(s, 0, at)>>[1]
    BY <1>5, <1>7, <2>2, ConcatProperties
  <2> QED BY <2>3
<1> QED BY <1>2, <1>4, <1>6, <1>8

\* The answers of the methods of String agree.
LEMMA PartsAnswer == Answered => PartsAgree
<1> SUFFICES ASSUME Answered, asked # <<>> PROVE PartsAgree
  BY DEF PartsAgree
<1> DEFINE s == asked[2][1]
           t == asked[2][2]
           new == asked[2][3]
           answer == asked[3]
<1>1. Texts \subseteq AllTexts
  BY ValuesAssumption DEF ValuesAssumption, AllTexts
<1>2. CASE asked[1] = "split"
  <2>1. s \in AllTexts /\ t \in AllTexts /\ answer = Split(s, t)
    BY <1>1, <1>2 DEF Answered
  <2> HIDE DEF s, t, answer
  <2>2. t # <<>> => JoinedBy(answer, t) = s
    BY <2>1, ReplaceJoins, ReplaceSame
  <2> QED BY <1>2, <2>2 DEF PartsAgree, s, t, answer
<1>3. CASE asked[1] = "replace"
  <2>1. s \in AllTexts /\ t \in AllTexts /\ new \in AllTexts /\ answer = Replace(s, t, new)
    BY <1>1, <1>3 DEF Answered
  <2> HIDE DEF s, t, new, answer
  <2>2. t # <<>> => answer = JoinedBy(Split(s, t), new)
    BY <2>1, ReplaceJoins
  <2> QED BY <1>3, <2>2 DEF PartsAgree, s, t, new, answer
<1>4. CASE asked[1] = "find"
  <2>1. s \in AllTexts /\ t \in AllTexts
    BY <1>1, <1>4 DEF Answered
  <2>2. answer = <<IndexOf(s, t), LastIndexOf(s, t), HasText(s, t), StartsWith(s, t), EndsWith(s, t)>>
    BY <1>4 DEF Answered
  <2> HIDE DEF s, t, answer
  <2>3. /\ answer[1] = IndexOf(s, t) /\ answer[2] = LastIndexOf(s, t)
        /\ answer[3] = HasText(s, t) /\ answer[4] = StartsWith(s, t) /\ answer[5] = EndsWith(s, t)
    BY <2>2
  <2>4. /\ answer[3] <=> answer[1] # -1
        /\ answer[3] <=> answer[2] # -1
        /\ answer[4] <=> answer[1] = 0
        /\ answer[5] <=> answer[3] /\ answer[2] = Len(s) - Len(t)
    BY <2>1, <2>3, PlacesAgree
  <2>5. t # <<>> /\ answer[3] => answer[1] = Len(Split(s, t)[1])
    BY <2>1, <2>3, FirstPart
  <2> QED BY <1>4, <2>4, <2>5 DEF PartsAgree, s, t, answer
<1>5. CASE asked[1] \notin {"split", "replace", "find"}
  BY <1>5 DEF PartsAgree
<1> QED BY <1>2, <1>3, <1>4, <1>5

\* PartsAgree: whatever texts a script searches, split, replace, indexOf and the
\* others agree.
THEOREM PartsCorrect == ValuesSpec => []PartsAgree
BY AnsweredAlways, PartsAnswer, PTL


----------------------------------------------------------------------------
(* What format puts into a text.                                           *)

Basics == [type : BasicTypes, n : Int, text : Seq(Int)]

\* The characters of a number in a text are numbers, and so is every other.
LEMMA CharactersAre ==
    /\ Zero \in Nat /\ Minus \in Nat /\ Blank \in Nat /\ Point \in Nat /\ Colon \in Nat
    /\ Open \in Nat /\ Close \in Nat /\ LetterD \in Nat /\ LetterF \in Nat /\ LetterS \in Nat
    /\ \A c \in Int : <<c>> \in AllTexts /\ Len(<<c>>) = 1 /\ <<c>>[1] = c
    /\ \A c \in Nat : <<c>> \in Seq(Nat)
    /\ Seq(Nat) \subseteq AllTexts /\ <<>> \in AllTexts /\ <<>> \in Seq(Nat)
BY FormatsAssumption DEF FormatsAssumption, AllTexts

\* The digits of the numbers up to n.
DigitsStep(m, f) == (IF m > 9 THEN f[m \div 10] ELSE <<>>) \o <<Zero + (m % 10)>>
DigitsFrom(n) == CHOOSE f : f = [m \in 0 .. n |-> DigitsStep(m, f)]

\* There are such digits.
LEMMA DigitsRun ==
    ASSUME NEW n \in Nat
    PROVE  \A m \in 0 .. n : DigitsFrom(n)[m] \in Seq(Nat)
<1> DEFINE D == 0 .. n
           R == Seq(Nat)
           rank == [m \in D |-> m]
           step == [x \in D \X [D -> R] |-> DigitsStep(x[1], x[2])]
           d == DigitsFrom(n)
<1>1. ASSUME NEW m \in D, m > 9 PROVE m \div 10 \in D /\ m \div 10 < m
  BY <1>1
<1>2. ASSUME NEW m \in D PROVE <<Zero + (m % 10)>> \in R
  <2>1. Zero + (m % 10) \in Nat
    BY CharactersAre
  <2> QED BY <2>1
<1>3. ASSUME NEW m \in D, NEW f, m > 9 => f[m \div 10] \in R PROVE DigitsStep(m, f) \in R
  <2>1. (IF m > 9 THEN f[m \div 10] ELSE <<>>) \in R
    BY <1>3
  <2> QED BY <1>2, <2>1, ConcatProperties DEF DigitsStep
<1>4. ASSUME NEW m \in D, NEW f, NEW g, m > 9 => f[m \div 10] = g[m \div 10]
      PROVE  DigitsStep(m, f) = DigitsStep(m, g)
  BY <1>4 DEF DigitsStep
<1> HIDE DEF R
<1>5. LooksBelow(step, D, rank, R)
  <2>1. rank \in [D -> Nat] /\ \A m \in D : rank[m] = m
    OBVIOUS
  <2>2. step \in [D \X [D -> R] -> R]
    BY <1>1, <1>3
  <2>3. \A m \in D, f \in [D -> R] : step[<<m, f>>] = DigitsStep(m, f)
    OBVIOUS
  <2> HIDE DEF D, rank, step
  <2>4. ASSUME NEW m \in D, NEW f \in [D -> R], NEW g \in [D -> R],
               \A q \in D : rank[q] < rank[m] => f[q] = g[q]
        PROVE  step[<<m, f>>] = step[<<m, g>>]
    <3>1. m > 9 => f[m \div 10] = g[m \div 10]
      BY <1>1, <2>1, <2>4
    <3> QED BY <1>4, <2>3, <3>1
  <2> QED BY <2>1, <2>2, <2>4 DEF LooksBelow
<1>6. PICK f \in [D -> R] : Follows(f, step, D)
  <2>1. <<>> \in R
    BY DEF R
  <2> HIDE DEF D, rank, step
  <2> QED BY <1>5, <2>1, RecursionBelow
<1>7. f = [m \in D |-> DigitsStep(m, f)]
  BY <1>6 DEF Follows
<1>8. d = [m \in D |-> DigitsStep(m, d)]
  BY <1>7 DEF DigitsFrom
<1> HIDE DEF d
<1>9. \A m \in D : d[m] = DigitsStep(m, d)
  BY Zenon, <1>8
<1> DEFINE T == {m \in D : d[m] \in R}
<1>10. ASSUME NEW m \in D, \A q \in D : rank[q] < rank[m] => q \in T PROVE m \in T
  <2>1. m > 9 => d[m \div 10] \in R
    BY <1>1, <1>10
  <2> QED BY <1>3, <1>9, <2>1
<1>11. D \subseteq T
  <2>1. rank \in [D -> Nat]
    OBVIOUS
  <2> HIDE DEF D, rank, T
  <2> QED BY <1>10, <2>1, InductionBelow
<1> QED BY <1>11 DEF d, R

\* A number is written with characters.
LEMMA NumeralIs ==
    ASSUME NEW n \in Int
    PROVE  Numeral(n) \in Seq(Nat)
<1>1. Magnitude(n) \in Nat
  BY DEF Magnitude
<1>2. Numeral(n) = (IF n < 0 THEN <<Minus>> ELSE <<>>) \o DigitsFrom(Magnitude(n))[Magnitude(n)]
  BY DEF Numeral, DigitsFrom, DigitsStep
<1>3. DigitsFrom(Magnitude(n))[Magnitude(n)] \in Seq(Nat)
  BY <1>1, DigitsRun
<1>4. (IF n < 0 THEN <<Minus>> ELSE <<>>) \in Seq(Nat)
  BY CharactersAre
<1> QED BY <1>2, <1>3, <1>4, ConcatProperties

\* What a basic value is as a text.
LEMMA ToTextIs ==
    /\ \A x \in Basics : ToText(x) \in AllTexts
    /\ \A x \in Writable : x \in Basics /\ ToText(x) \in Seq(Nat) /\ ToText(x) # NoNumber
<1>1. ASSUME NEW x \in Basics PROVE ToText(x) \in AllTexts
  <2>1. x.type \in BasicTypes /\ x.n \in Int /\ x.text \in AllTexts
    BY DEF Basics, AllTexts
  <2>2. Numeral(x.n) \in AllTexts
    BY <2>1, NumeralIs, CharactersAre
  <2>3. TrueText \in AllTexts /\ FalseText \in AllTexts /\ <<x.n>> \in AllTexts
    BY <2>1, CharactersAre, FormatsAssumption
  <2> QED BY <2>1, <2>2, <2>3 DEF ToText, BasicTypes
<1>2. ASSUME NEW x \in Writable PROVE x \in Basics /\ ToText(x) \in Seq(Nat) /\ ToText(x) # NoNumber
  <2>1. /\ x \in [type : BasicTypes, n : Int, text : Seq(Nat)] /\ x.type \in BasicTypes
        /\ x.n \in Int /\ x.text \in Seq(Nat) /\ x.type = "char" => x.n \in Nat
    BY DEF Writable
  <2>2. x \in Basics
    BY <2>1, CharactersAre DEF Basics, AllTexts
  <2>3. Numeral(x.n) \in Seq(Nat)
    BY <2>1, NumeralIs
  <2>4. TrueText \in Seq(Nat) /\ FalseText \in Seq(Nat) /\ (x.n \in Nat => <<x.n>> \in Seq(Nat))
    BY CharactersAre, FormatsAssumption
  <2>5. ToText(x) \in Seq(Nat)
    BY <2>1, <2>3, <2>4 DEF ToText, BasicTypes
  <2>6. NoNumber \notin Seq(Nat)
    BY DEF NoNumber
  <2> QED BY <2>2, <2>5, <2>6
<1> QED BY <1>1, <1>2

\* The number that digits spell.
DecimalFrom(s) == CHOOSE f : f = [n \in 0 .. Len(s) |-> IF n = 0 THEN 0 ELSE 10 * f[n - 1] + s[n] - Zero]

\* It is one.
LEMMA DecimalIs ==
    ASSUME NEW s \in AllTexts
    PROVE  Decimal(s) \in Int
<1> DEFINE N == Len(s)
           step == [k \in 1 .. N |-> [v \in Int |-> 10 * v + s[k] - Zero]]
           d == DecimalFrom(s)
<1>1. N \in Nat /\ Zero \in Int /\ \A k \in 1 .. N : s[k] \in Int
  BY LenProperties, ElementOfSeq, CharactersAre DEF AllTexts
<1> HIDE DEF N
<1>2. step \in [(0 + 1) .. N -> [Int -> Int]]
  BY <1>1
<1>3. \A k \in 1 .. N, v \in Int : step[k][v] = 10 * v + s[k] - Zero
  OBVIOUS
<1> HIDE DEF step
<1>4. PICK f : LoopFrom(f, Int, 0, N, 0, step)
  <2>1. 0 \in Nat /\ N \in Nat /\ 0 <= N /\ 0 \in Int
    BY <1>1
  <2> QED BY <1>2, <2>1, LoopRuns, Zenon
<1>5. f \in [0 .. N -> Int] /\ f[0] = 0 /\ \A k \in 1 .. N : f[k] = step[k][f[k - 1]]
  BY <1>4 DEF LoopFrom
<1>6. ASSUME NEW k \in 1 .. N PROVE f[k] = 10 * f[k - 1] + s[k] - Zero
  <2>1. f[k - 1] \in Int
    BY <1>1, <1>5
  <2> QED BY <1>3, <1>5, <2>1
<1>7. f = [n \in 0 .. N |-> IF n = 0 THEN 0 ELSE 10 * f[n - 1] + s[n] - Zero]
  <2>1. \A k \in 0 .. N : k # 0 => k \in 1 .. N
    BY <1>1
  <2> QED BY <1>5, <1>6, <2>1
<1>8. d = [n \in 0 .. N |-> IF n = 0 THEN 0 ELSE 10 * d[n - 1] + s[n] - Zero]
  BY <1>7, Zenon DEF DecimalFrom, N
<1> HIDE DEF d
<1>9. d[0] = 0 /\ \A k \in 1 .. N : d[k] = 10 * d[k - 1] + s[k] - Zero
  <2>1. 0 \in 0 .. N /\ \A k \in 1 .. N : k \in 0 .. N /\ k # 0
    BY <1>1
  <2> QED BY <1>8, <2>1
<1> DEFINE T == {k \in 0 .. N : d[k] \in Int}
<1>10. 0 .. N \subseteq T
  <2>1. 0 \in T
    BY <1>1, <1>9
  <2>2. ASSUME NEW k \in 1 .. N, k - 1 \in T PROVE k \in T
    BY <1>1, <1>9, <2>2
  <2> HIDE DEF T
  <2> QED BY <1>1, <2>1, <2>2, InductionUp
<1>11. N \in 0 .. N
  BY <1>1
<1> QED BY <1>10, <1>11 DEF Decimal, d, DecimalFrom, N

\* A part of a text from a place in it on, also where it ends before it starts.
LEMMA AnyPart ==
    ASSUME NEW s \in AllTexts, NEW from \in Nat, NEW to \in -1 .. Len(s)
    PROVE  Part(s, from, to) \in AllTexts
<1>1. Len(s) \in Nat /\ \A i \in 1 .. Len(s) : s[i] \in Int
  BY ElementOfSeq, LenProperties DEF AllTexts
<1>2. from + 1 \in Int /\ to \in Int /\ \A i \in (from + 1) .. to : s[i] \in Int
  BY <1>1
<1>3. SubSeq(s, from + 1, to) \in Seq(Int)
  BY <1>2, SubSeqProperties
<1> QED BY <1>3 DEF Part, AllTexts

\* The digits a text starts with, and what is behind its blanks and its sign.
LEMMA StartsOfNumbers ==
    ASSUME NEW s \in AllTexts
    PROVE  LeadingDigits(s) \in AllTexts /\ Unpadded(s) \in AllTexts /\ Unsigned(s) \in AllTexts
<1>1. Len(s) \in Nat /\ s \in Seq(Int)
  BY LenProperties DEF AllTexts
<1>2. LeadingDigits(s) \in AllTexts
  <2> DEFINE lengths == {n \in 0 .. Len(s) : \A i \in 1 .. n : s[i] \in Digits}
  <2>1. 0 \in lengths /\ lengths \subseteq 0 .. Len(s)
    BY <1>1
  <2> HIDE DEF lengths
  <2>2. Max(lengths) \in 0 .. Len(s)
    BY <1>1, <2>1, MaxIsLargest
  <2>3. Part(s, 0, Max(lengths)) \in AllTexts
    <3>1. Max(lengths) \in -1 .. Len(s) /\ 0 \in Nat
      BY <1>1, <2>2
    <3> QED BY <3>1, AnyPart
  <2> QED BY <2>3 DEF LeadingDigits, lengths, Part
<1>3. Unpadded(s) \in AllTexts
  <2> DEFINE others == {i \in DOMAIN s : s[i] # Blank}
  <2>1. others \subseteq 1 .. Len(s)
    BY <1>1
  <2> HIDE DEF others
  <2>2. CASE others = {}
    BY <2>2, CharactersAre DEF Unpadded, others
  <2>3. CASE others # {}
    <3>1. Min(others) \in 1 .. Len(s)
      <4>1. others \subseteq Nat
        BY <1>1, <2>1
      <4> QED BY <2>1, <2>3, <4>1, MinIsSmallest
    <3>2. Min(others) - 1 \in Nat /\ Len(s) \in -1 .. Len(s) /\ Min(others) - 1 + 1 = Min(others)
      BY <1>1, <3>1
    <3>3. Part(s, Min(others) - 1, Len(s)) \in AllTexts
      BY <3>2, AnyPart
    <3> QED BY <2>3, <3>2, <3>3 DEF Unpadded, others, Part
  <2> QED BY <2>2, <2>3
<1>4. Unsigned(s) \in AllTexts
  BY <1>1 DEF Unsigned, AllTexts
<1> QED BY <1>2, <1>3, <1>4

\* A number that is parsed is one.
LEMMA ParsedIs ==
    ASSUME NEW s \in AllTexts
    PROVE  Parsed(s) \in Int
<1> DEFINE start == Unpadded(s)
<1>1. Decimal(LeadingDigits(Unsigned(start))) \in Int
  BY StartsOfNumbers, DecimalIs
<1> QED BY <1>1 DEF Parsed

\* The same character some times.
LEMMA TimesIs ==
    ASSUME NEW n \in Int, NEW c \in Int
    PROVE  /\ Times(n, c) \in AllTexts /\ Len(Times(n, c)) = IF n > 0 THEN n ELSE 0
           /\ \A i \in 1 .. n : Times(n, c)[i] = c
<1> DEFINE k == IF n > 0 THEN n ELSE 0
<1>1. k \in Nat /\ 1 .. n = 1 .. k
  OBVIOUS
<1>2. Times(n, c) = [i \in 1 .. k |-> c]
  BY <1>1 DEF Times
<1> HIDE DEF k
<1>3. [i \in 1 .. k |-> c] \in Seq(Int) /\ Len([i \in 1 .. k |-> c]) = k
  BY <1>1
<1> QED BY <1>1, <1>2, <1>3 DEF AllTexts, k

\* A text with blanks is a text.
LEMMA PaddedIs ==
    ASSUME NEW s \in AllTexts, NEW n \in Int
    PROVE  Padded(s, n) \in AllTexts
<1>1. Len(s) \in Nat /\ Blank \in Int /\ n - Len(s) \in Int /\ -n - Len(s) \in Int
  BY CharactersAre, LenProperties DEF AllTexts
<1>2. Times(n - Len(s), Blank) \in AllTexts /\ Times(-n - Len(s), Blank) \in AllTexts
  BY <1>1, TimesIs
<1> QED BY <1>2, ConcatProperties DEF Padded, AllTexts

\* So does a number with some digits behind its point.
LEMMA FixedPointIs ==
    ASSUME NEW x \in Basics, NEW n \in Int
    PROVE  FixedPoint(x, n) \in AllTexts
<1> DEFINE p == IF n < 0 THEN 6 ELSE n
           dot == IF p = 0 THEN <<>> ELSE <<Point>>
<1>1. p \in Int /\ Zero \in Int /\ Point \in Int
  BY CharactersAre
<1>2. Times(p, Zero) \in AllTexts
  <2> HIDE DEF p
  <2> QED BY <1>1, TimesIs
<1>3. dot \in AllTexts
  BY <1>1, CharactersAre
<1>4. ToText(x) \in AllTexts
  BY ToTextIs
<1>5. FixedPoint(x, n) = ToText(x) \o dot \o Times(p, Zero)
  BY DEF FixedPoint
<1> HIDE DEF p, dot
<1> QED BY <1>2, <1>3, <1>4, <1>5, ConcatProperties DEF AllTexts

\* What find finds, where it starts in the text or not.
LEMMA AnyFind ==
    ASSUME NEW s \in AllTexts, NEW t \in AllTexts, NEW from \in Nat
    PROVE  FindFrom(s, t, from) \in -1 .. Len(s) /\ (FindFrom(s, t, from) = -1 \/ FindFrom(s, t, from) >= from)
<1>1. Len(s) \in Nat
  BY LenProperties DEF AllTexts
<1>2. CASE from \in 0 .. Len(s)
  BY <1>1, <1>2, FindFinds
<1>3. CASE from \notin 0 .. Len(s)
  <2>1. from .. Len(s) = {}
    BY <1>1, <1>3
  <2> QED BY <1>1, <2>1 DEF FindFrom
<1> QED BY <1>2, <1>3

\* A value is written as a text, at any width and precision.
LEMMA ApplyFormatSpecIs ==
    ASSUME NEW x \in Basics, NEW spec \in AllTexts
    PROVE  ApplyFormatSpec(x, spec) \in AllTexts
<1> DEFINE text == ToText(x)
           dot == IndexOf(spec, <<Point>>)
           f   == FindFrom(spec, <<LetterF>>, Max({dot, 0}))
           precision == Part(spec, dot + 1, f)
           forInt == Part(spec, 0, IndexOf(spec, <<LetterD>>))
           forDouble == Part(spec, 0, IndexOf(spec, <<LetterF>>))
           forText == Part(spec, 0, IndexOf(spec, <<LetterS>>))
<1>1. text \in AllTexts /\ NoNumber \in AllTexts
  BY ToTextIs DEF NoNumber, AllTexts
<1>2. dot \in -1 .. Len(spec) /\ dot \in Int
  <2>1. Len(spec) \in Nat
    BY LenProperties DEF AllTexts
  <2>2. <<Point>> \in AllTexts
    BY CharactersAre
  <2>3. dot \in -1 .. Len(spec)
    BY <2>2, AnyFind DEF IndexOf
  <2> QED BY <2>1, <2>3
<1>3. f \in -1 .. Len(spec)
  <2>1. Max({dot, 0}) \in Nat
    <3>1. CASE dot = -1
      <4>1. \A z \in {-1, 0} : z <= 0
        OBVIOUS
      <4>2. Max({-1, 0}) = 0
        BY <4>1 DEF Max
      <4> QED BY <3>1, <4>2
    <3>2. CASE dot # -1
      <4>1. dot \in Nat /\ {dot, 0} \subseteq 0 .. dot /\ {dot, 0} # {}
        BY <1>2, <3>2
      <4> HIDE DEF dot
      <4>2. Max({dot, 0}) \in {dot, 0}
        BY <4>1, MaxIsLargest
      <4> QED BY <4>1, <4>2
    <3> QED BY <3>1, <3>2
  <2> HIDE DEF dot
  <2> QED BY <2>1, CharactersAre, AnyFind
<1>4. forInt \in AllTexts /\ forDouble \in AllTexts /\ forText \in AllTexts
  <2>1. ASSUME NEW letter \in Int PROVE Part(spec, 0, IndexOf(spec, <<letter>>)) \in AllTexts
    <3>1. IndexOf(spec, <<letter>>) \in -1 .. Len(spec)
      BY CharactersAre, AnyFind DEF IndexOf
    <3> QED BY <3>1, AnyPart
  <2>2. LetterD \in Int /\ LetterF \in Int /\ LetterS \in Int
    BY CharactersAre
  <2> QED BY <2>1, <2>2
<1>5. dot # -1 => precision \in AllTexts
  BY <1>2, <1>3, AnyPart
<1> HIDE DEF dot, f, text, precision, forInt, forDouble, forText
<1>6. ASSUME NEW number \in AllTexts
      PROVE  /\ FixedPoint(x, Parsed(number)) \in AllTexts
             /\ Padded(FixedPoint(x, 2), Parsed(number)) \in AllTexts
             /\ Padded(text, Parsed(number)) \in AllTexts
  BY <1>1, ParsedIs, FixedPointIs, PaddedIs
<1>7. CASE x.type = "double" /\ dot # -1
  <2>1. ApplyFormatSpec(x, spec) \in {text, NoNumber, FixedPoint(x, Parsed(precision))}
    BY <1>7 DEF ApplyFormatSpec, text, dot, f, precision
  <2> QED BY <1>1, <1>5, <1>6, <1>7, <2>1
<1>8. CASE x.type = "double" /\ dot = -1
  <2>1. ApplyFormatSpec(x, spec) \in {text, NoNumber, Padded(FixedPoint(x, 2), Parsed(forDouble))}
    BY <1>8 DEF ApplyFormatSpec, text, dot, forDouble
  <2> QED BY <1>1, <1>4, <1>6, <2>1
<1>9. CASE x.type = "int"
  <2>1. ApplyFormatSpec(x, spec) \in {text, NoNumber, Padded(text, Parsed(forInt))}
    BY <1>9 DEF ApplyFormatSpec, text, forInt
  <2> QED BY <1>1, <1>4, <1>6, <2>1
<1>10. CASE x.type = "string"
  <2>1. ApplyFormatSpec(x, spec) \in {text, NoNumber, Padded(text, Parsed(forText))}
    BY <1>10 DEF ApplyFormatSpec, text, forText
  <2> QED BY <1>1, <1>4, <1>6, <2>1
<1>11. CASE x.type \notin {"double", "int", "string"}
  <2>1. ApplyFormatSpec(x, spec) = text
    BY <1>11 DEF ApplyFormatSpec, text
  <2> QED BY <1>1, <2>1
<1> QED BY <1>7, <1>8, <1>9, <1>10, <1>11

\* The values that have a name.
Named(kwargs) == \A name \in DOMAIN kwargs : kwargs[name] \in Basics

\* The loop of format, from a place on where some arguments are taken.
Places(n) == [text : AllTexts, pos : Nat, taken : 0 .. n]
NextPlace(p, hole, new, n) ==
    [text |-> Part(p.text, 0, hole.start) \o new \o Part(p.text, hole.end + 1, Len(p.text)),
     pos |-> hole.start + Len(new),
     taken |-> IF hole.field = <<>> /\ p.taken < n THEN p.taken + 1 ELSE p.taken]
NewAt(args, kwargs, p) ==
    Filling(p.text, Hole(p.text, p.pos), SubSeq(args, p.taken + 1, Len(args)), kwargs)
FormatStep(args, kwargs, p, f) ==
    LET hole == Hole(p.text, p.pos)
        new  == NewAt(args, kwargs, p)
    IN  CASE ~hole.there -> p.text
          [] hole.there /\ new = NoNumber -> NoNumber
          [] OTHER -> f[NextPlace(p, hole, new, Len(args))]
FormatFrom(args, kwargs) ==
    CHOOSE f : f = [p \in Places(Len(args)) |-> FormatStep(args, kwargs, p, f)]

\* format is the function of its loop, taken at the start of the text.
LEMMA FormatIs ==
    ASSUME NEW s, NEW args, NEW kwargs
    PROVE  Format(s, args, kwargs) = FormatFrom(args, kwargs)[[text |-> s, pos |-> 0, taken |-> 0]]
BY DEF Format, FormatFrom, FormatStep, NextPlace, NewAt, Places, AllTexts

\* Where a placeholder is, if one is there.
LEMMA HoleIs ==
    ASSUME NEW text \in AllTexts, NEW pos \in Nat, Hole(text, pos).there
    PROVE  LET hole == Hole(text, pos)
           IN  /\ pos \in 0 .. Len(text) /\ hole.start \in pos .. Len(text) /\ hole.start \in Nat
               /\ hole.end \in hole.start .. Len(text) /\ hole.end + 1 \in hole.start .. Len(text)
               /\ hole.field \in AllTexts /\ hole.spec \in AllTexts
<1> DEFINE hole == Hole(text, pos)
           start == FindFrom(text, <<Open>>, pos)
           end == FindFrom(text, <<Close>>, start)
           content == Part(text, start + 1, end)
           colon == IndexOf(content, <<Colon>>)
<1>1. Len(text) \in Nat
  BY LenProperties DEF AllTexts
<1>2. /\ <<Open>> \in AllTexts /\ <<Close>> \in AllTexts /\ <<Colon>> \in AllTexts
      /\ Len(<<Close>>) = 1 /\ <<Close>> # <<>>
  BY CharactersAre
<1>3. start # -1 /\ end # -1 /\ hole.start = start /\ hole.end = end
  BY DEF Hole
<1>4. start \in Nat /\ start >= pos /\ start \in 0 .. Len(text)
  <2> HIDE DEF start
  <2>1. start \in -1 .. Len(text) /\ start >= pos
    BY <1>2, <1>3, AnyFind DEF start
  <2> QED BY <1>1, <2>1
<1>5. end \in start .. Len(text) /\ end + 1 \in (start + 1) .. Len(text)
  <2> HIDE DEF start
  <2> QED BY <1>2, <1>3, <1>4, FindAdvances
<1> HIDE DEF start, end
<1>6. content \in AllTexts
  <2>1. start + 1 \in Nat /\ end \in -1 .. Len(text)
    BY <1>1, <1>4, <1>5
  <2> QED BY <2>1, AnyPart
<1>7. /\ hole.field = IF colon = -1 THEN content ELSE Part(content, 0, colon)
      /\ hole.spec = IF colon = -1 THEN <<>> ELSE Part(content, colon + 1, Len(content))
  BY <1>3 DEF Hole, start, end
<1> HIDE DEF content
<1>8. colon \in -1 .. Len(content) /\ Len(content) \in Nat
  <2>1. Len(content) \in Nat
    BY <1>6, LenProperties DEF AllTexts
  <2> QED BY <1>2, <1>6, <2>1, AnyFind DEF IndexOf
<1> HIDE DEF colon
<1>9. hole.field \in AllTexts /\ hole.spec \in AllTexts
  <2>1. CASE colon = -1
    BY <1>6, <1>7, <2>1, CharactersAre
  <2>2. CASE colon # -1
    <3>1. colon \in -1 .. Len(content) /\ colon + 1 \in Nat /\ Len(content) \in -1 .. Len(content)
      BY <1>8, <2>2
    <3> QED BY <1>6, <1>7, <2>2, <3>1, AnyPart
  <2> QED BY <2>1, <2>2
<1>10. pos \in 0 .. Len(text) /\ start \in pos .. Len(text) /\ end + 1 \in start .. Len(text)
  BY <1>1, <1>4, <1>5
<1> HIDE DEF hole
<1> QED BY <1>3, <1>4, <1>5, <1>9, <1>10 DEF hole

\* What is put there is a text.
LEMMA FillingIs ==
    ASSUME NEW text \in AllTexts, NEW pos \in Nat, Hole(text, pos).there,
           NEW args \in Seq(Basics), NEW kwargs, Named(kwargs)
    PROVE  Filling(text, Hole(text, pos), args, kwargs) \in AllTexts
<1> DEFINE hole == Hole(text, pos)
           value == FieldValue(hole.field, args, kwargs)
<1>1. /\ hole.start \in Nat /\ hole.end + 1 \in hole.start .. Len(text) /\ hole.spec \in AllTexts
      /\ Len(text) \in Nat
  BY HoleIs, LenProperties DEF AllTexts
<1> HIDE DEF hole
<1>2. Part(text, hole.start, hole.end + 1) \in AllTexts
  <2>1. hole.end + 1 \in -1 .. Len(text)
    BY <1>1
  <2> QED BY <1>1, <2>1, AnyPart
<1>3. value = Missing \/ value \in Basics
  <2>1. \A i \in DOMAIN args : args[i] \in Basics
    OBVIOUS
  <2> QED BY <2>1 DEF FieldValue, Named
<1> HIDE DEF value
<1>4. value \in Basics => ToText(value) \in AllTexts /\ ApplyFormatSpec(value, hole.spec) \in AllTexts
  BY <1>1, ToTextIs, ApplyFormatSpecIs
<1> QED BY <1>2, <1>3, <1>4 DEF Filling, value, hole

\* Behind what is put in, less of the text is left.
LEMMA NextPlaceIs ==
    ASSUME NEW n \in Nat, NEW p \in Places(n), Hole(p.text, p.pos).there, NEW new \in AllTexts
    PROVE  LET next == NextPlace(p, Hole(p.text, p.pos), new, n)
           IN  /\ next \in Places(n)
               /\ p.pos <= Len(p.text) /\ next.pos <= Len(next.text)
               /\ Len(next.text) - next.pos < Len(p.text) - p.pos
<1> DEFINE hole == Hole(p.text, p.pos)
           next == NextPlace(p, hole, new, n)
           first == Part(p.text, 0, hole.start)
           last == Part(p.text, hole.end + 1, Len(p.text))
<1>1. p.text \in AllTexts /\ p.pos \in Nat /\ p.taken \in 0 .. n
  BY DEF Places
<1>2. /\ p.pos \in 0 .. Len(p.text) /\ hole.start \in p.pos .. Len(p.text) /\ hole.start \in Nat
      /\ hole.end + 1 \in hole.start .. Len(p.text) /\ hole.end \in hole.start .. Len(p.text)
  BY <1>1, HoleIs
<1>3. Len(p.text) \in Nat /\ Len(new) \in Nat
  BY <1>1, LenProperties DEF AllTexts
<1>4. /\ next.text = first \o new \o last
      /\ next.pos = hole.start + Len(new)
      /\ next.taken = IF hole.field = <<>> /\ p.taken < n THEN p.taken + 1 ELSE p.taken
      /\ next = [text |-> next.text, pos |-> next.pos, taken |-> next.taken]
  BY DEF NextPlace
<1> HIDE DEF hole, next
<1>5. first \in AllTexts /\ Len(first) = hole.start
  <2>1. 0 \in 0 .. Len(p.text) /\ hole.start \in 0 .. Len(p.text)
    BY <1>2, <1>3
  <2>2. Part(p.text, 0, hole.start) \in AllTexts /\ Len(Part(p.text, 0, hole.start)) = hole.start - 0
    BY <1>1, <2>1, PartIs
  <2> QED BY <1>2, <2>2
<1>6. last \in AllTexts /\ Len(last) = Len(p.text) - (hole.end + 1)
  <2>1. hole.end + 1 \in 0 .. Len(p.text) /\ Len(p.text) \in (hole.end + 1) .. Len(p.text)
    BY <1>2, <1>3
  <2> QED BY <1>1, <2>1, PartIs
<1> HIDE DEF first, last
<1>7. next.text \in AllTexts /\ Len(next.text) = hole.start + Len(new) + (Len(p.text) - (hole.end + 1))
  <2>1. \A s, t \in AllTexts : s \o t \in AllTexts /\ Len(s \o t) = Len(s) + Len(t)
    BY ConcatProperties DEF AllTexts
  <2>2. first \o new \in AllTexts /\ Len(first \o new) = hole.start + Len(new)
    BY <1>5, <2>1
  <2> QED BY <1>4, <1>6, <2>1, <2>2
<1>8. next.taken \in 0 .. n
  BY <1>1, <1>4
<1>9. next.pos \in Nat
  BY <1>2, <1>3, <1>4
<1>10. next \in Places(n)
  BY <1>4, <1>7, <1>8, <1>9 DEF Places
<1> DEFINE a == hole.start
           b == hole.end
           L == Len(p.text)
           M == Len(next.text)
<1>11. p.pos <= L /\ next.pos <= M /\ M - next.pos < L - p.pos
  <2>1. /\ a \in Nat /\ a >= p.pos /\ a <= L /\ b \in Nat /\ b >= a /\ b + 1 <= L
        /\ p.pos \in Nat /\ L \in Nat /\ p.pos <= L
    BY <1>1, <1>2, <1>3
  <2>2. M = a + Len(new) + (L - (b + 1)) /\ next.pos = a + Len(new) /\ Len(new) \in Nat
    BY <1>3, <1>4, <1>7
  <2> HIDE DEF a, b, L, M
  <2> QED BY ONLY <2>1, <2>2
<1> QED BY <1>10, <1>11 DEF next, hole

\* There is such a loop, and it ends everywhere.
LEMMA FormatRuns ==
    ASSUME NEW args \in Seq(Basics), NEW kwargs, Named(kwargs)
    PROVE  \A p \in Places(Len(args)) :
              FormatFrom(args, kwargs)[p] = FormatStep(args, kwargs, p, FormatFrom(args, kwargs))
<1> DEFINE n == Len(args)
           D == Places(n)
           R == AllTexts
           rank == [p \in D |-> IF p.pos <= Len(p.text) THEN Len(p.text) - p.pos ELSE 0]
           Step(p, f) == FormatStep(args, kwargs, p, f)
           step == [x \in D \X [D -> R] |-> Step(x[1], x[2])]
           Put(p) == NewAt(args, kwargs, p)
           There(p) == Hole(p.text, p.pos).there
           Next(p) == NextPlace(p, Hole(p.text, p.pos), Put(p), n)
           r == FormatFrom(args, kwargs)
<1>1. n \in Nat
  BY LenProperties
<1>2. ASSUME NEW p \in D PROVE p.text \in AllTexts /\ p.pos \in Nat /\ p.taken \in 0 .. n
  BY DEF Places
<1>3. ASSUME NEW p \in D, There(p)
      PROVE  /\ Put(p) \in AllTexts /\ Next(p) \in D
             /\ p.pos <= Len(p.text) /\ Next(p).pos <= Len(Next(p).text)
             /\ Len(Next(p).text) - Next(p).pos < Len(p.text) - p.pos
  <2>1. SubSeq(args, p.taken + 1, Len(args)) \in Seq(Basics)
    <3>1. p.taken + 1 \in Int /\ n \in Int /\ \A i \in (p.taken + 1) .. n : args[i] \in Basics
      BY <1>1, <1>2, ElementOfSeq
    <3> QED BY <3>1, SubSeqProperties
  <2>2. Put(p) \in AllTexts
    BY <1>2, <1>3, <2>1, FillingIs DEF NewAt
  <2> HIDE DEF Put
  <2> QED BY <1>1, <1>3, <2>2, NextPlaceIs
<1>4. rank \in [D -> Nat] /\ \A p \in D : There(p) => rank[Next(p)] < rank[p]
  <2>1. ASSUME NEW p \in D
        PROVE  Len(p.text) \in Nat /\ (IF p.pos <= Len(p.text) THEN Len(p.text) - p.pos ELSE 0) \in Nat
    <3>1. Len(p.text) \in Nat
      BY <1>2, LenProperties DEF AllTexts
    <3> QED BY <1>2, <3>1
  <2>2. /\ rank \in [D -> Nat]
        /\ \A p \in D : rank[p] = IF p.pos <= Len(p.text) THEN Len(p.text) - p.pos ELSE 0
    BY <2>1
  <2> HIDE DEF D, rank, Next, There
  <2> QED BY <1>3, <2>2
<1>5. ASSUME NEW p \in D, NEW f, There(p) => f[Next(p)] \in R PROVE Step(p, f) \in R
  <2>1. p.text \in R /\ NoNumber \in R
    BY <1>2 DEF NoNumber, AllTexts
  <2> QED BY <1>5, <2>1 DEF FormatStep
<1>6. ASSUME NEW p \in D, NEW f, NEW g, There(p) => f[Next(p)] = g[Next(p)] PROVE Step(p, f) = Step(p, g)
  BY <1>6 DEF FormatStep
<1>7. LooksBelow(step, D, rank, R)
  <2>1. step \in [D \X [D -> R] -> R]
    <3>1. ASSUME NEW p \in D, NEW f \in [D -> R] PROVE Step(p, f) \in R
      <4>1. There(p) => f[Next(p)] \in R
        <5> HIDE DEF D, R, Next, There
        <5> QED BY <1>3, <3>1
      <4> HIDE DEF Step, There, Next
      <4> QED BY <1>5, <4>1
    <3> HIDE DEF D, R, Step
    <3> QED BY <3>1
  <2>2. \A p \in D, f \in [D -> R] : step[<<p, f>>] = Step(p, f)
    <3> HIDE DEF D, R, Step
    <3> QED OBVIOUS
  <2> HIDE DEF D, R, rank, step, Step, Next, There
  <2>3. ASSUME NEW p \in D, NEW f \in [D -> R], NEW g \in [D -> R],
               \A q \in D : rank[q] < rank[p] => f[q] = g[q]
        PROVE  step[<<p, f>>] = step[<<p, g>>]
    <3>1. There(p) => f[Next(p)] = g[Next(p)]
      BY <1>3, <1>4, <2>3
    <3> QED BY <1>6, <2>2, <3>1
  <2> QED BY <1>4, <2>1, <2>3 DEF LooksBelow
<1>8. PICK f \in [D -> R] : Follows(f, step, D)
  <2>1. <<>> \in R
    BY CharactersAre
  <2> HIDE DEF D, R, rank, step
  <2> QED BY <1>7, <2>1, RecursionBelow
<1>9. f = [p \in D |-> Step(p, f)]
  <2> HIDE DEF D, R, Step
  <2> QED BY <1>8 DEF Follows
<1>10. r = [p \in D |-> Step(p, r)]
  BY <1>9, Zenon DEF FormatFrom
<1> HIDE DEF r, D, Step
<1>11. \A p \in D : r[p] = Step(p, r)
  BY <1>10, Zenon
<1> QED BY <1>11 DEF r, D, Step

\* A part of the second of two texts, and one that begins with all of the first.
LEMMA PartBehind ==
    ASSUME NEW h \in AllTexts, NEW d \in AllTexts, NEW i \in 0 .. Len(d), NEW j \in i .. Len(d)
    PROVE  /\ Part(h \o d, Len(h) + i, Len(h) + j) = Part(d, i, j)
           /\ Part(h \o d, 0, Len(h) + i) = h \o Part(d, 0, i)
<1> DEFINE s == h \o d
<1>1. /\ Len(h) \in Nat /\ Len(d) \in Nat /\ s \in AllTexts /\ Len(s) = Len(h) + Len(d)
      /\ \A k \in 1 .. Len(h) + Len(d) : s[k] = IF k <= Len(h) THEN h[k] ELSE d[k - Len(h)]
  BY LenProperties, ConcatProperties DEF AllTexts
<1>2. (\A k \in 1 .. Len(h) : h[k] \in Int) /\ \A k \in 1 .. Len(d) : d[k] \in Int
  BY ElementOfSeq DEF AllTexts
<1> HIDE DEF s
<1>3. \A k \in 1 .. Len(s) : s[k] \in Int
  BY <1>1, ElementOfSeq DEF AllTexts
<1>4. Part(s, Len(h) + i, Len(h) + j) = Part(d, i, j)
  <2> DEFINE p == Part(s, Len(h) + i, Len(h) + j)
             q == Part(d, i, j)
  <2>1. /\ p \in Seq(Int) /\ Len(p) = IF Len(h) + i + 1 <= Len(h) + j THEN (Len(h) + j) - (Len(h) + i + 1) + 1 ELSE 0
        /\ \A k \in 1 .. (Len(h) + j) - (Len(h) + i + 1) + 1 : p[k] = s[(Len(h) + i + 1) + k - 1]
    <3>1. /\ Len(h) + i + 1 \in Int /\ Len(h) + j \in Int
          /\ \A k \in (Len(h) + i + 1) .. (Len(h) + j) : s[k] \in Int
      BY <1>1, <1>3
    <3> QED BY <3>1, SubSeqProperties DEF Part
  <2>2. /\ q \in Seq(Int) /\ Len(q) = IF i + 1 <= j THEN j - (i + 1) + 1 ELSE 0
        /\ \A k \in 1 .. j - (i + 1) + 1 : q[k] = d[(i + 1) + k - 1]
    <3>1. i + 1 \in Int /\ j \in Int /\ \A k \in (i + 1) .. j : d[k] \in Int
      BY <1>1, <1>2
    <3> QED BY <3>1, SubSeqProperties DEF Part
  <2> HIDE DEF p, q
  <2>3. Len(p) = j - i /\ Len(q) = j - i
    BY <1>1, <2>1, <2>2
  <2>4. ASSUME NEW k \in 1 .. j - i PROVE p[k] = q[k]
    <3>1. p[k] = s[Len(h) + i + k] /\ q[k] = d[i + k]
      <4>1. /\ k \in 1 .. (Len(h) + j) - (Len(h) + i + 1) + 1 /\ (Len(h) + i + 1) + k - 1 = Len(h) + i + k
            /\ k \in 1 .. j - (i + 1) + 1 /\ (i + 1) + k - 1 = i + k
        BY <1>1
      <4> QED BY <2>1, <2>2, <4>1
    <3>2. /\ Len(h) + i + k \in 1 .. Len(h) + Len(d) /\ ~(Len(h) + i + k <= Len(h))
          /\ (Len(h) + i + k) - Len(h) = i + k
      BY <1>1
    <3> QED BY <1>1, <3>1, <3>2
  <2>5. \A k \in 1 .. Len(p) : p[k] = q[k]
    BY <2>3, <2>4
  <2>6. p = q
    BY <2>1, <2>2, <2>3, <2>5, SeqEqual
  <2> QED BY <2>6 DEF p, q
<1>5. Part(s, 0, Len(h)) = h
  <2> DEFINE p == Part(s, 0, Len(h))
  <2>1. /\ p \in Seq(Int) /\ Len(p) = IF 0 + 1 <= Len(h) THEN Len(h) - (0 + 1) + 1 ELSE 0
        /\ \A k \in 1 .. Len(h) - (0 + 1) + 1 : p[k] = s[(0 + 1) + k - 1]
    <3>1. 0 + 1 \in Int /\ Len(h) \in Int /\ \A k \in (0 + 1) .. Len(h) : s[k] \in Int
      BY <1>1, <1>3
    <3> QED BY <3>1, SubSeqProperties DEF Part
  <2> HIDE DEF p
  <2>2. Len(p) = Len(h)
    BY <1>1, <2>1
  <2>3. ASSUME NEW k \in 1 .. Len(h) PROVE p[k] = h[k]
    <3>1. k \in 1 .. Len(h) - (0 + 1) + 1 /\ (0 + 1) + k - 1 = k /\ k \in 1 .. Len(h) + Len(d) /\ k <= Len(h)
      BY <1>1
    <3> QED BY <1>1, <2>1, <3>1
  <2>4. p = h
    <3>1. h \in Seq(Int)
      BY DEF AllTexts
    <3> QED BY <2>1, <2>2, <2>3, <3>1, SeqEqual
  <2> QED BY <2>4 DEF p
<1>6. Part(s, 0, Len(h) + i) = h \o Part(d, 0, i)
  <2>1. Part(s, 0, Len(h)) \o Part(s, Len(h), Len(h) + i) = Part(s, 0, Len(h) + i)
    <3>1. 0 \in 0 .. Len(s) /\ Len(h) \in 0 .. Len(s) /\ Len(h) + i \in Len(h) .. Len(s)
      BY <1>1
    <3> QED BY <1>1, <3>1, PartsAdjoin
  <2>2. Part(s, Len(h), Len(h) + i) = Part(d, 0, i)
    <3> DEFINE p == Part(s, Len(h), Len(h) + i)
               q == Part(d, 0, i)
    <3>1. /\ p \in Seq(Int) /\ Len(p) = IF Len(h) + 1 <= Len(h) + i THEN (Len(h) + i) - (Len(h) + 1) + 1 ELSE 0
          /\ \A k \in 1 .. (Len(h) + i) - (Len(h) + 1) + 1 : p[k] = s[(Len(h) + 1) + k - 1]
      <4>1. Len(h) + 1 \in Int /\ Len(h) + i \in Int /\ \A k \in (Len(h) + 1) .. (Len(h) + i) : s[k] \in Int
        BY <1>1, <1>3
      <4> QED BY <4>1, SubSeqProperties DEF Part
    <3>2. /\ q \in Seq(Int) /\ Len(q) = IF 0 + 1 <= i THEN i - (0 + 1) + 1 ELSE 0
          /\ \A k \in 1 .. i - (0 + 1) + 1 : q[k] = d[(0 + 1) + k - 1]
      <4>1. 0 + 1 \in Int /\ i \in Int /\ \A k \in (0 + 1) .. i : d[k] \in Int
        BY <1>1, <1>2
      <4> QED BY <4>1, SubSeqProperties DEF Part
    <3> HIDE DEF p, q
    <3>3. Len(p) = i /\ Len(q) = i
      BY <1>1, <3>1, <3>2
    <3>4. ASSUME NEW k \in 1 .. i PROVE p[k] = q[k]
      <4>1. p[k] = s[Len(h) + k] /\ q[k] = d[k]
        <5>1. /\ k \in 1 .. (Len(h) + i) - (Len(h) + 1) + 1 /\ (Len(h) + 1) + k - 1 = Len(h) + k
              /\ k \in 1 .. i - (0 + 1) + 1 /\ (0 + 1) + k - 1 = k
          BY <1>1
        <5> QED BY <3>1, <3>2, <5>1
      <4>2. Len(h) + k \in 1 .. Len(h) + Len(d) /\ ~(Len(h) + k <= Len(h)) /\ (Len(h) + k) - Len(h) = k
        BY <1>1
      <4> QED BY <1>1, <4>1, <4>2
    <3>5. \A k \in 1 .. Len(p) : p[k] = q[k]
      BY <3>3, <3>4
    <3>6. p = q
      BY <3>1, <3>2, <3>3, <3>5, SeqEqual
    <3> QED BY <3>6 DEF p, q
  <2> QED BY <1>5, <2>1, <2>2
<1> QED BY <1>4, <1>6 DEF s

\* A part that ends before it starts.
LEMMA NoPart ==
    ASSUME NEW s \in AllTexts, NEW from \in Int, NEW to \in Int, to <= from
    PROVE  Part(s, from, to) = <<>>
<1>1. from + 1 \in Int /\ ~(from + 1 <= to) /\ \A k \in (from + 1) .. to : s[k] \in Int
  OBVIOUS
<1>2. /\ SubSeq(s, from + 1, to) \in Seq(Int)
      /\ Len(SubSeq(s, from + 1, to)) = IF from + 1 <= to THEN to - (from + 1) + 1 ELSE 0
  BY <1>1, SubSeqProperties
<1>3. SubSeq(s, from + 1, to) = <<>>
  BY <1>1, <1>2, EmptySeq
<1> QED BY <1>3 DEF Part

\* A character is found behind a text where it is found in what is behind it.
LEMMA FindBehind ==
    ASSUME NEW h \in AllTexts, NEW d \in AllTexts, NEW c \in Int, NEW k \in 0 .. Len(d)
    PROVE  FindFrom(h \o d, <<c>>, Len(h) + k) =
              IF FindFrom(d, <<c>>, k) = -1 THEN -1 ELSE Len(h) + FindFrom(d, <<c>>, k)
<1> DEFINE s == h \o d
           t == <<c>>
           at == FindFrom(d, t, k)
           there == FindFrom(s, t, Len(h) + k)
<1>1. /\ Len(h) \in Nat /\ Len(d) \in Nat /\ s \in AllTexts /\ Len(s) = Len(h) + Len(d)
      /\ t \in AllTexts /\ Len(t) = 1
  BY LenProperties, ConcatProperties, CharactersAre DEF AllTexts
<1>2. ASSUME NEW q \in k .. Len(d)
      PROVE  OccursAt(s, t, Len(h) + q) <=> OccursAt(d, t, q)
  <2>1. CASE q + 1 <= Len(d)
    <3>1. q \in 0 .. Len(d) /\ q + 1 \in q .. Len(d) /\ Len(h) + q + 1 = Len(h) + (q + 1)
      BY <1>1, <2>1
    <3>2. Part(s, Len(h) + q, Len(h) + (q + 1)) = Part(d, q, q + 1)
      BY <3>1, PartBehind
    <3>3. (Len(h) + q) + 1 <= Len(s) /\ (Len(h) + q) + 1 = Len(h) + (q + 1)
      BY <1>1, <2>1
    <3> HIDE DEF s, t
    <3> QED BY <1>1, <2>1, <3>2, <3>3 DEF OccursAt
  <2>2. CASE ~(q + 1 <= Len(d))
    <3>1. ~((Len(h) + q) + 1 <= Len(s))
      BY <1>1, <2>2
    <3> HIDE DEF s, t
    <3> QED BY <1>1, <2>2, <3>1 DEF OccursAt
  <2> QED BY <2>1, <2>2
<1> HIDE DEF s, t
<1>3. \/ at = -1 /\ \A p \in k .. Len(d) : ~OccursAt(d, t, p)
      \/ /\ at \in k .. Len(d) /\ OccursAt(d, t, at)
         /\ \A p \in k .. Len(d) : OccursAt(d, t, p) => at <= p
  BY <1>1, FindFinds
<1>4. \/ there = -1 /\ \A p \in (Len(h) + k) .. Len(s) : ~OccursAt(s, t, p)
      \/ /\ there \in (Len(h) + k) .. Len(s) /\ OccursAt(s, t, there)
         /\ \A p \in (Len(h) + k) .. Len(s) : OccursAt(s, t, p) => there <= p
  <2>1. Len(h) + k \in 0 .. Len(s)
    BY <1>1
  <2> QED BY <1>1, <2>1, FindFinds
<1> HIDE DEF at, there
<1>5. ASSUME NEW p \in (Len(h) + k) .. Len(s)
      PROVE  p - Len(h) \in k .. Len(d) /\ Len(h) + (p - Len(h)) = p
  BY <1>1
<1>6. ASSUME NEW q \in k .. Len(d) PROVE Len(h) + q \in (Len(h) + k) .. Len(s)
  BY <1>1
<1>7. CASE at = -1
  <2>1. \A p \in (Len(h) + k) .. Len(s) : ~OccursAt(s, t, p)
    <3>1. \A q \in k .. Len(d) : ~OccursAt(d, t, q)
      BY <1>1, <1>3, <1>7
    <3> QED BY <1>2, <1>5, <3>1
  <2>2. there = -1
    BY <1>4, <2>1
  <2> QED BY <1>7, <2>2 DEF s, t, at, there
<1>8. CASE at # -1
  <2>1. /\ at \in k .. Len(d) /\ OccursAt(d, t, at)
        /\ \A p \in k .. Len(d) : OccursAt(d, t, p) => at <= p
    BY <1>3, <1>8
  <2>2. OccursAt(s, t, Len(h) + at) /\ Len(h) + at \in (Len(h) + k) .. Len(s)
    BY <1>2, <1>6, <2>1
  <2>3. /\ there \in (Len(h) + k) .. Len(s) /\ OccursAt(s, t, there) /\ there <= Len(h) + at
    BY <1>4, <2>2
  <2>4. at <= there - Len(h)
    <3>1. there - Len(h) \in k .. Len(d) /\ Len(h) + (there - Len(h)) = there
      BY <1>5, <2>3
    <3>2. OccursAt(d, t, there - Len(h))
      BY <1>2, <2>3, <3>1
    <3> QED BY <2>1, <3>1, <3>2
  <2>5. there = Len(h) + at
    BY <1>1, <2>1, <2>3, <2>4
  <2> QED BY <1>8, <2>5 DEF s, t, at, there
<1> QED BY <1>7, <1>8

\* So is a placeholder.
LEMMA HoleBehind ==
    ASSUME NEW h \in AllTexts, NEW d \in AllTexts
    PROVE  LET hole == Hole(h \o d, Len(h))
               here == Hole(d, 0)
           IN  /\ hole.there <=> here.there
               /\ here.there => /\ hole.start = Len(h) + here.start /\ hole.end = Len(h) + here.end
                                /\ hole.field = here.field /\ hole.spec = here.spec
<1> DEFINE s == h \o d
           a == FindFrom(d, <<Open>>, 0)
           b == FindFrom(d, <<Close>>, a)
           start == FindFrom(s, <<Open>>, Len(h))
           end == FindFrom(s, <<Close>>, start)
           hole == Hole(s, Len(h))
           here == Hole(d, 0)
<1>1. /\ Len(h) \in Nat /\ Len(d) \in Nat /\ s \in AllTexts /\ Len(s) = Len(h) + Len(d)
      /\ Open \in Int /\ Close \in Int /\ <<Open>> \in AllTexts /\ <<Close>> \in AllTexts
  BY LenProperties, ConcatProperties, CharactersAre DEF AllTexts
<1>2. start = IF a = -1 THEN -1 ELSE Len(h) + a
  <2>1. 0 \in 0 .. Len(d) /\ Len(h) + 0 = Len(h)
    BY <1>1
  <2>2. FindFrom(s, <<Open>>, Len(h) + 0) = IF a = -1 THEN -1 ELSE Len(h) + a
    BY <1>1, <2>1, FindBehind
  <2> QED BY <2>1, <2>2
<1>3. a \in -1 .. Len(d)
  BY <1>1, AnyFind
<1>4. /\ here.start = a /\ here.end = (IF a = -1 THEN -1 ELSE b)
      /\ here.there <=> here.start # -1 /\ here.end # -1
      /\ hole.start = start /\ hole.end = (IF start = -1 THEN -1 ELSE end)
      /\ hole.there <=> hole.start # -1 /\ hole.end # -1
  BY DEF Hole
<1>5. CASE a = -1
  BY <1>2, <1>4, <1>5
<1>6. CASE a # -1
  <2>1. a \in 0 .. Len(d) /\ Len(h) + a # -1 /\ start = Len(h) + a
    BY <1>1, <1>2, <1>3, <1>6
  <2> HIDE DEF a, start
  <2>2. end = IF b = -1 THEN -1 ELSE Len(h) + b
    BY <1>1, <2>1, FindBehind
  <2>3. b \in -1 .. Len(d) /\ b \in Int
    <3>1. a \in Nat
      BY <2>1
    <3>2. b \in -1 .. Len(d)
      BY <1>1, <3>1, AnyFind
    <3> HIDE DEF b
    <3> QED BY <1>1, <3>2
  <2> HIDE DEF b, end
  <2>4. CASE b = -1
    BY <1>4, <1>6, <2>1, <2>2, <2>4
  <2>5. CASE b # -1
    <3>1. b \in 0 .. Len(d) /\ end = Len(h) + b /\ end # -1
      BY <1>1, <2>2, <2>3, <2>5
    <3>2. hole.there /\ here.there /\ hole.start = Len(h) + here.start /\ hole.end = Len(h) + here.end
      BY <1>4, <1>6, <2>1, <2>5, <3>1
    <3>3. Part(s, start + 1, end) = Part(d, a + 1, b)
      <4>1. CASE a + 1 <= b
        <5>1. a + 1 \in 0 .. Len(d) /\ b \in (a + 1) .. Len(d) /\ start + 1 = Len(h) + (a + 1)
          BY <1>1, <2>1, <3>1, <4>1
        <5>2. Part(h \o d, Len(h) + (a + 1), Len(h) + b) = Part(d, a + 1, b)
          BY <5>1, PartBehind
        <5> QED BY <3>1, <5>1, <5>2
      <4>2. CASE ~(a + 1 <= b)
        <5>1. /\ a + 1 \in Int /\ b \in Int /\ b <= a + 1
              /\ start + 1 \in Int /\ end \in Int /\ end <= start + 1
          BY <1>1, <2>1, <3>1, <4>2
        <5>2. Part(d, a + 1, b) = <<>> /\ Part(s, start + 1, end) = <<>>
          <6> HIDE DEF s
          <6> QED BY <1>1, <5>1, NoPart
        <5> QED BY <5>2
      <4> QED BY <4>1, <4>2
    <3>4. ASSUME NEW text, NEW pos, NEW content,
                 content = Part(text, FindFrom(text, <<Open>>, pos) + 1,
                                FindFrom(text, <<Close>>, FindFrom(text, <<Open>>, pos))),
                 FindFrom(text, <<Open>>, pos) # -1
          PROVE  LET colon == IndexOf(content, <<Colon>>)
                 IN  /\ Hole(text, pos).field = IF colon = -1 THEN content ELSE Part(content, 0, colon)
                     /\ Hole(text, pos).spec = IF colon = -1 THEN <<>>
                                               ELSE Part(content, colon + 1, Len(content))
      BY <3>4 DEF Hole
    <3>5. hole.field = here.field /\ hole.spec = here.spec
      <4> DEFINE content == Part(d, a + 1, b)
      <4>1. /\ content = Part(s, FindFrom(s, <<Open>>, Len(h)) + 1,
                              FindFrom(s, <<Close>>, FindFrom(s, <<Open>>, Len(h))))
            /\ FindFrom(s, <<Open>>, Len(h)) # -1
        BY <2>1, <3>3 DEF start, end
      <4>2. /\ content = Part(d, FindFrom(d, <<Open>>, 0) + 1, FindFrom(d, <<Close>>, FindFrom(d, <<Open>>, 0)))
            /\ FindFrom(d, <<Open>>, 0) # -1
        BY <1>6 DEF a, b
      <4> HIDE DEF content, s
      <4> QED BY <3>4, <4>1, <4>2
    <3> HIDE DEF hole, here
    <3>6. /\ hole.there <=> here.there
          /\ here.there => /\ hole.start = Len(h) + here.start /\ hole.end = Len(h) + here.end
                           /\ hole.field = here.field /\ hole.spec = here.spec
      BY <3>2, <3>5
    <3> QED BY <3>6 DEF hole, here, s
  <2> QED BY <2>4, <2>5
<1> QED BY <1>5, <1>6

\* One text behind another.
LEMMA Behind ==
    /\ \A s, t \in AllTexts : s \o t \in AllTexts
    /\ \A s \in AllTexts : s \o <<>> = s /\ <<>> \o s = s
    /\ \A s, t, u \in AllTexts : (s \o t) \o u = s \o (t \o u)
BY ConcatProperties, ConcatEmptySeq, ConcatAssociative DEF AllTexts

\* What concat has put together after each of the texts.
ConcatTurns(texts, f) ==
    /\ f \in [0 .. Len(texts) -> AllTexts]
    /\ f[0] = <<>> /\ \A k \in 1 .. Len(texts) : f[k] = f[k - 1] \o texts[k]
ConcatFrom(texts) == CHOOSE f : f = [n \in 0 .. Len(texts) |-> IF n = 0 THEN <<>> ELSE f[n - 1] \o texts[n]]

\* It does put the texts together.
LEMMA ConcatRuns ==
    ASSUME NEW texts \in Seq(AllTexts)
    PROVE  \E f : ConcatTurns(texts, f) /\ Concat(texts) = f[Len(texts)]
<1> DEFINE N == Len(texts)
           step == [k \in 1 .. N |-> [v \in AllTexts |-> v \o texts[k]]]
           d == ConcatFrom(texts)
<1>1. N \in Nat /\ <<>> \in AllTexts /\ \A k \in 1 .. N : texts[k] \in AllTexts
  BY LenProperties, ElementOfSeq, CharactersAre
<1> HIDE DEF N
<1>2. step \in [(0 + 1) .. N -> [AllTexts -> AllTexts]]
  <2>1. \A k \in 1 .. N, v \in AllTexts : v \o texts[k] \in AllTexts
    BY <1>1, Behind
  <2>2. 0 + 1 = 1
    OBVIOUS
  <2> QED BY <2>1, <2>2
<1>3. \A k \in 1 .. N, v \in AllTexts : step[k][v] = v \o texts[k]
  OBVIOUS
<1> HIDE DEF step
<1>4. PICK f : LoopFrom(f, AllTexts, 0, N, <<>>, step)
  <2>1. 0 \in Nat /\ N \in Nat /\ 0 <= N /\ <<>> \in AllTexts
    BY <1>1
  <2> QED BY <1>2, <2>1, LoopRuns, Zenon
<1>5. f \in [0 .. N -> AllTexts] /\ f[0] = <<>> /\ \A k \in 1 .. N : f[k] = step[k][f[k - 1]]
  BY <1>4 DEF LoopFrom
<1>6. ASSUME NEW k \in 1 .. N PROVE f[k] = f[k - 1] \o texts[k]
  <2>1. f[k - 1] \in AllTexts
    <3>1. k - 1 \in 0 .. N
      BY <1>1
    <3> QED BY <1>5, <3>1
  <2> QED BY <1>3, <1>5, <2>1
<1>7. f = [n \in 0 .. N |-> IF n = 0 THEN <<>> ELSE f[n - 1] \o texts[n]]
  <2>1. \A k \in 0 .. N : k # 0 => k \in 1 .. N
    BY <1>1
  <2>2. \A k \in 0 .. N : f[k] = IF k = 0 THEN <<>> ELSE f[k - 1] \o texts[k]
    BY <1>5, <1>6, <2>1
  <2> QED BY <1>5, <2>2
<1>8. d = [n \in 0 .. N |-> IF n = 0 THEN <<>> ELSE d[n - 1] \o texts[n]]
  BY <1>7, Zenon DEF ConcatFrom, N
<1>9. Concat(texts) = d[N]
  BY DEF Concat, ConcatFrom, N
<1> HIDE DEF d
<1>10. d[0] = <<>> /\ \A k \in 1 .. N : d[k] = d[k - 1] \o texts[k]
  <2>1. 0 \in 0 .. N /\ \A k \in 1 .. N : k \in 0 .. N /\ k # 0
    BY <1>1
  <2> QED BY <1>8, <2>1
<1> DEFINE T == {k \in 0 .. N : d[k] \in AllTexts}
<1>11. 0 .. N \subseteq T
  <2>1. 0 \in T
    BY <1>1, <1>10
  <2>2. ASSUME NEW k \in 1 .. N, k - 1 \in T PROVE k \in T
    <3>1. d[k - 1] \in AllTexts /\ texts[k] \in AllTexts /\ k \in 0 .. N
      BY <1>1, <2>2
    <3>2. d[k] = d[k - 1] \o texts[k]
      BY <1>10
    <3> QED BY <3>1, <3>2, Behind
  <2> HIDE DEF T
  <2> QED BY <1>1, <2>1, <2>2, InductionUp
<1>12. d \in [0 .. N -> AllTexts]
  BY <1>8, <1>11
<1>13. ConcatTurns(texts, d) /\ Concat(texts) = d[Len(texts)]
  BY <1>9, <1>10, <1>12 DEF ConcatTurns, N
<1> QED BY <1>13, Zenon

\* No texts and one.
LEMMA ConcatFew ==
    /\ Concat(<<>>) = <<>>
    /\ \A s \in AllTexts : Concat(<<s>>) = s
<1>1. Concat(<<>>) = <<>>
  <2>1. <<>> \in Seq(AllTexts) /\ Len(<<>>) = 0
    BY EmptySeq
  <2>2. PICK f : ConcatTurns(<<>>, f) /\ Concat(<<>>) = f[Len(<<>>)]
    BY <2>1, ConcatRuns
  <2> QED BY <2>1, <2>2 DEF ConcatTurns
<1>2. ASSUME NEW s \in AllTexts PROVE Concat(<<s>>) = s
  <2>1. <<s>> \in Seq(AllTexts) /\ Len(<<s>>) = 1 /\ <<s>>[1] = s
    OBVIOUS
  <2>2. PICK f : ConcatTurns(<<s>>, f) /\ Concat(<<s>>) = f[Len(<<s>>)]
    BY <2>1, ConcatRuns
  <2> DEFINE texts == <<s>>
  <2>3. f[0] = <<>> /\ (\A k \in 1 .. Len(texts) : f[k] = f[k - 1] \o texts[k]) /\ Concat(<<s>>) = f[1]
    BY <2>1, <2>2 DEF ConcatTurns
  <2>4. 1 \in 1 .. Len(texts) /\ 1 - 1 = 0 /\ texts[1] = s
    OBVIOUS
  <2> HIDE DEF texts
  <2>5. f[1] = <<>> \o s
    BY <2>3, <2>4
  <2> QED BY <2>3, <2>5, Behind
<1> QED BY <1>1, <1>2

\* Those of two lists.
LEMMA ConcatJoins ==
    ASSUME NEW p \in Seq(AllTexts), NEW q \in Seq(AllTexts)
    PROVE  Concat(p \o q) = Concat(p) \o Concat(q)
<1> DEFINE all == p \o q
           P == Len(p)
           Q == Len(q)
<1>1. /\ P \in Nat /\ Q \in Nat /\ all \in Seq(AllTexts) /\ Len(all) = P + Q
      /\ \A k \in 1 .. P : all[k] = p[k]
      /\ \A k \in 1 .. Q : all[P + k] = q[k] /\ q[k] \in AllTexts
  <2>1. \A k \in 1 .. P + Q : all[k] = IF k <= P THEN p[k] ELSE q[k - P]
    BY ConcatProperties
  <2>2. P \in Nat /\ Q \in Nat /\ all \in Seq(AllTexts) /\ Len(all) = P + Q
    BY ConcatProperties, LenProperties
  <2>3. \A k \in 1 .. Q : q[k] \in AllTexts
    BY ElementOfSeq
  <2> HIDE DEF all, P, Q
  <2>4. ASSUME NEW k \in 1 .. P PROVE all[k] = p[k]
    <3>1. k \in 1 .. P + Q /\ k <= P
      BY <2>2
    <3> QED BY <2>1, <3>1
  <2>5. ASSUME NEW k \in 1 .. Q PROVE all[P + k] = q[k]
    <3>1. P + k \in 1 .. P + Q /\ ~(P + k <= P) /\ (P + k) - P = k
      BY <2>2
    <3> QED BY <2>1, <3>1
  <2> QED BY <2>2, <2>3, <2>4, <2>5
<1>2. PICK fp : ConcatTurns(p, fp) /\ Concat(p) = fp[P]
  BY ConcatRuns
<1>3. PICK fq : ConcatTurns(q, fq) /\ Concat(q) = fq[Q]
  BY ConcatRuns
<1>4. PICK f : ConcatTurns(all, f) /\ Concat(all) = f[P + Q]
  <2> HIDE DEF all
  <2> QED BY <1>1, ConcatRuns
<1>5. /\ fp \in [0 .. P -> AllTexts] /\ fp[0] = <<>> /\ \A k \in 1 .. P : fp[k] = fp[k - 1] \o p[k]
      /\ fq \in [0 .. Q -> AllTexts] /\ fq[0] = <<>> /\ \A k \in 1 .. Q : fq[k] = fq[k - 1] \o q[k]
      /\ f[0] = <<>> /\ \A k \in 1 .. P + Q : f[k] = f[k - 1] \o all[k]
  BY <1>1, <1>2, <1>3, <1>4 DEF ConcatTurns
<1> HIDE DEF all, P, Q
<1>6. f[P] = fp[P]
  <2> DEFINE T == {k \in 0 .. P : f[k] = fp[k]}
  <2>1. 0 \in T
    BY <1>1, <1>5
  <2>2. ASSUME NEW k \in 1 .. P, k - 1 \in T PROVE k \in T
    <3>1. k \in 1 .. P + Q /\ k \in 0 .. P
      BY <1>1
    <3>2. f[k] = f[k - 1] \o all[k] /\ fp[k] = fp[k - 1] \o p[k] /\ all[k] = p[k] /\ f[k - 1] = fp[k - 1]
      BY <1>1, <1>5, <2>2, <3>1
    <3> QED BY <3>1, <3>2
  <2>3. 0 .. P \subseteq T
    <3>1. P \in Nat
      BY <1>1
    <3> HIDE DEF T
    <3> QED BY <3>1, <2>1, <2>2, InductionUp
  <2>4. P \in 0 .. P
    BY <1>1
  <2> QED BY <2>3, <2>4
<1>7. f[P + Q] = fp[P] \o fq[Q]
  <2> DEFINE T == {k \in 0 .. Q : f[P + k] = fp[P] \o fq[k]}
  <2>1. fp[P] \in AllTexts /\ \A k \in 0 .. Q : fq[k] \in AllTexts
    <3>1. P \in 0 .. P
      BY <1>1
    <3> QED BY <1>5, <3>1
  <2>2. 0 \in T
    <3>1. P + 0 = P /\ 0 \in 0 .. Q
      BY <1>1
    <3>2. fp[P] \o fq[0] = fp[P]
      BY <1>5, <2>1, Behind
    <3> QED BY <1>6, <3>1, <3>2
  <2>3. ASSUME NEW k \in 1 .. Q, k - 1 \in T PROVE k \in T
    <3>1. P + k \in 1 .. P + Q /\ (P + k) - 1 = P + (k - 1) /\ k \in 0 .. Q /\ k - 1 \in 0 .. Q
      BY <1>1
    <3>2. f[P + k] = f[P + (k - 1)] \o q[k]
      BY <1>1, <1>5, <3>1
    <3>3. f[P + (k - 1)] = fp[P] \o fq[k - 1]
      BY <2>3
    <3>4. (fp[P] \o fq[k - 1]) \o q[k] = fp[P] \o (fq[k - 1] \o q[k])
      BY <1>1, <2>1, <3>1, Behind
    <3>5. fq[k] = fq[k - 1] \o q[k]
      BY <1>5
    <3> QED BY <3>1, <3>2, <3>3, <3>4, <3>5
  <2>4. 0 .. Q \subseteq T
    <3>1. Q \in Nat
      BY <1>1
    <3> HIDE DEF T
    <3> QED BY <3>1, <2>2, <2>3, InductionUp
  <2>5. Q \in 0 .. Q
    BY <1>1
  <2> QED BY <2>4, <2>5
<1> QED BY <1>2, <1>3, <1>4, <1>7 DEF all

\* Those of the characters of a text, each by itself.
LEMMA ConcatSingles ==
    ASSUME NEW s \in AllTexts, NEW texts \in Seq(AllTexts), Len(texts) = Len(s),
           \A i \in 1 .. Len(s) : texts[i] = <<s[i]>>
    PROVE  Concat(texts) = s
<1> DEFINE N == Len(s)
<1>1. N \in Nat /\ \A i \in 1 .. N : s[i] \in Int
  BY LenProperties, ElementOfSeq DEF AllTexts
<1>2. PICK f : ConcatTurns(texts, f) /\ Concat(texts) = f[N]
  BY ConcatRuns
<1>3. f[0] = <<>> /\ \A k \in 1 .. N : f[k] = f[k - 1] \o texts[k]
  BY <1>2 DEF ConcatTurns
<1>4. Part(s, 0, 0) = <<>>
  <2>1. 0 \in Int /\ 0 <= 0
    OBVIOUS
  <2> QED BY <2>1, NoPart
<1>5. ASSUME NEW k \in 1 .. N PROVE Part(s, k - 1, k) = <<s[k]>>
  <2>1. k - 1 \in 0 .. Len(s) /\ k \in (k - 1) .. Len(s) /\ k - (k - 1) = 1
    BY <1>1
  <2>2. Part(s, k - 1, k) \in Seq(Int) /\ Len(Part(s, k - 1, k)) = 1
    BY <2>1, PartIs DEF AllTexts
  <2>3. Part(s, k - 1, k)[1] = s[k]
    <3>1. /\ (k - 1) + 1 \in Int /\ k \in Int /\ \A i \in ((k - 1) + 1) .. k : s[i] \in Int
          /\ 1 \in 1 .. k - ((k - 1) + 1) + 1 /\ (k - 1) + 1 + 1 - 1 = k
      BY <1>1
    <3>2. \A i \in 1 .. k - ((k - 1) + 1) + 1 : SubSeq(s, (k - 1) + 1, k)[i] = s[(k - 1) + 1 + i - 1]
      BY <3>1, SubSeqProperties
    <3> QED BY <3>1, <3>2 DEF Part
  <2>4. <<s[k]>> \in Seq(Int) /\ Len(<<s[k]>>) = 1 /\ <<s[k]>>[1] = s[k]
    BY <1>1
  <2>5. \A i \in 1 .. 1 : i = 1
    OBVIOUS
  <2> QED BY <2>2, <2>3, <2>4, <2>5, SeqEqual
<1>6. Part(s, 0, N) = s
  BY WholePart
<1> HIDE DEF N
<1> DEFINE T == {k \in 0 .. N : f[k] = Part(s, 0, k)}
<1>7. 0 \in T
  BY <1>1, <1>3, <1>4
<1>8. ASSUME NEW k \in 1 .. N, k - 1 \in T PROVE k \in T
  <2>1. f[k] = f[k - 1] \o <<s[k]>>
    BY <1>3 DEF N
  <2>3. f[k - 1] = Part(s, 0, k - 1) /\ k \in 0 .. N
    BY <1>1, <1>8
  <2>2. Part(s, 0, k - 1) \o Part(s, k - 1, k) = Part(s, 0, k)
    <3>1. 0 \in 0 .. Len(s) /\ k - 1 \in 0 .. Len(s) /\ k \in (k - 1) .. Len(s)
      BY <1>1 DEF N
    <3> QED BY <3>1, PartsAdjoin
  <2> QED BY <1>5, <2>1, <2>2, <2>3
<1>9. 0 .. N \subseteq T
  <2>1. N \in Nat
    BY <1>1
  <2> HIDE DEF T
  <2> QED BY <1>7, <1>8, <2>1, InductionUp
<1>10. N \in 0 .. N
  BY <1>1
<1> QED BY <1>2, <1>6, <1>9, <1>10

----------------------------------------------------------------------------
(* Marks in the place of arguments.                                        *)

\* The marks for n arguments, among the characters; what is in the place of
\* each; and a text with all of them in their places.
Codes(n) == Nat \cup {-9 - i : i \in 1 .. n}
Unmark(args, c) == IF c < 0 THEN ToText(args[-9 - c]) ELSE <<c>>
Flat(args, m) == Concat([i \in DOMAIN m |-> Unmark(args, m[i])])
Marks(args) == [i \in DOMAIN args |-> Text(<<-9 - i>>)]

\* What is in the place of a character or a mark is a text.
LEMMA UnmarkIs ==
    ASSUME NEW args \in Seq(Writable)
    PROVE  /\ \A c \in Codes(Len(args)) : c \in Int /\ Unmark(args, c) \in AllTexts
           /\ \A c \in Nat : c \in Codes(Len(args)) /\ Unmark(args, c) = <<c>>
           /\ \A i \in 1 .. Len(args) : /\ -9 - i \in Codes(Len(args)) /\ -9 - i # -2
                                        /\ Unmark(args, -9 - i) = ToText(args[i])
<1>1. \A i \in 1 .. Len(args) : args[i] \in Writable /\ ToText(args[i]) \in AllTexts
  BY ElementOfSeq, ToTextIs, CharactersAre
<1>2. ASSUME NEW c \in Nat PROVE c \in Codes(Len(args)) /\ c \in Int /\ Unmark(args, c) = <<c>>
  BY DEF Codes, Unmark
<1>3. ASSUME NEW i \in 1 .. Len(args)
      PROVE  -9 - i \in Codes(Len(args)) /\ -9 - i \in Int /\ -9 - i # -2 /\ Unmark(args, -9 - i) = ToText(args[i])
  <2>1. -9 - i < 0 /\ -9 - (-9 - i) = i
    OBVIOUS
  <2> QED BY <2>1 DEF Codes, Unmark
<1>4. ASSUME NEW c \in Codes(Len(args)) PROVE c \in Int /\ Unmark(args, c) \in AllTexts
  <2>1. CASE c \in Nat
    BY <1>2, <2>1, CharactersAre
  <2>2. CASE c \notin Nat
    <3>1. PICK i \in 1 .. Len(args) : c = -9 - i
      BY <2>2 DEF Codes
    <3> QED BY <1>1, <1>3, <3>1
  <2> QED BY <2>1, <2>2
<1> QED BY <1>2, <1>3, <1>4

\* The texts in the places of marks and characters.
LEMMA UnmarkedAre ==
    ASSUME NEW args \in Seq(Writable), NEW m \in Seq(Codes(Len(args)))
    PROVE  LET texts == [i \in DOMAIN m |-> Unmark(args, m[i])]
           IN  /\ m \in AllTexts /\ texts \in Seq(AllTexts) /\ Len(texts) = Len(m)
               /\ \A i \in 1 .. Len(m) : texts[i] = Unmark(args, m[i])
<1> DEFINE C == Codes(Len(args))
           U(c) == Unmark(args, c)
           texts == [i \in DOMAIN m |-> U(m[i])]
<1>1. (\A c \in C : c \in Int /\ U(c) \in AllTexts) /\ m \in Seq(C)
  BY UnmarkIs
<1> HIDE DEF C, U
<1>2. Len(m) \in Nat /\ DOMAIN m = 1 .. Len(m) /\ \A i \in 1 .. Len(m) : m[i] \in C
  BY <1>1, ElementOfSeq, LenProperties
<1>3. m \in Seq(Int)
  BY <1>1, <1>2
<1>4. texts = [i \in 1 .. Len(m) |-> U(m[i])] /\ \A i \in 1 .. Len(m) : U(m[i]) \in AllTexts
  BY <1>1, <1>2
<1>5. texts \in Seq(AllTexts) /\ Len(texts) = Len(m) /\ \A i \in 1 .. Len(m) : texts[i] = U(m[i])
  <2> DEFINE n == Len(m)
  <2>1. n \in Nat /\ texts = [i \in 1 .. n |-> U(m[i])] /\ \A i \in 1 .. n : U(m[i]) \in AllTexts
    BY <1>2, <1>4
  <2> HIDE DEF n, texts
  <2>2. texts \in Seq(AllTexts) /\ Len(texts) = n /\ \A i \in 1 .. n : texts[i] = U(m[i])
    BY <2>1
  <2> QED BY <2>2 DEF n
<1> QED BY <1>3, <1>5 DEF U, AllTexts

\* They stand one behind the other as the marks do.
LEMMA FlatJoins ==
    ASSUME NEW args \in Seq(Writable), NEW a \in Seq(Codes(Len(args))), NEW b \in Seq(Codes(Len(args)))
    PROVE  /\ a \o b \in Seq(Codes(Len(args)))
           /\ Flat(args, a \o b) = Flat(args, a) \o Flat(args, b)
<1> DEFINE C == Codes(Len(args))
           U(m) == [i \in DOMAIN m |-> Unmark(args, m[i])]
           m == a \o b
<1>1. /\ m \in Seq(C) /\ Len(m) = Len(a) + Len(b) /\ Len(a) \in Nat /\ Len(b) \in Nat
      /\ \A i \in 1 .. Len(a) + Len(b) : m[i] = IF i <= Len(a) THEN a[i] ELSE b[i - Len(a)]
  BY ConcatProperties, LenProperties
<1>2. ASSUME NEW x \in Seq(C)
      PROVE  /\ U(x) \in Seq(AllTexts) /\ Len(U(x)) = Len(x)
             /\ \A i \in 1 .. Len(x) : U(x)[i] = Unmark(args, x[i])
  BY UnmarkedAre
<1> HIDE DEF C, m, U
<1>3. /\ U(a) \in Seq(AllTexts) /\ Len(U(a)) = Len(a) /\ \A i \in 1 .. Len(a) : U(a)[i] = Unmark(args, a[i])
      /\ U(b) \in Seq(AllTexts) /\ Len(U(b)) = Len(b) /\ \A i \in 1 .. Len(b) : U(b)[i] = Unmark(args, b[i])
      /\ U(m) \in Seq(AllTexts) /\ Len(U(m)) = Len(m) /\ \A i \in 1 .. Len(m) : U(m)[i] = Unmark(args, m[i])
  <2>1. a \in Seq(C) /\ b \in Seq(C)
    BY DEF C
  <2> QED BY <1>1, <1>2, <2>1
<1>4. U(m) = U(a) \o U(b)
  <2> DEFINE q == U(a) \o U(b)
  <2>1. /\ q \in Seq(AllTexts) /\ Len(q) = Len(a) + Len(b)
        /\ \A i \in 1 .. Len(a) + Len(b) : q[i] = IF i <= Len(a) THEN U(a)[i] ELSE U(b)[i - Len(a)]
    <3> DEFINE p == U(a)
               r == U(b)
    <3> HIDE DEF p, r
    <3>2. p \in Seq(AllTexts) /\ r \in Seq(AllTexts) /\ Len(p) = Len(a) /\ Len(r) = Len(b)
      BY <1>3 DEF p, r
    <3>3. /\ p \o r \in Seq(AllTexts) /\ Len(p \o r) = Len(p) + Len(r)
          /\ \A i \in 1 .. Len(p) + Len(r) : (p \o r)[i] = IF i <= Len(p) THEN p[i] ELSE r[i - Len(p)]
      BY <3>2, ConcatProperties
    <3> QED BY <3>2, <3>3 DEF p, r
  <2> HIDE DEF q
  <2>2. ASSUME NEW i \in 1 .. Len(a) + Len(b) PROVE U(m)[i] = q[i]
    <3>1. CASE i <= Len(a)
      <4>1. i \in 1 .. Len(a)
        BY <1>1, <3>1
      <4>2. m[i] = a[i] /\ q[i] = U(a)[i]
        BY <1>1, <2>1, <3>1
      <4> QED BY <1>1, <1>3, <4>1, <4>2
    <3>2. CASE ~(i <= Len(a))
      <4>1. i - Len(a) \in 1 .. Len(b)
        BY <1>1, <3>2
      <4>2. m[i] = b[i - Len(a)] /\ q[i] = U(b)[i - Len(a)]
        BY <1>1, <2>1, <3>2
      <4> QED BY <1>1, <1>3, <4>1, <4>2
    <3> QED BY <3>1, <3>2
  <2>3. U(m) = q
    BY <1>1, <1>3, <2>1, <2>2, SeqEqual
  <2> QED BY <2>3 DEF q
<1>5. Concat(U(m)) = Concat(U(a)) \o Concat(U(b))
  BY <1>3, <1>4, ConcatJoins
<1> QED BY <1>1, <1>5 DEF Flat, C, U, m

\* A text without marks stays what it is, and a mark becomes its argument.
LEMMA FlatIs ==
    ASSUME NEW args \in Seq(Writable)
    PROVE  /\ \A m \in Seq(Codes(Len(args))) : Flat(args, m) \in AllTexts
           /\ \A s \in Seq(Nat) : s \in Seq(Codes(Len(args))) /\ Flat(args, s) = s
           /\ \A i \in 1 .. Len(args) : /\ <<-9 - i>> \in Seq(Codes(Len(args)))
                                        /\ Flat(args, <<-9 - i>>) = ToText(args[i])
<1> DEFINE C == Codes(Len(args))
           U(m) == [i \in DOMAIN m |-> Unmark(args, m[i])]
<1>1. ASSUME NEW m \in Seq(C) PROVE Flat(args, m) \in AllTexts
  <2>1. U(m) \in Seq(AllTexts)
    BY UnmarkedAre
  <2>2. PICK f : ConcatTurns(U(m), f) /\ Concat(U(m)) = f[Len(U(m))]
    <3> HIDE DEF U
    <3> QED BY <2>1, ConcatRuns
  <2>3. Len(U(m)) \in 0 .. Len(U(m))
    <3> HIDE DEF U
    <3>1. Len(U(m)) \in Nat
      BY <2>1, LenProperties
    <3> QED BY <3>1
  <2>4. f[Len(U(m))] \in AllTexts
    <3> HIDE DEF U
    <3> QED BY <2>2, <2>3 DEF ConcatTurns
  <2> QED BY <2>2, <2>4 DEF Flat
<1>2. ASSUME NEW s \in Seq(Nat) PROVE s \in Seq(C) /\ Flat(args, s) = s
  <2>1. /\ Len(s) \in Nat /\ \A i \in 1 .. Len(s) : s[i] \in Nat
        /\ s \in AllTexts
    BY LenProperties, ElementOfSeq, CharactersAre
  <2>2. s \in Seq(C)
    <3>1. \A i \in 1 .. Len(s) : s[i] \in C
      <4> HIDE DEF C
      <4>1. \A c \in Nat : c \in C
        BY DEF C, Codes
      <4> QED BY <2>1, <4>1
    <3> HIDE DEF C
    <3> QED BY <3>1
  <2>3. U(s) \in Seq(AllTexts) /\ Len(U(s)) = Len(s) /\ \A i \in 1 .. Len(s) : U(s)[i] = Unmark(args, s[i])
    BY <2>2, UnmarkedAre
  <2>4. \A i \in 1 .. Len(s) : Unmark(args, s[i]) = <<s[i]>>
    BY <2>1, UnmarkIs
  <2> HIDE DEF U
  <2>5. Concat(U(s)) = s
    BY <2>1, <2>3, <2>4, ConcatSingles
  <2> QED BY <2>2, <2>5 DEF Flat, U
<1>3. ASSUME NEW i \in 1 .. Len(args)
      PROVE  <<-9 - i>> \in Seq(C) /\ Flat(args, <<-9 - i>>) = ToText(args[i])
  <2> DEFINE c == -9 - i
  <2>1. c \in C /\ Unmark(args, c) = ToText(args[i]) /\ ToText(args[i]) \in AllTexts
    BY UnmarkIs
  <2> HIDE DEF C, c
  <2>2. <<c>> \in Seq(C)
    BY <2>1
  <2>3. [k \in DOMAIN <<c>> |-> Unmark(args, <<c>>[k])] = <<Unmark(args, c)>>
    <3>1. DOMAIN <<c>> = {1} /\ <<c>>[1] = c
      OBVIOUS
    <3>2. [k \in DOMAIN <<c>> |-> Unmark(args, <<c>>[k])] = [k \in {1} |-> Unmark(args, c)]
      BY <3>1
    <3>3. <<Unmark(args, c)>> = [k \in {1} |-> Unmark(args, c)]
      OBVIOUS
    <3> QED BY <3>2, <3>3
  <2>4. Flat(args, <<c>>) = ToText(args[i])
    BY <2>1, <2>3, ConcatFew DEF Flat
  <2> QED BY <2>2, <2>4 DEF C, c
<1> QED BY <1>1, <1>2, <1>3

\* A character in a text.
LEMMA OneCharacter ==
    ASSUME NEW s \in AllTexts, NEW p \in 0 .. Len(s) - 1
    PROVE  Part(s, p, p + 1) = <<s[p + 1]>> /\ s[p + 1] \in Int
<1>1. Len(s) \in Nat /\ (\A i \in 1 .. Len(s) : s[i] \in Int)
  BY LenProperties, ElementOfSeq DEF AllTexts
<1>2. p \in 0 .. Len(s) /\ p + 1 \in p .. Len(s) /\ (p + 1) - p = 1 /\ p + 1 \in 1 .. Len(s)
  BY <1>1
<1>3. Part(s, p, p + 1) \in Seq(Int) /\ Len(Part(s, p, p + 1)) = 1
  BY <1>2, PartIs DEF AllTexts
<1>4. Part(s, p, p + 1)[1] = s[p + 1]
  <2>1. /\ p + 1 \in Int /\ \A i \in (p + 1) .. (p + 1) : s[i] \in Int
        /\ 1 \in 1 .. (p + 1) - (p + 1) + 1 /\ (p + 1) + 1 - 1 = p + 1
    BY <1>1, <1>2
  <2>2. \A i \in 1 .. (p + 1) - (p + 1) + 1 : SubSeq(s, p + 1, p + 1)[i] = s[(p + 1) + i - 1]
    BY <2>1, SubSeqProperties
  <2> QED BY <2>1, <2>2 DEF Part
<1>5. s[p + 1] \in Int
  BY <1>1, <1>2
<1>6. Part(s, p, p + 1) = <<s[p + 1]>>
  <2>1. <<s[p + 1]>> \in Seq(Int) /\ Len(<<s[p + 1]>>) = 1 /\ <<s[p + 1]>>[1] = s[p + 1]
    BY <1>5
  <2>2. \A i \in 1 .. 1 : i = 1
    OBVIOUS
  <2> QED BY <1>3, <1>4, <2>1, <2>2, SeqEqual
<1> QED BY <1>5, <1>6

\* find finds a character where it is.
LEMMA CharacterFound ==
    ASSUME NEW s \in AllTexts, NEW c \in Int
    PROVE  /\ \A p \in 0 .. Len(s) : OccursAt(s, <<c>>, p) <=> p + 1 <= Len(s) /\ s[p + 1] = c
           /\ IndexOf(s, <<c>>) = -1 <=> \A i \in 1 .. Len(s) : s[i] # c
<1>1. Len(s) \in Nat /\ <<c>> \in AllTexts /\ Len(<<c>>) = 1
  BY LenProperties, CharactersAre DEF AllTexts
<1>2. ASSUME NEW p \in 0 .. Len(s)
      PROVE  OccursAt(s, <<c>>, p) <=> p + 1 <= Len(s) /\ s[p + 1] = c
  <2>1. CASE p + 1 <= Len(s)
    <3>1. p \in 0 .. Len(s) - 1
      BY <1>1, <2>1
    <3>2. Part(s, p, p + 1) = <<s[p + 1]>>
      BY <3>1, OneCharacter
    <3> QED BY <1>1, <2>1, <3>2 DEF OccursAt
  <2>2. CASE ~(p + 1 <= Len(s))
    BY <1>1, <2>2 DEF OccursAt
  <2> QED BY <2>1, <2>2
<1>3. \/ IndexOf(s, <<c>>) = -1 /\ \A p \in 0 .. Len(s) : ~OccursAt(s, <<c>>, p)
      \/ /\ IndexOf(s, <<c>>) \in 0 .. Len(s) /\ OccursAt(s, <<c>>, IndexOf(s, <<c>>))
         /\ \A p \in 0 .. Len(s) : OccursAt(s, <<c>>, p) => IndexOf(s, <<c>>) <= p
  <2>1. 0 \in 0 .. Len(s)
    BY <1>1
  <2> QED BY <1>1, <2>1, FindFinds DEF IndexOf
<1>4. ASSUME IndexOf(s, <<c>>) = -1, NEW i \in 1 .. Len(s) PROVE s[i] # c
  <2>1. i - 1 \in 0 .. Len(s) /\ (i - 1) + 1 = i /\ i <= Len(s)
    BY <1>1
  <2>2. ~OccursAt(s, <<c>>, i - 1)
    BY <1>1, <1>3, <1>4, <2>1
  <2> QED BY <1>2, <2>1, <2>2
<1>5. ASSUME IndexOf(s, <<c>>) # -1 PROVE \E i \in 1 .. Len(s) : s[i] = c
  <2> DEFINE p == IndexOf(s, <<c>>)
  <2>1. p \in 0 .. Len(s) /\ OccursAt(s, <<c>>, p)
    BY <1>3, <1>5
  <2> HIDE DEF p
  <2>2. p + 1 \in 1 .. Len(s) /\ s[p + 1] = c
    BY <1>1, <1>2, <2>1
  <2> QED BY <2>2
<1> QED BY <1>2, <1>4, <1>5

\* A part of a text has characters of the text.
LEMMA PartOf ==
    ASSUME NEW C, NEW s \in Seq(C), NEW from \in Nat, NEW to \in -1 .. Len(s)
    PROVE  /\ Part(s, from, to) \in Seq(C)
           /\ \A i \in 1 .. Len(Part(s, from, to)) : \E k \in 1 .. Len(s) : Part(s, from, to)[i] = s[k]
<1> DEFINE p == Part(s, from, to)
<1>1. Len(s) \in Nat /\ \A i \in 1 .. Len(s) : s[i] \in C
  BY ElementOfSeq, LenProperties
<1>2. from + 1 \in Int /\ to \in Int /\ \A i \in (from + 1) .. to : s[i] \in C
  BY <1>1
<1>3. /\ p \in Seq(C) /\ Len(p) = IF from + 1 <= to THEN to - (from + 1) + 1 ELSE 0
      /\ \A i \in 1 .. to - (from + 1) + 1 : p[i] = s[(from + 1) + i - 1]
  BY <1>2, SubSeqProperties DEF Part
<1> HIDE DEF p
<1>4. ASSUME NEW i \in 1 .. Len(p) PROVE \E k \in 1 .. Len(s) : p[i] = s[k]
  <2>1. (from + 1) + i - 1 \in 1 .. Len(s) /\ i \in 1 .. to - (from + 1) + 1
    BY <1>1, <1>2, <1>3
  <2> QED BY <1>3, <2>1
<1> QED BY <1>3, <1>4 DEF p

\* Without a colon, there is no layout in a placeholder.
LEMMA NoLayout ==
    ASSUME NEW d \in AllTexts, \A i \in 1 .. Len(d) : d[i] # Colon, Hole(d, 0).there
    PROVE  Hole(d, 0).spec = <<>>
<1> DEFINE start == FindFrom(d, <<Open>>, 0)
           end == FindFrom(d, <<Close>>, start)
           content == Part(d, start + 1, end)
<1>1. start # -1 /\ end # -1 /\ Hole(d, 0).start = start /\ Hole(d, 0).end = end
  BY DEF Hole
<1>2. Len(d) \in Nat /\ start \in Nat /\ end \in start .. Len(d)
  <2> HIDE DEF start, end
  <2>1. /\ Hole(d, 0).start \in Nat /\ Hole(d, 0).end \in Hole(d, 0).start .. Len(d)
        /\ Len(d) \in Nat
    BY HoleIs, LenProperties DEF AllTexts
  <2> QED BY <1>1, <2>1
<1>3. content \in AllTexts /\ \A i \in 1 .. Len(content) : \E k \in 1 .. Len(d) : content[i] = d[k]
  <2> HIDE DEF start, end
  <2>1. start + 1 \in Nat /\ end \in -1 .. Len(d)
    BY <1>2
  <2>2. d \in Seq(Int)
    BY DEF AllTexts
  <2>3. ASSUME NEW a \in Nat, NEW b \in -1 .. Len(d)
        PROVE  /\ Part(d, a, b) \in Seq(Int)
               /\ \A i \in 1 .. Len(Part(d, a, b)) : \E k \in 1 .. Len(d) : Part(d, a, b)[i] = d[k]
    BY <2>2, PartOf
  <2> DEFINE a == start + 1
  <2> HIDE DEF a
  <2>4. /\ Part(d, a, end) \in Seq(Int)
        /\ \A i \in 1 .. Len(Part(d, a, end)) : \E k \in 1 .. Len(d) : Part(d, a, end)[i] = d[k]
    BY <2>1, <2>3 DEF a
  <2> QED BY <2>4 DEF AllTexts, a
<1>4. Hole(d, 0).spec = IF IndexOf(content, <<Colon>>) = -1 THEN <<>>
                        ELSE Part(content, IndexOf(content, <<Colon>>) + 1, Len(content))
  BY <1>1 DEF Hole
<1> HIDE DEF content
<1>5. IndexOf(content, <<Colon>>) = -1
  <2>1. \A i \in 1 .. Len(content) : content[i] # Colon
    BY <1>3
  <2>2. Colon \in Int
    BY CharactersAre
  <2> QED BY <1>3, <2>1, <2>2, CharacterFound
<1> QED BY <1>4, <1>5

\* What is put in the place of a placeholder is the same behind another text.
LEMMA FillingBehind ==
    ASSUME NEW h \in AllTexts, NEW d \in AllTexts, Hole(d, 0).there, NEW args, NEW kwargs
    PROVE  Filling(h \o d, Hole(h \o d, Len(h)), args, kwargs) = Filling(d, Hole(d, 0), args, kwargs)
<1> DEFINE hole == Hole(h \o d, Len(h))
           here == Hole(d, 0)
           s == h \o d
<1>1. /\ hole.start = Len(h) + here.start /\ hole.end = Len(h) + here.end
      /\ hole.field = here.field /\ hole.spec = here.spec
  BY HoleBehind
<1>2. /\ here.start \in Nat /\ here.end \in here.start .. Len(d)
      /\ here.end + 1 \in here.start .. Len(d) /\ Len(d) \in Nat /\ Len(h) \in Nat
  BY HoleIs, LenProperties DEF AllTexts
<1> HIDE DEF hole, here
<1>3. Part(s, hole.start, hole.end + 1) = Part(d, here.start, here.end + 1)
  <2>1. here.start \in 0 .. Len(d) /\ hole.end + 1 = Len(h) + (here.end + 1)
    BY <1>1, <1>2
  <2>2. Part(h \o d, Len(h) + here.start, Len(h) + (here.end + 1)) = Part(d, here.start, here.end + 1)
    BY <1>2, <2>1, PartBehind
  <2> QED BY <1>1, <2>1, <2>2
<1> HIDE DEF s
<1>4. Filling(s, hole, args, kwargs) = Filling(d, here, args, kwargs)
  BY <1>1, <1>3 DEF Filling
<1> QED BY <1>4 DEF hole, here, s

\* The loop of format behind what it is done with.
Onward(h, d, taken) == [text |-> h \o d, pos |-> Len(h), taken |-> taken]
NewIn(args, kwargs, d, taken) == Filling(d, Hole(d, 0), SubSeq(args, taken + 1, Len(args)), kwargs)
TakenAt(d, taken, n) == IF Hole(d, 0).field = <<>> /\ taken < n THEN taken + 1 ELSE taken

\* It does not depend on that.
LEMMA FormatBehind ==
    ASSUME NEW args \in Seq(Basics), NEW kwargs, Named(kwargs),
           NEW h \in AllTexts, NEW d \in AllTexts, NEW taken \in 0 .. Len(args)
    PROVE  LET here == Hole(d, 0)
               new == NewIn(args, kwargs, d, taken)
               F == FormatFrom(args, kwargs)
           IN  F[Onward(h, d, taken)] =
                 CASE ~here.there -> h \o d
                   [] here.there /\ new = NoNumber -> NoNumber
                   [] OTHER -> F[Onward((h \o Part(d, 0, here.start)) \o new,
                                        Part(d, here.end + 1, Len(d)),
                                        TakenAt(d, taken, Len(args)))]
<1> DEFINE here == Hole(d, 0)
           s == h \o d
           p == Onward(h, d, taken)
           hole == Hole(p.text, p.pos)
           new == NewIn(args, kwargs, d, taken)
           F == FormatFrom(args, kwargs)
           front == (h \o Part(d, 0, here.start)) \o new
           rest == Part(d, here.end + 1, Len(d))
           next == Onward(front, rest, TakenAt(d, taken, Len(args)))
<1>1. /\ Len(h) \in Nat /\ Len(d) \in Nat /\ s \in AllTexts /\ Len(s) = Len(h) + Len(d)
      /\ Len(args) \in Nat
  BY LenProperties, ConcatProperties DEF AllTexts
<1>2. p \in Places(Len(args)) /\ p.text = s /\ p.pos = Len(h) /\ p.taken = taken
  BY <1>1 DEF Onward, Places
<1>3. F[p] = FormatStep(args, kwargs, p, F)
  <2> HIDE DEF p
  <2> QED BY <1>2, FormatRuns
<1>4. hole.there <=> here.there
  BY <1>2, HoleBehind
<1>5. CASE ~here.there
  <2>1. FormatStep(args, kwargs, p, F) = s
    BY <1>2, <1>4, <1>5 DEF FormatStep
  <2> QED BY <1>3, <1>5, <2>1
<1>6. CASE here.there
  <2>1. /\ hole.start = Len(h) + here.start /\ hole.end = Len(h) + here.end
        /\ hole.field = here.field
    BY <1>2, <1>6, HoleBehind
  <2>2. NewAt(args, kwargs, p) = new
    <3>1. Filling(h \o d, Hole(h \o d, Len(h)), SubSeq(args, taken + 1, Len(args)), kwargs)
            = Filling(d, Hole(d, 0), SubSeq(args, taken + 1, Len(args)), kwargs)
      BY <1>6, FillingBehind
    <3> QED BY <1>2, <3>1 DEF NewAt, NewIn
  <2>3. /\ here.start \in Nat /\ here.start \in 0 .. Len(d) /\ here.end + 1 \in 0 .. Len(d)
    <3>1. /\ here.start \in Nat /\ here.end \in here.start .. Len(d)
          /\ here.end + 1 \in here.start .. Len(d)
      BY <1>6, HoleIs
    <3> HIDE DEF here
    <3> QED BY <1>1, <3>1
  <2>4. new \in AllTexts
    <3>1. SubSeq(args, taken + 1, Len(args)) \in Seq(Basics)
      <4>1. taken + 1 \in Int /\ Len(args) \in Int /\ \A i \in (taken + 1) .. Len(args) : args[i] \in Basics
        BY <1>1, ElementOfSeq
      <4> QED BY <4>1, SubSeqProperties
    <3> QED BY <1>6, <3>1, FillingIs DEF NewIn
  <2>5. Part(d, 0, here.start) \in AllTexts /\ Len(Part(d, 0, here.start)) = here.start /\ rest \in AllTexts
    <3> HIDE DEF here
    <3>1. /\ 0 \in 0 .. Len(d) /\ here.start - 0 = here.start
          /\ Len(d) \in (here.end + 1) .. Len(d)
      BY <1>1, <2>3
    <3> QED BY <2>3, <3>1, PartIs
  <2>6. front \in AllTexts /\ Len(front) = hole.start + Len(new)
    <3> DEFINE a == Part(d, 0, here.start)
    <3> HIDE DEF a, new, hole, here
    <3>1. h \o a \in AllTexts /\ Len(h \o a) = Len(h) + Len(a) /\ a \in AllTexts /\ Len(a) = here.start
      BY <2>5, ConcatProperties DEF AllTexts, a
    <3>2. (h \o a) \o new \in AllTexts /\ Len((h \o a) \o new) = Len(h \o a) + Len(new)
      BY <2>4, <3>1, ConcatProperties DEF AllTexts
    <3> QED BY <2>1, <3>1, <3>2 DEF a
  <2>7. /\ Part(s, 0, hole.start) = h \o Part(d, 0, here.start)
        /\ Part(s, hole.end + 1, Len(s)) = rest
    <3>1. Part(s, 0, hole.start) = h \o Part(d, 0, here.start)
      <4>1. Len(d) \in here.start .. Len(d)
        BY <1>1, <2>3
      <4>2. Part(h \o d, 0, Len(h) + here.start) = h \o Part(d, 0, here.start)
        <5> DEFINE a == here.start
        <5>1. a \in 0 .. Len(d) /\ Len(d) \in a .. Len(d)
          BY <2>3, <4>1
        <5> HIDE DEF a
        <5>2. Part(h \o d, 0, Len(h) + a) = h \o Part(d, 0, a)
          BY <5>1, PartBehind
        <5> QED BY <5>2 DEF a
      <4> QED BY <2>1, <4>2
    <3>2. Part(s, hole.end + 1, Len(s)) = rest
      <4>1. /\ Len(d) \in (here.end + 1) .. Len(d)
            /\ hole.end + 1 = Len(h) + (here.end + 1)
        <5>1. here.end \in Int
          <6>1. here.end \in here.start .. Len(d)
            BY <1>6, HoleIs
          <6> HIDE DEF here
          <6> QED BY <6>1
        <5> HIDE DEF here, hole
        <5> QED BY <1>1, <2>1, <2>3, <5>1
      <4>2. Part(h \o d, Len(h) + (here.end + 1), Len(h) + Len(d)) = Part(d, here.end + 1, Len(d))
        BY <2>3, <4>1, PartBehind
      <4> HIDE DEF here, hole
      <4> QED BY <1>1, <4>1, <4>2
    <3> QED BY <3>1, <3>2
  <2>8. NextPlace(p, hole, new, Len(args)) = next
    <3> HIDE DEF here, hole, s, p, new
    <3>1. Part(s, 0, hole.start) \o new \o Part(s, hole.end + 1, Len(s)) = front \o rest
      BY <2>7
    <3> QED BY <1>2, <2>1, <2>6, <3>1 DEF NextPlace, Onward, TakenAt, here
  <2>9. FormatStep(args, kwargs, p, F) = IF new = NoNumber THEN NoNumber ELSE F[next]
    <3> HIDE DEF here, s, p, new, next, F
    <3> QED BY <1>4, <1>6, <2>2, <2>8 DEF FormatStep
  <2> HIDE DEF new, next, F, p
  <2> QED BY <1>3, <1>6, <2>9 DEF here, new, next, F, p
<1> QED BY <1>5, <1>6

\* The values of keywords are written without marks.
Plain(kwargs) == \A name \in DOMAIN kwargs : kwargs[name] \in Writable

\* Arguments and marks are basic values.
LEMMA MarksAre ==
    ASSUME NEW args \in Seq(Writable)
    PROVE  /\ args \in Seq(Basics) /\ Marks(args) \in Seq(Basics) /\ Len(Marks(args)) = Len(args)
           /\ \A i \in 1 .. Len(args) : Marks(args)[i] = Text(<<-9 - i>>) /\ args[i] \in Writable
           /\ \A s : ToText(Text(s)) = s
           /\ Missing \notin Writable /\ \A s : Text(s) # Missing
<1>1. Len(args) \in Nat /\ DOMAIN args = 1 .. Len(args) /\ \A i \in 1 .. Len(args) : args[i] \in Writable
  BY ElementOfSeq, LenProperties
<1>2. \A i \in 1 .. Len(args) : args[i] \in Basics
  BY <1>1, ToTextIs
<1>3. args \in Seq(Basics)
  BY <1>1, <1>2
<1>4. \A i \in 1 .. Len(args) : Text(<<-9 - i>>) \in Basics
  <2>1. \A i \in 1 .. Len(args) : <<-9 - i>> \in Seq(Int)
    OBVIOUS
  <2>2. \A s \in Seq(Int) : Text(s) \in Basics
    BY DEF Text, Value, Basics, BasicTypes
  <2> QED BY <2>1, <2>2
<1>5. Marks(args) = [i \in 1 .. Len(args) |-> Text(<<-9 - i>>)]
  BY <1>1 DEF Marks
<1> DEFINE n == Len(args)
<1>6. /\ Marks(args) \in Seq(Basics) /\ Len(Marks(args)) = n
      /\ \A i \in 1 .. n : Marks(args)[i] = Text(<<-9 - i>>)
  <2>1. n \in Nat /\ Marks(args) = [i \in 1 .. n |-> Text(<<-9 - i>>)] /\ \A i \in 1 .. n : Text(<<-9 - i>>) \in Basics
    BY <1>1, <1>4, <1>5
  <2> HIDE DEF n
  <2> QED BY <2>1
<1>7. \A s : ToText(Text(s)) = s /\ Text(s) # Missing
  BY DEF ToText, Text, Value, Missing
<1>8. Missing \notin Writable
  BY DEF Missing, Value, Writable, BasicTypes
<1> QED BY <1>1, <1>3, <1>6, <1>7, <1>8

\* A sequence without its first elements.
LEMMA Dropped ==
    ASSUME NEW S, NEW s \in Seq(S), NEW k \in 0 .. Len(s)
    PROVE  LET p == SubSeq(s, k + 1, Len(s))
           IN  DOMAIN p = 1 .. Len(s) - k /\ \A i \in 1 .. Len(s) - k : p[i] = s[k + i]
<1> DEFINE n == Len(s)
           p == SubSeq(s, k + 1, n)
<1>1. n \in Nat /\ \A i \in 1 .. n : s[i] \in S
  BY ElementOfSeq, LenProperties
<1>2. k + 1 \in Int /\ n \in Int /\ \A i \in (k + 1) .. n : s[i] \in S
  BY <1>1
<1>3. /\ p \in Seq(S) /\ Len(p) = IF k + 1 <= n THEN n - (k + 1) + 1 ELSE 0
      /\ \A i \in 1 .. n - (k + 1) + 1 : p[i] = s[(k + 1) + i - 1]
  BY <1>2, SubSeqProperties
<1> HIDE DEF p, n
<1>4. k \in 0 .. n
  BY DEF n
<1>5. Len(p) = n - k /\ DOMAIN p = 1 .. Len(p)
  BY <1>1, <1>3, <1>4
<1>6. ASSUME NEW i \in 1 .. n - k PROVE p[i] = s[k + i]
  <2>1. i \in 1 .. n - (k + 1) + 1 /\ (k + 1) + i - 1 = k + i
    BY <1>1, <1>4
  <2> QED BY <1>3, <2>1
<1> QED BY <1>5, <1>6 DEF p, n

\* Without a layout, a mark is put in where its argument is, and all else is
\* the same.
LEMMA MarksFill ==
    ASSUME NEW args \in Seq(Writable), NEW kwargs, Plain(kwargs), NEW d \in Seq(Nat),
           Hole(d, 0).there, Hole(d, 0).spec = <<>>, NEW taken \in 0 .. Len(args)
    PROVE  LET mine == NewIn(args, kwargs, d, taken)
               marked == NewIn(Marks(args), kwargs, d, taken)
           IN  /\ marked \in Seq(Codes(Len(args))) /\ Flat(args, marked) = mine
               /\ marked # NoNumber /\ mine # NoNumber
<1> DEFINE here == Hole(d, 0)
           n == Len(args)
           marks == Marks(args)
           A == SubSeq(args, taken + 1, n)
           M == SubSeq(marks, taken + 1, n)
           kept == Part(d, here.start, here.end + 1)
           mine == NewIn(args, kwargs, d, taken)
           marked == NewIn(marks, kwargs, d, taken)
           at == IF here.field = <<>> THEN 1 ELSE Decimal(LeadingDigits(here.field)) + 1
<1>1. n \in Nat /\ d \in AllTexts /\ here.field \in AllTexts
  BY LenProperties, CharactersAre, HoleIs
<1>2. at \in Int
  <2>1. Decimal(LeadingDigits(here.field)) \in Int
    BY <1>1, StartsOfNumbers, DecimalIs
  <2> QED BY <2>1
<1>3. /\ DOMAIN A = 1 .. n - taken /\ DOMAIN M = 1 .. n - taken
      /\ \A i \in 1 .. n - taken : A[i] = args[taken + i] /\ M[i] = marks[taken + i]
  <2>1. args \in Seq(Basics) /\ marks \in Seq(Basics) /\ Len(marks) = n
    BY MarksAre
  <2> HIDE DEF marks
  <2> QED BY <2>1, Dropped
<1>4. kept \in Seq(Nat)
  <2>1. here.start \in Nat /\ here.end + 1 \in here.start .. Len(d) /\ Len(d) \in Nat
    BY <1>1, HoleIs, LenProperties
  <2> HIDE DEF here
  <2> DEFINE b == here.end + 1
  <2>2. b \in -1 .. Len(d)
    BY <2>1
  <2> HIDE DEF b
  <2>3. Part(d, here.start, b) \in Seq(Nat)
    BY <2>1, <2>2, PartOf
  <2> QED BY <2>3 DEF b
<1>5. \A s \in Seq(Nat) : s # NoNumber /\ s \in Seq(Codes(n)) /\ Flat(args, s) = s
  <2>1. NoNumber \notin Seq(Nat)
    BY DEF NoNumber
  <2> QED BY <2>1, FlatIs
<1>6. Len(marks) = n
  BY MarksAre
<1>7. /\ mine = Filling(d, here, A, kwargs)
      /\ marked = Filling(d, here, M, kwargs)
  BY <1>6 DEF NewIn
<1>8. ASSUME NEW list
      PROVE  LET value == FieldValue(here.field, list, kwargs)
             IN  Filling(d, here, list, kwargs) = IF value = Missing THEN kept ELSE ToText(value)
  BY DEF Filling
<1>9. ASSUME NEW list
      PROVE  FieldValue(here.field, list, kwargs) =
               IF here.field = <<>> \/ here.field[1] \in Digits
               THEN IF at \in DOMAIN list THEN list[at] ELSE Missing
               ELSE IF here.field \in DOMAIN kwargs THEN kwargs[here.field] ELSE Missing
  BY DEF FieldValue
<1> HIDE DEF A, M, kept, mine, marked, at
<1>10. CASE (here.field = <<>> \/ here.field[1] \in Digits) /\ at \in 1 .. n - taken
  <2> DEFINE i == taken + at
  <2>1. i \in 1 .. n /\ A[at] = args[i] /\ M[at] = marks[i]
    BY <1>1, <1>2, <1>3, <1>10
  <2>2. FieldValue(here.field, A, kwargs) = A[at] /\ FieldValue(here.field, M, kwargs) = M[at]
    BY <1>3, <1>9, <1>10
  <2> HIDE DEF i, here
  <2>3. args[i] \in Writable /\ args[i] # Missing /\ marks[i] = Text(<<-9 - i>>) /\ marks[i] # Missing
    BY <2>1, MarksAre
  <2>4. mine = ToText(args[i]) /\ marked = ToText(marks[i])
    BY <1>7, <1>8, <2>1, <2>2, <2>3
  <2>5. marked = <<-9 - i>>
    BY <2>3, <2>4, MarksAre
  <2>6. <<-9 - i>> # NoNumber
    <3>1. <<-9 - i>>[1] = -9 - i /\ NoNumber[1] = -2 /\ -9 - i # -2
      BY <2>1 DEF NoNumber
    <3> QED BY <3>1
  <2>7. mine # NoNumber
    BY <2>3, <2>4, ToTextIs
  <2> QED BY <2>1, <2>4, <2>5, <2>6, <2>7, FlatIs DEF mine, marked
<1>11. CASE ~((here.field = <<>> \/ here.field[1] \in Digits) /\ at \in 1 .. n - taken)
  <2>1. /\ FieldValue(here.field, A, kwargs) = FieldValue(here.field, M, kwargs)
        /\ \/ FieldValue(here.field, A, kwargs) = Missing
           \/ FieldValue(here.field, A, kwargs) \in Writable
    <3>1. here.field \in DOMAIN kwargs => kwargs[here.field] \in Writable
      BY DEF Plain
    <3> HIDE DEF here
    <3> QED BY <1>3, <1>9, <1>11, <3>1
  <2> HIDE DEF here
  <2>2. mine = marked /\ mine \in Seq(Nat)
    BY <1>4, <1>7, <1>8, <2>1, ToTextIs
  <2> QED BY <1>5, <2>2 DEF mine, marked
<1> QED BY <1>10, <1>11

\* Without a layout, format with marks goes the way of format with arguments.
LEMMA MarksFollow ==
    ASSUME NEW args \in Seq(Writable), NEW kwargs, Plain(kwargs),
           NEW s \in Seq(Nat), \A i \in 1 .. Len(s) : s[i] # Colon
    PROVE  \A j \in 0 .. Len(s) : \A h \in Seq(Codes(Len(args))), taken \in 0 .. Len(args) :
              FormatFrom(args, kwargs)[Onward(Flat(args, h), Part(s, j, Len(s)), taken)]
                = Flat(args, FormatFrom(Marks(args), kwargs)[Onward(h, Part(s, j, Len(s)), taken)])
<1> DEFINE n == Len(args)
           N == Len(s)
           C == Seq(Codes(n))
           F == FormatFrom(args, kwargs)
           G == FormatFrom(Marks(args), kwargs)
           Rest(j) == Part(s, j, N)
           Goal(j, h, taken) == F[Onward(Flat(args, h), Rest(j), taken)] = Flat(args, G[Onward(h, Rest(j), taken)])
           T == {j \in 0 .. N : \A h \in C, taken \in 0 .. n : Goal(j, h, taken)}
<1>1. /\ N \in Nat /\ n \in Nat /\ s \in AllTexts /\ Named(kwargs)
      /\ args \in Seq(Basics) /\ Marks(args) \in Seq(Basics) /\ Len(Marks(args)) = n
  BY LenProperties, CharactersAre, MarksAre, ToTextIs DEF Named, Plain
<1>2. ASSUME NEW a \in C, NEW b \in C PROVE a \o b \in C /\ Flat(args, a \o b) = Flat(args, a) \o Flat(args, b)
  BY FlatJoins
<1>3. ASSUME NEW a \in Nat, NEW b \in -1 .. N
      PROVE  /\ Part(s, a, b) \in Seq(Nat)
             /\ \A i \in 1 .. Len(Part(s, a, b)) : \E k \in 1 .. N : Part(s, a, b)[i] = s[k]
  <2> HIDE DEF C, F, G, T
  <2>1. Part(s, a, b) \in Seq(Nat)
    BY PartOf
  <2>2. \A i \in 1 .. Len(Part(s, a, b)) : \E k \in 1 .. N : Part(s, a, b)[i] = s[k]
    BY PartOf
  <2> QED BY <2>1, <2>2
<1>4. ASSUME NEW j \in 0 .. N, \A m \in (j + 1) .. N : m \in T PROVE j \in T
  <2> SUFFICES ASSUME NEW h \in C, NEW taken \in 0 .. n PROVE Goal(j, h, taken)
    OBVIOUS
  <2> DEFINE d == Rest(j)
             here == Hole(d, 0)
             before == Part(d, 0, here.start)
             rest == Part(d, here.end + 1, Len(d))
             mine == NewIn(args, kwargs, d, taken)
             marked == NewIn(Marks(args), kwargs, d, taken)
             f == Flat(args, h)
             next == TakenAt(d, taken, n)
  <2>1. d \in Seq(Nat) /\ d \in AllTexts /\ Len(d) = N - j /\ \A i \in 1 .. Len(d) : d[i] # Colon
    <3>1. j \in Nat /\ N \in -1 .. N /\ j \in 0 .. N /\ N \in j .. N
      BY <1>1
    <3>2. d \in Seq(Nat) /\ \A i \in 1 .. Len(d) : \E k \in 1 .. N : d[i] = s[k]
      BY <1>3, <3>1
    <3>3. Len(d) = N - j
      BY <1>1, <3>1, PartIs
    <3> HIDE DEF d
    <3> QED BY <3>2, <3>3, CharactersAre
  <2>2. h \in AllTexts /\ f \in AllTexts /\ h \in C
    BY UnmarkedAre, FlatIs
  <2>3. F[Onward(f, d, taken)] =
          CASE ~here.there -> f \o d
            [] here.there /\ mine = NoNumber -> NoNumber
            [] OTHER -> F[Onward((f \o before) \o mine, rest, next)]
    <3> HIDE DEF d, f, F
    <3> QED BY <1>1, <2>1, <2>2, FormatBehind DEF F
  <2>4. G[Onward(h, d, taken)] =
          CASE ~here.there -> h \o d
            [] here.there /\ marked = NoNumber -> NoNumber
            [] OTHER -> G[Onward((h \o before) \o marked, rest, next)]
    <3> HIDE DEF d, f, G
    <3> QED BY <1>1, <2>1, <2>2, FormatBehind DEF G
  <2>5. CASE ~here.there
    <3>1. F[Onward(f, d, taken)] = f \o d /\ G[Onward(h, d, taken)] = h \o d
      BY <2>3, <2>4, <2>5
    <3>2. Flat(args, h \o d) = f \o d
      <4> HIDE DEF d
      <4>1. d \in C /\ Flat(args, d) = d
        BY <2>1, FlatIs
      <4> HIDE DEF C
      <4>2. h \in C
        BY <2>2
      <4>3. Flat(args, h \o d) = Flat(args, h) \o Flat(args, d)
        BY <1>2, <4>1, <4>2
      <4> QED BY <4>1, <4>3
    <3> QED BY <3>1, <3>2
  <2>6. CASE here.there
    <3>1. /\ here.start \in Nat /\ here.start \in 0 .. Len(d) /\ here.end \in Nat
          /\ here.end + 1 \in 0 .. Len(d)
      <4>1. /\ here.start \in Nat /\ here.end \in here.start .. Len(d)
            /\ here.end + 1 \in here.start .. Len(d) /\ Len(d) \in Nat
        <5> HIDE DEF d
        <5> QED BY <2>1, <2>6, HoleIs, LenProperties
      <4> HIDE DEF here, d
      <4> QED BY <4>1
    <3>2. marked \in C /\ Flat(args, marked) = mine /\ marked # NoNumber /\ mine # NoNumber
      <4> HIDE DEF d
      <4>1. here.spec = <<>>
        BY <2>1, <2>6, NoLayout
      <4> QED BY <2>1, <2>6, <4>1, MarksFill
    <3>3. before \in C /\ Flat(args, before) = before
      <4>1. 0 \in Nat /\ here.start \in -1 .. Len(d)
        BY <3>1
      <4>2. before \in Seq(Nat)
        <5> DEFINE a == here.start
        <5> HIDE DEF d, a
        <5>1. Part(d, 0, a) \in Seq(Nat)
          BY <2>1, <4>1, PartOf DEF a
        <5> QED BY <5>1 DEF a
      <4> HIDE DEF before
      <4> QED BY <4>2, FlatIs
    <3>4. rest = Rest(j + here.end + 1) /\ j + here.end + 1 \in (j + 1) .. N
      <4> DEFINE b == here.end + 1
      <4>1. b \in 1 .. Len(d) /\ j + b \in (j + 1) .. N
        <5> DEFINE L == Len(d)
                   e == here.end
        <5>1. L = N - j /\ e \in Nat /\ e + 1 \in 0 .. L /\ N \in Nat /\ j \in 0 .. N
          BY <1>1, <2>1, <3>1
        <5> HIDE DEF L, e, N
        <5>2. e + 1 \in 1 .. L /\ j + (e + 1) \in (j + 1) .. N
          BY ONLY <5>1
        <5> QED BY <5>2 DEF L, e
      <4>2. Part(s, 0, j) \o d = s
        <5>1. 0 \in 0 .. Len(s) /\ j \in 0 .. Len(s) /\ N \in j .. Len(s)
          BY <1>1
        <5> QED BY <1>1, <5>1, PartsAdjoin, WholePart
      <4>3. Part(s, 0, j) \in AllTexts /\ Len(Part(s, 0, j)) = j
        <5>1. 0 \in 0 .. Len(s) /\ j \in 0 .. Len(s) /\ j - 0 = j
          BY <1>1
        <5> QED BY <1>1, <5>1, PartIs
      <4>4. Part(Part(s, 0, j) \o d, Len(Part(s, 0, j)) + b, Len(Part(s, 0, j)) + Len(d)) = Part(d, b, Len(d))
        <5> HIDE DEF d, b
        <5>1. b \in 0 .. Len(d) /\ Len(d) \in b .. Len(d)
          BY <4>1
        <5> QED BY <2>1, <4>3, <5>1, PartBehind
      <4>5. j + Len(d) = N /\ j + b = j + here.end + 1
        <5> HIDE DEF here, d
        <5> QED BY <1>1, <2>1, <3>1
      <4> HIDE DEF b, d
      <4>6. Part(s, j + b, N) = Part(d, b, Len(d))
        BY <4>2, <4>3, <4>4, <4>5
      <4> QED BY <4>1, <4>5, <4>6 DEF b
    <3> DEFINE g == (h \o before) \o marked
               m == j + here.end + 1
    <3>5. g \in C /\ Flat(args, g) = (f \o before) \o mine
      <4> HIDE DEF before, marked, mine, C
      <4>1. h \in C
        BY <2>2
      <4>2. h \o before \in C /\ Flat(args, h \o before) = Flat(args, h) \o Flat(args, before)
        BY <1>2, <3>3, <4>1
      <4>3. /\ (h \o before) \o marked \in C
            /\ Flat(args, (h \o before) \o marked) = Flat(args, h \o before) \o Flat(args, marked)
        BY <1>2, <3>2, <4>2
      <4> QED BY <3>2, <3>3, <4>2, <4>3
    <3>6. next \in 0 .. n
      <4> HIDE DEF here, d
      <4> QED BY <1>1 DEF TakenAt
    <3>7. m \in T
      BY <1>4, <3>4
    <3> HIDE DEF m, g, here, d, before, marked, mine, rest, next, f
    <3>8. Goal(m, g, next)
      BY <3>5, <3>6, <3>7
    <3>9. F[Onward(f, d, taken)] = F[Onward(Flat(args, g), Rest(m), next)]
      BY <2>3, <2>6, <3>2, <3>4, <3>5 DEF m
    <3>10. G[Onward(h, d, taken)] = G[Onward(g, Rest(m), next)]
      BY <2>4, <2>6, <3>2, <3>4 DEF g, m
    <3>11. F[Onward(f, d, taken)] = Flat(args, G[Onward(h, d, taken)])
      BY <3>8, <3>9, <3>10
    <3> QED BY <3>11 DEF f, d
  <2> QED BY <2>5, <2>6
<1>5. T = 0 .. N
  <2>1. 0 \in Nat /\ N \in Nat /\ T \subseteq 0 .. N
    BY <1>1
  <2> HIDE DEF T, N
  <2> QED BY <1>4, <2>1, InductionDown
<1>6. ASSUME NEW j \in 0 .. N, NEW h \in C, NEW taken \in 0 .. n PROVE Goal(j, h, taken)
  <2>1. j \in T
    <3> HIDE DEF T
    <3> QED BY <1>5
  <2> QED BY <2>1
<1> QED BY <1>6

\* Without a layout, format puts the arguments where it puts their marks.
LEMMA MarksAgree ==
    ASSUME NEW args \in Seq(Writable), NEW kwargs, Plain(kwargs),
           NEW s \in Seq(Nat), IndexOf(s, <<Colon>>) = -1
    PROVE  Format(s, args, kwargs) = Flat(args, Format(s, Marks(args), kwargs))
<1>1. s \in AllTexts /\ Len(s) \in Nat /\ Len(args) \in Nat /\ Colon \in Int
  BY LenProperties, CharactersAre
<1>2. \A i \in 1 .. Len(s) : s[i] # Colon
  BY <1>1, CharacterFound
<1>3. Part(s, 0, Len(s)) = s /\ <<>> \o s = s
  BY <1>1, WholePart, Behind
<1>4. <<>> \in Seq(Codes(Len(args))) /\ Flat(args, <<>>) = <<>>
  <2>1. <<>> \in Seq(Nat)
    BY CharactersAre
  <2> QED BY <2>1, FlatIs
<1>5. Onward(<<>>, Part(s, 0, Len(s)), 0) = [text |-> s, pos |-> 0, taken |-> 0]
  BY <1>3, EmptySeq DEF Onward
<1>6. FormatFrom(args, kwargs)[Onward(Flat(args, <<>>), Part(s, 0, Len(s)), 0)]
        = Flat(args, FormatFrom(Marks(args), kwargs)[Onward(<<>>, Part(s, 0, Len(s)), 0)])
  <2>1. 0 \in 0 .. Len(s) /\ 0 \in 0 .. Len(args)
    BY <1>1
  <2> QED BY <1>2, <1>4, <2>1, MarksFollow
<1> QED BY <1>4, <1>5, <1>6, FormatIs

----------------------------------------------------------------------------
(* What trim takes away.                                                   *)

\* A part of the first of two texts.
LEMMA PartBefore ==
    ASSUME NEW h \in AllTexts, NEW d \in AllTexts, NEW i \in 0 .. Len(h), NEW j \in i .. Len(h)
    PROVE  Part(h \o d, i, j) = Part(h, i, j)
<1> DEFINE s == h \o d
<1>1. /\ Len(h) \in Nat /\ Len(d) \in Nat /\ s \in AllTexts /\ Len(s) = Len(h) + Len(d)
      /\ \A k \in 1 .. Len(h) + Len(d) : s[k] = IF k <= Len(h) THEN h[k] ELSE d[k - Len(h)]
  BY LenProperties, ConcatProperties DEF AllTexts
<1>2. \A k \in 1 .. Len(h) : h[k] \in Int
  BY ElementOfSeq DEF AllTexts
<1> HIDE DEF s
<1>3. \A k \in 1 .. Len(h) : s[k] = h[k]
  BY <1>1
<1> DEFINE p == Part(s, i, j)
           q == Part(h, i, j)
<1>4. /\ p \in Seq(Int) /\ Len(p) = IF i + 1 <= j THEN j - (i + 1) + 1 ELSE 0
      /\ \A k \in 1 .. j - (i + 1) + 1 : p[k] = s[(i + 1) + k - 1]
  <2>1. i + 1 \in Int /\ j \in Int /\ \A k \in (i + 1) .. j : s[k] \in Int
    BY <1>1, <1>2, <1>3
  <2> QED BY <2>1, SubSeqProperties DEF Part
<1>5. /\ q \in Seq(Int) /\ Len(q) = IF i + 1 <= j THEN j - (i + 1) + 1 ELSE 0
      /\ \A k \in 1 .. j - (i + 1) + 1 : q[k] = h[(i + 1) + k - 1]
  <2>1. i + 1 \in Int /\ j \in Int /\ \A k \in (i + 1) .. j : h[k] \in Int
    BY <1>1, <1>2
  <2> QED BY <2>1, SubSeqProperties DEF Part
<1> HIDE DEF p, q
<1>6. Len(p) = j - i /\ Len(q) = j - i
  BY <1>1, <1>4, <1>5
<1>7. ASSUME NEW k \in 1 .. Len(p) PROVE p[k] = q[k]
  <2>1. k \in 1 .. j - (i + 1) + 1 /\ (i + 1) + k - 1 \in 1 .. Len(h)
    BY <1>1, <1>6
  <2> QED BY <1>3, <1>4, <1>5, <2>1
<1>8. p = q
  BY <1>4, <1>5, <1>6, <1>7, SeqEqual
<1> QED BY <1>8 DEF p, q, s

\* The characters that trim keeps.
KeptOf(s) == {i \in DOMAIN s : s[i] \notin Blanks}
AllBlank(b) == \A i \in 1 .. Len(b) : b[i] \in Blanks

\* Blanks before a text make no difference to trim.
LEMMA TrimFront ==
    ASSUME NEW b \in AllTexts, AllBlank(b), NEW t \in AllTexts
    PROVE  Trim(b \o t) = Trim(t)
<1> DEFINE s == b \o t
           K == KeptOf(t)
           J == KeptOf(s)
           B == Len(b)
<1>1. /\ B \in Nat /\ Len(t) \in Nat /\ s \in AllTexts /\ Len(s) = B + Len(t)
      /\ DOMAIN s = 1 .. B + Len(t) /\ DOMAIN t = 1 .. Len(t)
      /\ \A k \in 1 .. B + Len(t) : s[k] = IF k <= B THEN b[k] ELSE t[k - B]
  <2>1. s \in Seq(Int) /\ Len(s) = B + Len(t) /\ B \in Nat /\ Len(t) \in Nat
    BY LenProperties, ConcatProperties DEF AllTexts
  <2>2. \A k \in 1 .. B + Len(t) : s[k] = IF k <= B THEN b[k] ELSE t[k - B]
    BY ConcatProperties DEF AllTexts
  <2> HIDE DEF s
  <2> QED BY <2>1, <2>2 DEF AllTexts
<1> HIDE DEF s
<1>2. ASSUME NEW k \in K PROVE B + k \in J /\ k \in 1 .. Len(t)
  <2>1. k \in 1 .. Len(t) /\ t[k] \notin Blanks
    BY <1>1 DEF KeptOf
  <2>2. B + k \in 1 .. B + Len(t) /\ ~(B + k <= B) /\ (B + k) - B = k
    BY <1>1, <2>1
  <2> QED BY <1>1, <2>1, <2>2 DEF KeptOf
<1>3. ASSUME NEW k \in J PROVE k - B \in K /\ k \in 1 .. B + Len(t)
  <2>1. k \in 1 .. B + Len(t) /\ s[k] \notin Blanks
    BY <1>1 DEF KeptOf
  <2>2. ~(k <= B)
    <3>1. k <= B => k \in 1 .. B
      BY <1>1, <2>1
    <3> QED BY <1>1, <2>1, <3>1 DEF AllBlank
  <2>3. k - B \in 1 .. Len(t) /\ s[k] = t[k - B]
    BY <1>1, <2>1, <2>2
  <2> QED BY <1>1, <2>1, <2>3 DEF KeptOf
<1>4. Trim(s) = (IF J = {} THEN <<>> ELSE SubSeq(s, Min(J), Max(J)))
  BY DEF Trim, KeptOf
<1>5. Trim(t) = (IF K = {} THEN <<>> ELSE SubSeq(t, Min(K), Max(K)))
  BY DEF Trim, KeptOf
<1> HIDE DEF J, K
<1>6. CASE K = {}
  <2>1. J = {}
    BY <1>3, <1>6
  <2> QED BY <1>4, <1>5, <1>6, <2>1 DEF s
<1>7. CASE K # {}
  <2>1. J # {}
    BY <1>2, <1>7
  <2>2. K \subseteq Nat /\ K \subseteq 1 .. Len(t) /\ J \subseteq Nat /\ J \subseteq 1 .. B + Len(t)
    BY <1>1, <1>2, <1>3
  <2>3. Min(K) \in K /\ (\A y \in K : Min(K) <= y) /\ Max(K) \in K /\ \A y \in K : y <= Max(K)
    <3> HIDE DEF K
    <3> QED BY <1>1, <1>7, <2>2, MinIsSmallest, LastPlace
  <2>4. Min(J) \in J /\ (\A y \in J : Min(J) <= y) /\ Max(J) \in J /\ \A y \in J : y <= Max(J)
    <3>1. B + Len(t) \in Nat
      BY <1>1
    <3> QED BY <2>1, <2>2, <3>1, MinIsSmallest, LastPlace
  <2> DEFINE low == Min(K)
             high == Max(K)
             l == Min(J)
             r == Max(J)
  <2> HIDE DEF low, high, l, r
  <2>5. l = B + low /\ r = B + high
    <3>1. B + low \in J /\ B + high \in J /\ l - B \in K /\ r - B \in K
      BY <1>2, <1>3, <2>3, <2>4 DEF low, high, l, r
    <3>2. l <= B + low /\ B + high <= r /\ low <= l - B /\ r - B <= high
      BY <2>3, <2>4, <3>1 DEF low, high, l, r
    <3>3. l \in Nat /\ r \in Nat /\ low \in Nat /\ high \in Nat
      BY <2>2, <2>3, <2>4 DEF low, high, l, r
    <3> QED BY <1>1, <3>2, <3>3
  <2>6. low \in 1 .. Len(t) /\ high \in low .. Len(t)
    <3>1. low \in 1 .. Len(t) /\ high \in 1 .. Len(t) /\ low <= high
      BY <2>2, <2>3 DEF low, high
    <3> QED BY <1>1, <3>1
  <2>7. Part(s, B + (low - 1), B + high) = Part(t, low - 1, high)
    <3>1. low - 1 \in 0 .. Len(t) /\ high \in (low - 1) .. Len(t)
      BY <1>1, <2>6
    <3>2. Part(b \o t, B + (low - 1), B + high) = Part(t, low - 1, high)
      BY <3>1, PartBehind
    <3> QED BY <3>2 DEF s
  <2>8. B + (low - 1) + 1 = B + low /\ low - 1 + 1 = low
    BY <1>1, <2>6
  <2>9. SubSeq(s, l, r) = SubSeq(t, low, high)
    BY <2>5, <2>7, <2>8 DEF Part
  <2> QED BY <1>4, <1>5, <1>7, <2>1, <2>9 DEF low, high, l, r, s
<1> QED BY <1>6, <1>7

\* Blanks behind it make none.
LEMMA TrimBack ==
    ASSUME NEW b \in AllTexts, AllBlank(b), NEW t \in AllTexts
    PROVE  Trim(t \o b) = Trim(t)
<1> DEFINE s == t \o b
           K == KeptOf(t)
           n == Len(t)
<1>1. /\ n \in Nat /\ Len(b) \in Nat /\ s \in AllTexts /\ Len(s) = n + Len(b)
      /\ DOMAIN s = 1 .. n + Len(b) /\ DOMAIN t = 1 .. n
      /\ \A k \in 1 .. n + Len(b) : s[k] = IF k <= n THEN t[k] ELSE b[k - n]
  <2>1. s \in Seq(Int) /\ Len(s) = n + Len(b) /\ n \in Nat /\ Len(b) \in Nat
    BY LenProperties, ConcatProperties DEF AllTexts
  <2>2. \A k \in 1 .. n + Len(b) : s[k] = IF k <= n THEN t[k] ELSE b[k - n]
    BY ConcatProperties DEF AllTexts
  <2> HIDE DEF s
  <2> QED BY <2>1, <2>2 DEF AllTexts
<1> HIDE DEF s
<1>2. KeptOf(s) = K
  <2>1. ASSUME NEW k \in 1 .. n PROVE k \in 1 .. n + Len(b) /\ s[k] = t[k]
    BY <1>1
  <2>2. ASSUME NEW k \in 1 .. n + Len(b), s[k] \notin Blanks PROVE k \in 1 .. n
    <3>1. ~(k <= n) => k - n \in 1 .. Len(b) /\ s[k] = b[k - n]
      BY <1>1
    <3>2. k <= n
      BY <2>2, <3>1 DEF AllBlank
    <3> QED BY <1>1, <3>2
  <2> QED BY <1>1, <2>1, <2>2 DEF KeptOf
<1>3. Trim(s) = (IF K = {} THEN <<>> ELSE SubSeq(s, Min(K), Max(K)))
  BY <1>2 DEF Trim, KeptOf
<1>4. Trim(t) = (IF K = {} THEN <<>> ELSE SubSeq(t, Min(K), Max(K)))
  BY DEF Trim, KeptOf
<1>5. K \subseteq 1 .. n /\ K \subseteq Nat
  BY <1>1 DEF KeptOf
<1> HIDE DEF K
<1>6. ASSUME K # {} PROVE SubSeq(s, Min(K), Max(K)) = SubSeq(t, Min(K), Max(K))
  <2> DEFINE low == Min(K)
             high == Max(K)
  <2>1. low \in K /\ high \in K /\ low <= high
    <3>1. Min(K) \in K /\ \A y \in K : Min(K) <= y
      BY <1>5, <1>6, MinIsSmallest
    <3>2. Max(K) \in K
      <4> HIDE DEF n
      <4> QED BY <1>1, <1>5, <1>6, LastPlace
    <3> QED BY <3>1, <3>2
  <2> HIDE DEF low, high
  <2>2. low - 1 \in 0 .. n /\ high \in (low - 1) .. n /\ low - 1 + 1 = low
    BY <1>1, <1>5, <2>1
  <2>3. Part(s, low - 1, high) = Part(t, low - 1, high)
    <3> DEFINE a == low - 1
    <3>1. a \in 0 .. Len(t) /\ high \in a .. Len(t)
      BY <2>2
    <3> HIDE DEF a
    <3>2. Part(t \o b, a, high) = Part(t, a, high)
      BY <3>1, PartBefore
    <3>3. s = t \o b
      BY DEF s
    <3> QED BY <3>2, <3>3 DEF a
  <2>4. SubSeq(s, low, high) = SubSeq(t, low, high)
    BY <2>2, <2>3 DEF Part
  <2> QED BY <2>4 DEF low, high
<1>7. Trim(s) = Trim(t)
  <2>1. CASE K = {}
    BY <1>3, <1>4, <2>1
  <2>2. CASE K # {}
    <3>1. SubSeq(s, Min(K), Max(K)) = SubSeq(t, Min(K), Max(K))
      BY <1>6, <2>2
    <3>2. Trim(s) = SubSeq(s, Min(K), Max(K)) /\ Trim(t) = SubSeq(t, Min(K), Max(K))
      BY <1>3, <1>4, <2>2
    <3> QED BY <3>1, <3>2
  <2> QED BY <2>1, <2>2
<1> QED BY <1>7 DEF s

\* So a text at a width is the text, but for blanks.
LEMMA TrimPadded ==
    ASSUME NEW t \in AllTexts, NEW n \in Int
    PROVE  Trim(Padded(t, n)) = Trim(t)
<1>1. ASSUME NEW m \in Int PROVE Times(m, Blank) \in AllTexts /\ AllBlank(Times(m, Blank))
  <2>1. Blank \in Int /\ Blank \in Blanks
    BY CharactersAre, FormatsAssumption
  <2>2. /\ Times(m, Blank) \in AllTexts /\ Len(Times(m, Blank)) = IF m > 0 THEN m ELSE 0
        /\ \A i \in 1 .. m : Times(m, Blank)[i] = Blank
    BY <2>1, TimesIs
  <2>3. \A i \in 1 .. Len(Times(m, Blank)) : i \in 1 .. m
    BY <2>2
  <2> QED BY <2>1, <2>2, <2>3 DEF AllBlank
<1>2. Len(t) \in Nat
  BY LenProperties DEF AllTexts
<1>3. n - Len(t) \in Int /\ -n - Len(t) \in Int
  BY <1>2
<1> QED BY <1>1, <1>3, TrimFront, TrimBack DEF Padded

\* A text with one placeholder alone, with a layout and without a field.
LEMMA AloneIs ==
    ASSUME NEW s \in AllTexts, Alone(s), IndexOf(s, <<Colon>>) = 1
    PROVE  LET hole == Hole(s, 0)
           IN  /\ Len(s) \in Nat /\ Len(s) > 2 /\ hole.there
               /\ hole.start = 0 /\ hole.end = Len(s) - 1 /\ hole.field = <<>>
<1> DEFINE L == Len(s)
           start == FindFrom(s, <<Open>>, 0)
           end == FindFrom(s, <<Close>>, 0)
           content == Part(s, 1, end)
<1>1. /\ L \in Nat \ {0} /\ s[1] = Open /\ s[L] = Close
      /\ \A i \in 2 .. L - 1 : s[i] \notin {Open, Close}
      /\ Open \in Int /\ Close \in Int /\ Colon \in Int
      /\ <<Open>> \in AllTexts /\ <<Close>> \in AllTexts /\ <<Colon>> \in AllTexts
      /\ Colon # Open /\ Colon # Close /\ Open # Close
  BY EmptySeq, CharactersAre, FormatsAssumption DEF Alone, AllTexts
<1>2. ASSUME NEW c \in Int, NEW p \in 0 .. L
      PROVE  OccursAt(s, <<c>>, p) <=> p + 1 <= L /\ s[p + 1] = c
  BY CharacterFound
<1>3. 0 \in 0 .. L
  BY <1>1
<1>4. L > 2 /\ s[2] = Colon
  <2>1. /\ 1 \in 0 .. L /\ OccursAt(s, <<Colon>>, 1)
    <3>1. IndexOf(s, <<Colon>>) \in 0 .. Len(s) /\ OccursAt(s, <<Colon>>, IndexOf(s, <<Colon>>))
      BY <1>1, <1>3, FindFinds DEF IndexOf
    <3> QED BY <3>1
  <2>2. 1 + 1 <= L /\ s[1 + 1] = Colon
    BY <1>1, <1>2, <2>1
  <2>3. 1 + 1 = 2
    OBVIOUS
  <2>4. s[2] = Colon /\ 2 <= L
    BY <2>2, <2>3
  <2>5. L # 2
    BY <1>1, <2>4
  <2> HIDE DEF L
  <2> QED BY <1>1, <2>4, <2>5
<1>5. start = 0
  <2>1. \/ start = -1 /\ \A p \in 0 .. L : ~OccursAt(s, <<Open>>, p)
        \/ /\ start \in 0 .. L /\ OccursAt(s, <<Open>>, start)
           /\ \A p \in 0 .. L : OccursAt(s, <<Open>>, p) => start <= p
    BY <1>1, <1>3, FindFinds
  <2>2. OccursAt(s, <<Open>>, 0)
    <3>1. 0 + 1 <= L /\ 0 + 1 = 1
      BY <1>1
    <3> HIDE DEF L
    <3> QED BY <1>1, <1>2, <1>3, <3>1
  <2> HIDE DEF start, L
  <2> QED BY <1>1, <1>3, <2>1, <2>2
<1>6. end = L - 1
  <2>1. \/ end = -1 /\ \A p \in 0 .. L : ~OccursAt(s, <<Close>>, p)
        \/ /\ end \in 0 .. L /\ OccursAt(s, <<Close>>, end)
           /\ \A p \in 0 .. L : OccursAt(s, <<Close>>, p) => end <= p
    BY <1>1, <1>3, FindFinds
  <2> HIDE DEF end, L
  <2>2. L - 1 \in 0 .. L /\ OccursAt(s, <<Close>>, L - 1)
    <3>1. L - 1 \in 0 .. L /\ (L - 1) + 1 <= L /\ (L - 1) + 1 = L
      BY <1>1
    <3> QED BY <1>1, <1>2, <3>1
  <2>3. end \in 0 .. L /\ OccursAt(s, <<Close>>, end) /\ end <= L - 1
    BY <2>1, <2>2
  <2>4. end + 1 <= L /\ s[end + 1] = Close
    BY <1>1, <1>2, <2>3
  <2>5. end + 1 # 1 /\ end + 1 \notin 2 .. L - 1
    BY <1>1, <2>4
  <2> QED BY <1>1, <2>3, <2>5
<1>7. /\ Hole(s, 0).start = 0 /\ Hole(s, 0).end = L - 1 /\ Hole(s, 0).there
  <2>1. Hole(s, 0).start = start
    BY DEF Hole
  <2>2. Hole(s, 0).end = end
    <3>1. start # -1
      BY <1>5
    <3> QED BY <1>5, <3>1 DEF Hole
  <2> HIDE DEF start, end, L
  <2>3. Hole(s, 0).start = 0 /\ Hole(s, 0).end = L - 1
    BY <1>5, <1>6, <2>1, <2>2
  <2> DEFINE a == Hole(s, 0).start
             b == Hole(s, 0).end
             last == L - 1
  <2>4. a # -1 /\ b # -1
    <3>1. a = 0 /\ b = last
      BY <2>3
    <3>2. last \in Nat
      BY <1>1 DEF L
    <3> HIDE DEF a, b, last
    <3> QED BY ONLY <3>1, <3>2
  <2>5. Hole(s, 0).there
    <3>1. Hole(s, 0).there = (Hole(s, 0).start # -1 /\ Hole(s, 0).end # -1)
      BY DEF Hole
    <3> QED BY <2>4, <3>1
  <2> QED BY <2>3, <2>5
<1>8. content \in AllTexts /\ Len(content) = L - 2 /\ content[1] = Colon
  <2> HIDE DEF end, content
  <2>1. 1 \in 0 .. Len(s) /\ L - 1 \in 1 .. Len(s) /\ (L - 1) - 1 = L - 2
    BY <1>4
  <2>2. Part(s, 1, L - 1) \in AllTexts /\ Len(Part(s, 1, L - 1)) = L - 2
    BY <2>1, PartIs
  <2>3. Part(s, 1, L - 1)[1] = s[2]
    <3>1. /\ 1 + 1 \in Int /\ L - 1 \in Int /\ 1 \in 1 .. (L - 1) - (1 + 1) + 1 /\ (1 + 1) + 1 - 1 = 2
          /\ \A i \in (1 + 1) .. (L - 1) : i \in 1 .. L
      BY <1>1, <1>4
    <3>2. \A i \in (1 + 1) .. (L - 1) : s[i] \in Int
      BY <3>1, ElementOfSeq DEF AllTexts
    <3>3. \A i \in 1 .. (L - 1) - (1 + 1) + 1 : SubSeq(s, 1 + 1, L - 1)[i] = s[(1 + 1) + i - 1]
      <4> DEFINE two == 1 + 1
                 to == L - 1
      <4>1. two \in Int /\ to \in Int /\ \A i \in two .. to : s[i] \in Int
        BY <3>1, <3>2
      <4> HIDE DEF two, to
      <4>2. \A i \in 1 .. to - two + 1 : SubSeq(s, two, to)[i] = s[two + i - 1]
        BY <4>1, SubSeqProperties
      <4> QED BY <4>2 DEF two, to
    <3>4. SubSeq(s, 1 + 1, L - 1)[1] = s[(1 + 1) + 1 - 1]
      BY <3>1, <3>3
    <3> QED BY <3>1, <3>4 DEF Part
  <2>4. content = Part(s, 1, L - 1)
    BY <1>6 DEF content
  <2> QED BY <1>4, <2>2, <2>3, <2>4
<1>9. Hole(s, 0).field = LET colon == IndexOf(content, <<Colon>>)
                         IN  IF colon = -1 THEN content ELSE Part(content, 0, colon)
  <2>1. ASSUME NEW t, t = Part(s, FindFrom(s, <<Open>>, 0) + 1,
                               FindFrom(s, <<Close>>, FindFrom(s, <<Open>>, 0))),
               FindFrom(s, <<Open>>, 0) # -1
        PROVE  Hole(s, 0).field = LET colon == IndexOf(t, <<Colon>>)
                                  IN  IF colon = -1 THEN t ELSE Part(t, 0, colon)
    BY <2>1 DEF Hole
  <2>2. 0 + 1 = 1 /\ 0 # -1
    OBVIOUS
  <2> QED BY <1>5, <2>1, <2>2
<1> HIDE DEF content
<1>10. IndexOf(content, <<Colon>>) = 0
  <2> DEFINE colon == FindFrom(content, <<Colon>>, 0)
  <2>1. L - 2 \in Nat /\ 0 \in 0 .. Len(content) /\ 0 + 1 <= Len(content) /\ 0 + 1 = 1
    BY <1>4, <1>8
  <2>2. OccursAt(content, <<Colon>>, 0)
    BY <1>1, <1>8, <2>1, CharacterFound
  <2>3. \/ colon = -1 /\ \A p \in 0 .. Len(content) : ~OccursAt(content, <<Colon>>, p)
        \/ /\ colon \in 0 .. Len(content) /\ OccursAt(content, <<Colon>>, colon)
           /\ \A p \in 0 .. Len(content) : OccursAt(content, <<Colon>>, p) => colon <= p
    BY <1>1, <1>8, <2>1, FindFinds
  <2> HIDE DEF colon
  <2>4. colon = 0
    BY <2>1, <2>2, <2>3
  <2> QED BY <2>4 DEF colon, IndexOf
<1>11. Part(content, 0, 0) = <<>>
  <2>1. 0 \in Int /\ 0 <= 0
    OBVIOUS
  <2> QED BY <1>8, <2>1, NoPart
<1>12. Hole(s, 0).field = <<>>
  BY <1>9, <1>10, <1>11
<1> QED BY <1>1, <1>4, <1>7, <1>12

\* What is put in by a layout for an int or a string.
LEMMA LaidOut ==
    ASSUME NEW x \in Basics, x.type \in {"int", "string"}, NEW spec \in AllTexts
    PROVE  \/ ApplyFormatSpec(x, spec) \in {ToText(x), NoNumber}
           \/ \E n \in Int : ApplyFormatSpec(x, spec) = Padded(ToText(x), n)
<1> DEFINE forInt == Part(spec, 0, IndexOf(spec, <<LetterD>>))
           forText == Part(spec, 0, IndexOf(spec, <<LetterS>>))
<1>1. forInt \in AllTexts /\ forText \in AllTexts
  <2>1. ASSUME NEW letter \in Int PROVE Part(spec, 0, IndexOf(spec, <<letter>>)) \in AllTexts
    <3>1. IndexOf(spec, <<letter>>) \in -1 .. Len(spec)
      BY CharactersAre, AnyFind DEF IndexOf
    <3> QED BY <3>1, AnyPart
  <2>2. LetterD \in Int /\ LetterS \in Int
    BY CharactersAre
  <2> QED BY <2>1, <2>2
<1>2. CASE x.type = "int"
  <2>1. ApplyFormatSpec(x, spec) \in {ToText(x), NoNumber, Padded(ToText(x), Parsed(forInt))}
    BY <1>2 DEF ApplyFormatSpec
  <2>2. Parsed(forInt) \in Int
    <3> HIDE DEF forInt
    <3> QED BY <1>1, ParsedIs
  <2> QED BY <2>1, <2>2
<1>3. CASE x.type = "string"
  <2>1. ApplyFormatSpec(x, spec) \in {ToText(x), NoNumber, Padded(ToText(x), Parsed(forText))}
    BY <1>3 DEF ApplyFormatSpec
  <2>2. Parsed(forText) \in Int
    <3> HIDE DEF forText
    <3> QED BY <1>1, ParsedIs
  <2> QED BY <2>1, <2>2
<1> QED BY <1>2, <1>3

\* Such a text with a layout gives the argument, but for blanks.
LEMMA LayoutAgrees ==
    ASSUME NEW args \in Seq(Writable), NEW kwargs, Plain(kwargs), NEW s \in Seq(Nat),
           Alone(s), IndexOf(s, <<Colon>>) = 1, args # <<>>, args[1].type \in {"int", "string"},
           Format(s, args, kwargs) # NoNumber
    PROVE  Trim(Format(s, args, kwargs)) = Trim(ToText(args[1]))
<1> DEFINE n == Len(args)
           x == args[1]
           F == FormatFrom(args, kwargs)
           hole == Hole(s, 0)
           new == NewIn(args, kwargs, s, 0)
<1>1. /\ s \in AllTexts /\ n \in Nat \ {0} /\ args \in Seq(Basics) /\ Named(kwargs)
      /\ 0 \in 0 .. n /\ x \in Writable /\ x \in Basics /\ ToText(x) \in AllTexts
  <2>1. n \in Nat \ {0} /\ s \in AllTexts
    BY EmptySeq, CharactersAre
  <2>2. x \in Writable /\ 0 \in 0 .. n
    BY <2>1, ElementOfSeq
  <2>3. args \in Seq(Basics) /\ Named(kwargs)
    BY MarksAre, ToTextIs DEF Named, Plain
  <2>4. x \in Basics /\ ToText(x) \in AllTexts
    BY <2>2, ToTextIs
  <2> QED BY <2>1, <2>2, <2>3, <2>4
<1>2. /\ Len(s) \in Nat /\ Len(s) > 2 /\ hole.there
      /\ hole.start = 0 /\ hole.end = Len(s) - 1 /\ hole.field = <<>>
  BY <1>1, AloneIs
<1>3. hole.spec \in AllTexts
  <2>1. 0 \in Nat
    OBVIOUS
  <2> QED BY <1>1, <1>2, <2>1, HoleIs
<1>4. new = IF hole.spec = <<>> THEN ToText(x) ELSE ApplyFormatSpec(x, hole.spec)
  <2> DEFINE list == SubSeq(args, 0 + 1, Len(args))
  <2>1. 1 \in DOMAIN list /\ list[1] = x
    <3>1. DOMAIN list = 1 .. n - 0 /\ \A i \in 1 .. n - 0 : list[i] = args[0 + i]
      BY <1>1, Dropped
    <3>2. 1 \in 1 .. n - 0 /\ 0 + 1 = 1
      BY <1>1
    <3> HIDE DEF list
    <3> QED BY <3>1, <3>2
  <2> HIDE DEF list, x
  <2>2. FieldValue(hole.field, list, kwargs) = x
    <3> HIDE DEF hole
    <3> QED BY <1>2, <2>1 DEF FieldValue
  <2>3. x # Missing
    BY <1>1, MarksAre
  <2>4. Filling(s, hole, list, kwargs) = IF hole.spec = <<>> THEN ToText(x) ELSE ApplyFormatSpec(x, hole.spec)
    <3> HIDE DEF hole
    <3> QED BY <2>2, <2>3 DEF Filling
  <2> QED BY <2>4 DEF NewIn, list
<1>5. \/ new \in {ToText(x), NoNumber}
      \/ \E k \in Int : new = Padded(ToText(x), k)
  <2> HIDE DEF hole, new
  <2>1. x.type \in {"int", "string"}
    OBVIOUS
  <2> HIDE DEF x
  <2> QED BY <1>1, <1>3, <1>4, <2>1, LaidOut
<1>6. new \in AllTexts
  <2>1. NoNumber \in AllTexts
    BY DEF NoNumber, AllTexts
  <2> HIDE DEF new, x
  <2> QED BY <1>1, <1>5, <2>1, PaddedIs
<1>7. Format(s, args, kwargs) = F[Onward(<<>>, s, 0)]
  <2>1. <<>> \o s = s /\ Len(<<>>) = 0
    BY <1>1, Behind
  <2> QED BY <2>1, FormatIs DEF Onward
<1>8. ASSUME NEW t \in 0 .. Len(args), NEW h \in AllTexts, NEW d \in AllTexts
      PROVE  LET here == Hole(d, 0)
                 put == NewIn(args, kwargs, d, t)
             IN  FormatFrom(args, kwargs)[Onward(h, d, t)] =
                   CASE ~here.there -> h \o d
                     [] here.there /\ put = NoNumber -> NoNumber
                     [] OTHER -> FormatFrom(args, kwargs)[Onward((h \o Part(d, 0, here.start)) \o put,
                                                                 Part(d, here.end + 1, Len(d)),
                                                                 TakenAt(d, t, Len(args)))]
  BY <1>1, FormatBehind
<1>9. F[Onward(<<>>, s, 0)] =
        CASE ~hole.there -> <<>> \o s
          [] hole.there /\ new = NoNumber -> NoNumber
          [] OTHER -> F[Onward((<<>> \o Part(s, 0, hole.start)) \o new, Part(s, hole.end + 1, Len(s)), TakenAt(s, 0, n))]
  <2>1. <<>> \in AllTexts
    BY CharactersAre
  <2>2. 0 \in 0 .. Len(args)
    BY <1>1
  <2> QED BY <1>1, <1>8, <2>1, <2>2
<1>10. (<<>> \o Part(s, 0, hole.start)) \o new = new /\ Part(s, hole.end + 1, Len(s)) = <<>>
  <2>1. Part(s, 0, 0) = <<>>
    <3>1. 0 \in Int /\ 0 <= 0
      OBVIOUS
    <3> QED BY <1>1, <3>1, NoPart
  <2>2. hole.end + 1 = Len(s) /\ Len(s) \in Int /\ Len(s) <= Len(s)
    <3> HIDE DEF hole
    <3> QED BY <1>2
  <2>3. Part(s, Len(s), Len(s)) = <<>>
    BY <1>1, <2>2, NoPart
  <2>4. <<>> \o <<>> = <<>> /\ <<>> \o new = new
    <3>1. <<>> \in AllTexts
      BY CharactersAre
    <3> HIDE DEF new
    <3> QED BY <1>6, <3>1, Behind
  <2> HIDE DEF hole, new
  <2> QED BY <1>2, <2>1, <2>2, <2>3, <2>4
<1>11. TakenAt(s, 0, n) \in 0 .. n
  <2> HIDE DEF n
  <2>1. 0 + 1 \in 0 .. n
    BY <1>1
  <2> QED BY <1>1, <2>1 DEF TakenAt
<1>12. ASSUME NEW t \in 0 .. n PROVE F[Onward(new, <<>>, t)] = new
  <2>1. <<>> \in AllTexts /\ Len(<<>>) = 0 /\ Open \in Int
    BY CharactersAre, EmptySeq
  <2>2. ~Hole(<<>>, 0).there
    <3>1. IndexOf(<<>>, <<Open>>) = -1
      BY <2>1, CharacterFound
    <3> QED BY <3>1 DEF Hole, IndexOf
  <2>3. ASSUME NEW h \in AllTexts, NEW d \in AllTexts, ~Hole(d, 0).there
        PROVE  FormatFrom(args, kwargs)[Onward(h, d, t)] = h \o d
    BY <1>8, <2>3
  <2> HIDE DEF new
  <2>4. F[Onward(new, <<>>, t)] = new \o <<>>
    BY <1>6, <2>1, <2>2, <2>3
  <2> HIDE DEF F
  <2> QED BY <1>6, <2>4, Behind
<1> HIDE DEF F, new, hole, x
<1>13. Format(s, args, kwargs) \in {new, NoNumber}
  BY <1>2, <1>7, <1>9, <1>10, <1>11, <1>12
<1>14. Format(s, args, kwargs) = new
  BY <1>13
<1>15. new = ToText(x) \/ \E k \in Int : new = Padded(ToText(x), k)
  BY <1>5, <1>14
<1>16. Trim(new) = Trim(ToText(x))
  BY <1>1, <1>15, TrimPadded
<1> QED BY <1>14, <1>16 DEF x

\* The answers of format agree.
LEMMA FormatsAnswer == Answered => FormatsAgree
<1> SUFFICES ASSUME Answered, asked # <<>>, asked[1] = "format" PROVE FormatsAgree
  BY DEF FormatsAgree
<1> DEFINE s == asked[2][1]
           args == asked[2][2]
           kwargs == asked[2][3]
           answer == asked[3]
<1>1. s \in Seq(Nat) /\ args \in Seq(Writable) /\ Plain(kwargs) /\ answer = Format(s, args, kwargs)
  BY ValuesAssumption DEF Answered, ValuesAssumption, Plain
<1>2. FormatsAgree <=>
        /\ IndexOf(s, <<Colon>>) = -1 => answer = Flat(args, Format(s, Marks(args), kwargs))
        /\ /\ Alone(s) /\ IndexOf(s, <<Colon>>) = 1 /\ args # <<>> /\ answer # NoNumber
           /\ args[1].type \in {"int", "string"}
           => Trim(answer) = Trim(ToText(args[1]))
  BY DEF FormatsAgree, Flat, Unmark, Marks
<1> HIDE DEF s, args, kwargs, answer
<1>3. IndexOf(s, <<Colon>>) = -1 => answer = Flat(args, Format(s, Marks(args), kwargs))
  BY <1>1, MarksAgree
<1>4. Alone(s) /\ IndexOf(s, <<Colon>>) = 1 /\ args # <<>> /\ answer # NoNumber
        /\ args[1].type \in {"int", "string"} => Trim(answer) = Trim(ToText(args[1]))
  BY <1>1, LayoutAgrees
<1> QED BY <1>2, <1>3, <1>4

\* TextsAgree: so do those of format, whatever is written, at any width.
THEOREM TextsCorrect == ValuesSpec => []TextsAgree
<1>1. Answered => TextsAgree
  BY PartsAnswer, FormatsAnswer DEF TextsAgree
<1> QED BY <1>1, AnsweredAlways, PTL

=============================================================================
