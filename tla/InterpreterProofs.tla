------------------------- MODULE InterpreterProofs -------------------------
(***************************************************************************)
(* What the interpreter guarantees of control and of types.                *)
(*                                                                         *)
(* Of control (Interpreter), for visits nested to any depth: the scope     *)
(* stack follows the activations, and jumps land where they are meant to.  *)
(* Every action does one of three things to the stack of activations: it   *)
(* changes the last one, adds one, or takes the last one off; the lemmas   *)
(* Change, Push and Pop are about these, and the actions follow from them. *)
(*                                                                         *)
(* Of types (ClassTypes), whatever a script defines: searches find what a  *)
(* class has.  The lemmas go from the order of the keys of a table, and    *)
(* the scores of its signatures, to what the table holds; the invariant is *)
(* that every table of a type is of this kind.                             *)
(***************************************************************************)
EXTENDS Interpreter, ClassTypes, SequenceLemmas, FiniteSetTheorems, FunctionTheorems, SequenceTheorems

USE InterpreterAssumption DEF InterpreterAssumption, BaseDepth

Places == BodyPlaces \cup EvalPlaces \cup {"bind"}
Records == [kind : Kinds, at : Places, busy : BOOLEAN, flags : SUBSET Flags, base : Nat]
Frames == {f \in Records : f.kind = "try" => f.at \in BodyPlaces}

\* ScopesFollowFrames, strengthened: the first activation is a program, and
\* each can have added one scope at most.
StackOK ==
    /\ frames \in Seq(Frames)
    /\ Len(frames) <= MaxFrames
    /\ depth \in Nat
    /\ frames # <<>> => frames[1].kind = "program"
    /\ \A i \in 1..Len(frames) : frames[i].base >= BaseDepth /\ frames[i].base <= BaseDepth + i - 1
    /\ ScopesFollowFrames

\* A step that takes no activation off the stack.
Remained == StackOK' /\ Len(frames') >= Len(frames)

\* An activation enters one scope or none.
LEMMA OwnRange == ASSUME NEW f PROVE Own(f) \in {0, 1}
BY DEF Own

\* What the invariant says of the activation that runs.
LEMMA TopFacts ==
    ASSUME StackOK, frames # <<>>
    PROVE  /\ Len(frames) \in Nat \ {0}
           /\ DOMAIN frames = 1..Len(frames)
           /\ \A i \in 1..Len(frames) : frames[i] \in Frames
           /\ Top \in Frames
           /\ Top.base \in Nat /\ Top.base >= 2 /\ Top.base <= 1 + Len(frames)
           /\ depth = Top.base + Own(Top)
           /\ Own(Top) \in {0, 1}
           /\ \A i \in 1..Len(frames) : frames[i].base \in Nat
           /\ frames[1].base = BaseDepth
           /\ \A i \in 2..Len(frames) : frames[i].base = frames[i-1].base + Own(frames[i-1])
<1>1. Len(frames) \in Nat \ {0} /\ DOMAIN frames = 1..Len(frames)
  BY EmptySeq, LenProperties DEF StackOK
<1>2. \A i \in 1..Len(frames) : frames[i] \in Frames
  BY ElementOfSeq DEF StackOK
<1>3. Top \in Frames
  BY <1>1, <1>2 DEF Top
<1>4. Top.base \in Nat
  BY <1>3 DEF Frames, Records
<1>5. Top.base >= 2 /\ Top.base <= 1 + Len(frames)
  BY <1>1, <1>4 DEF Top, StackOK
<1>6. \A i \in 1..Len(frames) : frames[i].base \in Nat
  BY <1>2 DEF Frames, Records
<1>7. frames[1].base = BaseDepth
  <2>1. 1 \in DOMAIN frames
    BY <1>1
  <2>2. \A i \in DOMAIN frames : i = 1 => frames[i].base = BaseDepth
    BY DEF StackOK, ScopesFollowFrames
  <2> QED BY <2>1, <2>2
<1>8. \A i \in 2..Len(frames) : frames[i].base = frames[i-1].base + Own(frames[i-1])
  <2> TAKE i \in 2..Len(frames)
  <2>1. i \in DOMAIN frames /\ i # 1
    BY <1>1
  <2> QED BY <2>1 DEF StackOK, ScopesFollowFrames
<1>9. depth = Top.base + Own(Top)
  BY DEF StackOK, ScopesFollowFrames
<1> QED BY <1>1, <1>2, <1>3, <1>4, <1>5, <1>6, <1>7, <1>8, <1>9, OwnRange

\* The invariant, activation by activation.
LEMMA ScopesByIndex ==
    ASSUME frames' \in Seq(Frames), frames' # <<>>,
           frames'[1].base = BaseDepth,
           \A i \in 2..Len(frames') : frames'[i].base = frames'[i-1].base + Own(frames'[i-1]),
           depth' = Top'.base + Own(Top')
    PROVE  ScopesFollowFrames'
<1>1. DOMAIN frames' = 1..Len(frames') /\ Len(frames') \in Nat
  BY LenProperties
<1>2. ASSUME NEW i \in DOMAIN frames'
      PROVE  frames'[i].base = IF i = 1 THEN BaseDepth ELSE frames'[i-1].base + Own(frames'[i-1])
  <2>1. CASE i = 1
    BY <2>1
  <2>2. CASE i # 1
    <3>1. i \in 2..Len(frames')
      BY <1>1, <1>2, <2>2
    <3> QED BY <2>2, <3>1
  <2> QED BY <2>1, <2>2
<1> QED BY <1>2 DEF ScopesFollowFrames, Own, Scoped

\* The last activation moves on.
LEMMA Change ==
    ASSUME StackOK, frames # <<>>, NEW g \in Frames, g.base = Top.base, g.kind = Top.kind,
           frames' = [frames EXCEPT ![Len(frames)] = g],
           depth' = g.base + Own(g)
    PROVE  Remained
<1>1. Len(frames) \in 1..Len(frames)
  BY TopFacts
<1>2. /\ frames' \in Seq(Frames)
      /\ Len(frames') = Len(frames)
      /\ \A j \in 1..Len(frames) : frames'[j] = IF j = Len(frames) THEN g ELSE frames[j]
  BY <1>1, ExceptSeq DEF StackOK
<1>3. DOMAIN frames' = 1..Len(frames) /\ frames' # <<>>
  BY <1>1, <1>2, LenProperties, EmptySeq
<1>4. Top' = g
  BY <1>1, <1>2 DEF Top
<1>5. \A j \in 1..Len(frames) : frames'[j].base = frames[j].base /\ frames'[j].kind = frames[j].kind
  BY <1>2 DEF Top
<1>6. \A i \in 2..Len(frames) : frames'[i].base = frames'[i-1].base + Own(frames'[i-1])
  <2> TAKE i \in 2..Len(frames)
  <2>1. i \in 1..Len(frames) /\ i - 1 \in 1..Len(frames) /\ i - 1 # Len(frames)
    BY <1>1
  <2>2. frames'[i-1] = frames[i-1] /\ frames'[i].base = frames[i].base
    BY <1>2, <1>5, <2>1
  <2> QED BY <2>2, TopFacts
<1>7. ScopesFollowFrames'
  <2>1. /\ frames' \in Seq(Frames)
        /\ frames' # <<>>
        /\ frames'[1].base = BaseDepth
        /\ \A i \in 2..Len(frames') : frames'[i].base = frames'[i-1].base + Own(frames'[i-1])
        /\ depth' = Top'.base + Own(Top')
    <3>1. 1 \in 1..Len(frames)
      BY <1>1
    <3>2. frames'[1].base = BaseDepth
      BY <1>5, <3>1, TopFacts
    <3> QED BY <1>2, <1>3, <1>4, <1>6, <3>2
  <2> QED BY <2>1, ScopesByIndex
<1>8. depth' \in Nat
  <2>1. g.base \in Nat
    BY TopFacts
  <2> QED BY <2>1, OwnRange
<1>9. frames'[1].kind = "program"
  BY <1>1, <1>5, TopFacts DEF StackOK
<1>10. StackOK'
  BY <1>1, <1>2, <1>3, <1>5, <1>7, <1>8, <1>9 DEF StackOK
<1>11. Len(frames') >= Len(frames)
  BY <1>1, <1>2
<1> QED BY <1>10, <1>11 DEF Remained

\* The last activation ends, and leaves its scope.
LEMMA Pop ==
    ASSUME StackOK, frames # <<>>, Leave
    PROVE  /\ StackOK'
           /\ depth' = Top.base
           /\ Len(frames') = Len(frames) - 1
           /\ \A i \in 1..(Len(frames) - 1) : frames'[i] = frames[i]
<1>1. /\ frames' \in Seq(Frames)
      /\ Len(frames') = Len(frames) - 1
      /\ \A i \in 1..(Len(frames) - 1) : frames'[i] = frames[i]
  <2>1. \A i \in 1..(Len(frames) - 1) : frames[i] \in Frames
    BY TopFacts
  <2> DEFINE n == Len(frames) - 1
  <2>2. n \in Int /\ n >= 0
    BY TopFacts
  <2>3. frames' = SubSeq(frames, 1, n)
    BY DEF Leave, Callers
  <2> HIDE DEF n
  <2>4. /\ SubSeq(frames, 1, n) \in Seq(Frames)
        /\ Len(SubSeq(frames, 1, n)) = IF 1 <= n THEN n - 1 + 1 ELSE 0
        /\ \A i \in 1..(n - 1 + 1) : SubSeq(frames, 1, n)[i] = frames[1 + i - 1]
    BY <2>1, <2>2, SubSeqProperties DEF n
  <2>5. \A i \in 1..n : SubSeq(frames, 1, n)[i] = frames[i]
    BY <2>2, <2>4
  <2>6. Len(SubSeq(frames, 1, n)) = n
    BY <2>2, <2>4
  <2> QED BY <2>3, <2>4, <2>5, <2>6 DEF n
<1>2. depth' = Top.base
  BY TopFacts DEF Leave, ExitScope, Own
<1>3. DOMAIN frames' = 1..(Len(frames) - 1)
  BY <1>1, LenProperties
<1>4. CASE Len(frames) = 1
  <2>1. frames' = <<>>
    BY <1>1, <1>4, EmptySeq
  <2>2. Top.base = BaseDepth
    BY <1>4, TopFacts DEF StackOK, ScopesFollowFrames, Top
  <2> QED BY <1>1, <1>2, <1>3, <1>4, <2>1, <2>2 DEF StackOK, ScopesFollowFrames
<1>5. CASE Len(frames) > 1
  <2>1. frames' # <<>> /\ Len(frames') \in 1..Len(frames)
    BY <1>1, <1>5, EmptySeq, TopFacts
  <2>2. Top' = frames[Len(frames) - 1]
    BY <1>1, <1>5, TopFacts DEF Top
  <2>3. Len(frames) \in 2..Len(frames)
    BY <1>5, TopFacts
  <2>4. \A i \in 2..Len(frames') : frames'[i].base = frames'[i-1].base + Own(frames'[i-1])
    <3> TAKE i \in 2..Len(frames')
    <3>1. i \in 2..Len(frames) /\ i \in 1..(Len(frames) - 1) /\ i - 1 \in 1..(Len(frames) - 1)
      BY <1>1, <1>5, TopFacts
    <3> QED BY <1>1, <3>1, TopFacts
  <2>5. ScopesFollowFrames'
    <3>1. depth' = Top'.base + Own(Top')
      BY <1>2, <2>2, <2>3, TopFacts DEF Top
    <3>2. frames'[1].base = BaseDepth
      BY <1>1, <1>5, TopFacts
    <3> QED BY <1>1, <2>1, <2>4, <3>1, <3>2, ScopesByIndex
  <2>6. frames'[1].kind = "program"
    BY <1>1, <1>5, TopFacts DEF StackOK
  <2>7. \A i \in 1..Len(frames') : frames'[i].base >= BaseDepth /\ frames'[i].base <= BaseDepth + i - 1
    <3> TAKE i \in 1..Len(frames')
    <3>1. i \in 1..Len(frames) /\ frames'[i] = frames[i]
      BY <1>1, <1>5, TopFacts
    <3> QED BY <3>1 DEF StackOK
  <2> QED BY <1>1, <1>2, <2>1, <2>5, <2>6, <2>7, TopFacts DEF StackOK
<1> QED BY <1>1, <1>2, <1>4, <1>5, TopFacts

\* A visit inside the last activation begins.
LEMMA Push ==
    ASSUME StackOK, frames # <<>>, Len(frames) < MaxFrames,
           NEW g \in Frames, g.base = Top.base, g.kind = Top.kind, Own(g) = Own(Top),
           NEW h \in Frames, h.base = depth,
           frames' = Append([frames EXCEPT ![Len(frames)] = g], h),
           depth' = depth + Own(h)
    PROVE  Remained
<1> DEFINE changed == [frames EXCEPT ![Len(frames)] = g]
           n == Len(frames)
<1>1. n \in Nat \ {0} /\ n \in 1..n
  BY TopFacts
<1>2. /\ changed \in Seq(Frames)
      /\ Len(changed) = n
      /\ \A j \in 1..n : changed[j] = IF j = n THEN g ELSE frames[j]
  BY <1>1, ExceptSeq DEF StackOK
<1> HIDE DEF changed, n
<1>3. /\ frames' \in Seq(Frames)
      /\ Len(frames') = n + 1
      /\ \A i \in 1..n : frames'[i] = changed[i]
      /\ frames'[n + 1] = h
  <2>1. frames' = Append(changed, h)
    BY DEF changed
  <2>2. changed \in Seq(Frames) /\ h \in Frames
    BY <1>2
  <2>3. /\ Append(changed, h) \in Seq(Frames)
        /\ Len(Append(changed, h)) = Len(changed) + 1
        /\ \A i \in 1..Len(changed) : Append(changed, h)[i] = changed[i]
        /\ Append(changed, h)[Len(changed) + 1] = h
    BY <2>2, AppendProperties
  <2> QED BY <1>2, <2>1, <2>3
<1>4. DOMAIN frames' = 1..(n + 1) /\ frames' # <<>>
  BY <1>1, <1>3, LenProperties, EmptySeq
<1>5. Top' = h
  BY <1>3 DEF Top
<1>6. \A i \in 1..n : frames'[i].base = frames[i].base /\ frames'[i].kind = frames[i].kind /\ Own(frames'[i]) = Own(frames[i])
  BY <1>2, <1>3 DEF Top, n
<1>7. h.base = frames[n].base + Own(frames[n])
  BY TopFacts DEF Top, n
<1>8. \A i \in 2..(n + 1) : frames'[i].base = frames'[i-1].base + Own(frames'[i-1])
  <2> TAKE i \in 2..(n + 1)
  <2>1. CASE i = n + 1
    <3>1. i - 1 = n
      BY <1>1, <2>1
    <3> QED BY <1>1, <1>3, <1>6, <1>7, <2>1, <3>1
  <2>2. CASE i # n + 1
    <3>1. i \in 2..n /\ i \in 1..n /\ i - 1 \in 1..n
      BY <1>1, <2>2
    <3>2. frames[i].base = frames[i-1].base + Own(frames[i-1])
      BY <3>1, TopFacts DEF n
    <3> QED BY <1>6, <3>1, <3>2
  <2> QED BY <2>1, <2>2
<1>9. ScopesFollowFrames'
  <2>0. 1 \in 1..n
    BY <1>1
  <2>1. frames'[1].base = BaseDepth
    BY <1>6, <2>0, TopFacts
  <2>2. depth' = Top'.base + Own(Top')
    BY <1>5
  <2> QED BY <1>3, <1>4, <1>8, <2>1, <2>2, ScopesByIndex
<1>10. \A i \in 1..(n + 1) : frames'[i].base >= BaseDepth /\ frames'[i].base <= BaseDepth + i - 1
  <2>1. \A i \in 1..n : frames'[i].base >= BaseDepth /\ frames'[i].base <= BaseDepth + i - 1
    BY <1>6 DEF StackOK, n
  <2>2. frames'[n + 1].base >= BaseDepth /\ frames'[n + 1].base <= BaseDepth + (n + 1) - 1
    <3>1. depth \in Nat /\ depth >= 2 /\ depth <= 2 + n
      BY <1>1, TopFacts DEF n
    <3> QED BY <1>1, <1>3, <3>1
  <2>3. \A i \in 1..(n + 1) : i \in 1..n \/ i = n + 1
    BY <1>1
  <2> TAKE i \in 1..(n + 1)
  <2>4. CASE i \in 1..n
    BY <2>1, <2>4
  <2>5. CASE i = n + 1
    BY <2>2, <2>5
  <2> QED BY <2>3, <2>4, <2>5
<1>11. frames'[1].kind = "program"
  BY <1>1, <1>6 DEF StackOK, n
<1>12. depth' \in Nat /\ Len(frames') <= MaxFrames
  BY <1>1, <1>3, OwnRange DEF StackOK, n
<1>13. StackOK'
  BY <1>3, <1>4, <1>9, <1>10, <1>11, <1>12 DEF StackOK
<1>14. Len(frames') >= Len(frames)
  BY <1>1, <1>3 DEF n
<1> QED BY <1>13, <1>14 DEF Remained

----------------------------------------------------------------------------
(* What the actions do to the stack of activations.                        *)

\* A visit goes to another of its places.
LEMMA GoToKeeps ==
    ASSUME StackOK, frames # <<>>, NEW at \in Places, GoTo(at), UNCHANGED depth,
           Top.kind # "if", Top.kind = "try" => at \in BodyPlaces
    PROVE  Remained
<1> DEFINE g == [Top EXCEPT !.at = at, !.busy = FALSE]
<1>1. Top \in Records
  BY TopFacts DEF Frames
<1>2. g \in Records /\ g.base = Top.base /\ g.kind = Top.kind /\ g.at = at
  BY <1>1 DEF Records
<1>3. g \in Frames
  BY <1>2 DEF Frames
<1>4. frames' = [frames EXCEPT ![Len(frames)] = g]
  BY DEF GoTo, Top
<1>5. Own(g) = Own(Top)
  BY <1>2 DEF Own, Scoped
<1>6. depth' = g.base + Own(g)
  BY <1>2, <1>5, TopFacts
<1> HIDE DEF g
<1> QED BY <1>2, <1>3, <1>4, <1>6, Change

\* A visit begins, with a scope of its own or without.
LEMMA BeginKeeps ==
    ASSUME StackOK, NEW kind \in Kinds, NEW at \in Places, NEW flags \in SUBSET Flags,
           kind = "try" => at \in BodyPlaces,
           Begin(kind, at, flags),
           depth' = depth + Own(Frame(kind, at, flags))
    PROVE  Remained
<1> DEFINE g == [Top EXCEPT !.busy = Top.kind \notin Sequences]
           h == Frame(kind, at, flags)
<1>1. frames # <<>>
  BY DEF Begin, AtStatement, Running
<1>2. Top \in Records /\ Top \in Frames
  BY <1>1, TopFacts DEF Frames
<1>3. g \in Records /\ g.base = Top.base /\ g.kind = Top.kind /\ g.at = Top.at
  BY <1>2 DEF Records
<1>4. g \in Frames
  BY <1>2, <1>3 DEF Frames
<1>5. Own(g) = Own(Top)
  BY <1>3 DEF Own, Scoped
<1>6. h \in Records /\ h.base = depth /\ h.kind = kind /\ h.at = at
  BY DEF Frame, Records, StackOK
<1>7. h \in Frames
  BY <1>6 DEF Frames
<1>8. frames' = Append([frames EXCEPT ![Len(frames)] = g], h)
  BY DEF Begin, Visited, Top
<1>9. Len(frames) < MaxFrames /\ depth' = depth + Own(h)
  BY DEF Begin
<1> HIDE DEF g, h
<1> QED BY <1>1, <1>3, <1>4, <1>5, <1>6, <1>7, <1>8, <1>9, Push

\* A call binds its arguments in a scope of its own.
LEMMA BeginCallKeeps == ASSUME StackOK, BeginCall PROVE Remained
<1> DEFINE h == Frame("call", "bind", {})
<1>1. frames # <<>>
  BY DEF BeginCall, Running
<1>2. Top \in Frames
  BY <1>1, TopFacts
<1>3. h \in Records /\ h.base = depth /\ h.kind = "call" /\ h.at = "bind"
  BY DEF Frame, Records, StackOK, Kinds, Places
<1>4. h \in Frames
  BY <1>3 DEF Frames
<1>5. Own(h) = 1
  BY <1>3 DEF Own, Scoped
<1>6. [frames EXCEPT ![Len(frames)] = Top] = frames
  BY <1>1, TopFacts DEF Top, StackOK
<1>7. frames' = Append([frames EXCEPT ![Len(frames)] = Top], h)
  BY <1>6 DEF BeginCall
<1>8. Len(frames) < MaxFrames /\ depth' = depth + Own(h)
  BY <1>5 DEF BeginCall
<1> HIDE DEF h
<1> QED BY <1>1, <1>2, <1>3, <1>4, <1>7, <1>8, Push

\* if and while take a branch, or are done.
LEMMA ChooseBranchKeeps == ASSUME StackOK, ChooseBranch PROVE Remained \/ Leave
<1>1. frames # <<>> /\ Top.kind = "if" /\ Top.at = "cond"
  BY DEF ChooseBranch, RunningIn, Running
<1>2. CASE GoTo("body") /\ depth' = depth + 1
  <2> DEFINE g == [Top EXCEPT !.at = "body", !.busy = FALSE]
  <2>1. Top \in Records
    BY <1>1, TopFacts DEF Frames
  <2>2. g \in Records /\ g.base = Top.base /\ g.kind = "if" /\ g.at = "body"
    BY <1>1, <2>1 DEF Records, Places, BodyPlaces
  <2>3. g \in Frames
    BY <2>2 DEF Frames
  <2>4. frames' = [frames EXCEPT ![Len(frames)] = g]
    BY <1>2 DEF GoTo, Top
  <2>5. Own(g) = 1 /\ Own(Top) = 0
    BY <1>1, <2>2 DEF Own, Scoped
  <2>6. depth' = g.base + Own(g)
    BY <1>1, <1>2, <2>2, <2>5, TopFacts
  <2> HIDE DEF g
  <2> QED BY <1>1, <2>2, <2>3, <2>4, <2>6, Change
<1> QED BY <1>2 DEF ChooseBranch

\* switch goes to its next case.
LEMMA NextCaseKeeps == ASSUME StackOK, NextCase PROVE Remained
<1>1. frames # <<>> /\ Top.kind = "switch" /\ UNCHANGED depth
  BY DEF NextCase, RunningIn, Running
<1>2. PICK flags \in SUBSET Flags : RunCase(flags)
  <2>1. Top.flags \in SUBSET Flags
    BY <1>1, TopFacts DEF Frames, Records
  <2> QED BY <2>1 DEF NextCase, Flags
<1> DEFINE g == [Top EXCEPT !.at = "body", !.flags = flags]
<1>3. Top \in Records
  BY <1>1, TopFacts DEF Frames
<1>4. g \in Records /\ g.base = Top.base /\ g.kind = "switch" /\ g.at = "body"
  BY <1>1, <1>3 DEF Records, Places, BodyPlaces
<1>5. g \in Frames
  BY <1>4 DEF Frames
<1>6. frames' = [frames EXCEPT ![Len(frames)] = g]
  BY <1>2 DEF RunCase, Top
<1>7. Own(g) = Own(Top)
  BY <1>1, <1>4 DEF Own, Scoped
<1>8. depth' = g.base + Own(g)
  BY <1>1, <1>4, <1>7, TopFacts
<1> HIDE DEF g
<1> QED BY <1>1, <1>4, <1>5, <1>6, <1>8, Change

\* Every step takes the last activation off, or none.
LEMMA StatementStep == ASSUME StackOK, Statement PROVE Remained
<1> USE DEF Places, BodyPlaces, EvalPlaces, Kinds, Loops, Flags
<1>1. CASE BeginBlock
  <2>1. Own(Frame("block", "body", {})) = 1
    BY DEF Own, Scoped, Frame
  <2> QED BY <1>1, <2>1, BeginKeeps DEF BeginBlock
<1>2. ASSUME NEW kind \in Kinds \ {"block"}, NEW at \in Places, NEW flags \in SUBSET Flags,
             kind = "try" => at \in BodyPlaces, kind = "if" => at = "cond", kind # "call",
             Begin(kind, at, flags), UNCHANGED depth
      PROVE  Remained
  <2>1. Own(Frame(kind, at, flags)) = 0
    BY <1>2 DEF Own, Scoped, Frame
  <2>2. depth' = depth + Own(Frame(kind, at, flags))
    BY <1>2, <2>1 DEF StackOK
  <2> QED BY <1>2, <2>2, BeginKeeps
<1>3. CASE BeginExpression
  BY <1>2, <1>3 DEF BeginExpression
<1>4. CASE BeginIf
  BY <1>2, <1>4 DEF BeginIf
<1>5. CASE BeginWhile
  BY <1>2, <1>5 DEF BeginWhile
<1>6. CASE BeginFor
  BY <1>2, <1>6 DEF BeginFor
<1>7. CASE BeginDoWhile
  BY <1>2, <1>7 DEF BeginDoWhile
<1>8. CASE BeginSwitch
  BY <1>2, <1>8 DEF BeginSwitch
<1>9. CASE BeginTry
  <2>1. PICK given \in SUBSET {"catch", "finally"} : Begin("try", "body", given) /\ UNCHANGED depth
    BY <1>9 DEF BeginTry
  <2>2. given \in SUBSET Flags
    BY <2>1
  <2> QED BY <1>2, <2>1, <2>2
<1> QED BY <1>1, <1>3, <1>4, <1>5, <1>6, <1>7, <1>8, <1>9 DEF Statement

\* What leaves frames and scopes alone.
LEMMA Unmoved == ASSUME StackOK, UNCHANGED <<frames, depth>> PROVE Remained
<1>1. ScopesFollowFrames'
  BY DEF StackOK, ScopesFollowFrames, Top, Own, Scoped
<1>2. StackOK'
  BY <1>1 DEF StackOK
<1>3. Len(frames') >= Len(frames)
  BY LenProperties DEF StackOK
<1> QED BY <1>2, <1>3 DEF Remained

\* An exception is thrown, passes an activation, or is caught.
LEMMA ExceptionStep ==
    ASSUME StackOK, Exception PROVE Remained \/ (Leave /\ frames # <<>>)
<1>1. CASE Jump \/ ThrowFromExpression
  BY <1>1, Unmoved DEF Jump, ThrowFromExpression, Raise
<1>2. CASE Unwind
  BY <1>2 DEF Unwind, Thrown
<1>3. CASE CatchInLoop
  <2>1. frames # <<>> /\ Top.kind \in Loops
    BY <1>3 DEF CatchInLoop, Thrown
  <2>2. ASSUME NEW at \in AfterContinue, GoTo(at), UNCHANGED depth PROVE Remained
    <3>1. at \in Places
      BY <2>1, <2>2 DEF AfterContinue, Loops, Places, EvalPlaces, BodyPlaces
    <3> QED BY <2>1, <2>2, <3>1, GoToKeeps DEF Loops
  <2> QED BY <1>3, <2>1, <2>2 DEF CatchInLoop
<1>4. CASE CatchInTry
  <2>1. frames # <<>> /\ Top.kind = "try"
    BY <1>4 DEF CatchInTry, Thrown
  <2>2. ASSUME NEW at \in BodyPlaces, GoTo(at), UNCHANGED depth PROVE Remained
    BY <2>1, <2>2, GoToKeeps DEF Places
  <2> QED BY <1>4, <2>1, <2>2 DEF CatchInTry, BodyPlaces
<1>5. CASE CatchInSwitch \/ CatchInCall \/ CatchInProgram
  BY <1>5 DEF CatchInSwitch, CatchInCall, CatchInProgram, Thrown
<1> QED BY <1>1, <1>2, <1>3, <1>4, <1>5 DEF Exception

\* An expression is evaluated.
LEMMA ExpressionStep ==
    ASSUME StackOK, Expression PROVE Remained \/ (Leave /\ frames # <<>>)
<1>1. CASE RunUserFunction
  <2>1. frames # <<>> /\ Top.kind = "call"
    BY <1>1 DEF RunUserFunction, RunningIn, Running
  <2> QED BY <1>1, <2>1, GoToKeeps DEF RunUserFunction, Places, BodyPlaces
<1> QED BY <1>1, BeginCallKeeps
        DEF Expression, ReturnFromNative, EndOfBody, EndExpression, RunningIn, Running

\* A program starts.
LEMMA FirstActivation == ASSUME StackOK, ParseAndExecute PROVE Remained
<1> DEFINE h == Frame("program", "body", {})
<1>1. h \in Frames /\ h.base = depth /\ h.kind = "program"
  BY DEF Frame, Frames, Records, StackOK, Kinds, Places, BodyPlaces
<1>2. depth = BaseDepth /\ Own(h) = 0
  BY <1>1 DEF ParseAndExecute, StackOK, ScopesFollowFrames, Own, Scoped
<1>3. frames' = <<h>>
  BY DEF ParseAndExecute
<1>4. depth' = BaseDepth
  BY <1>2 DEF ParseAndExecute
<1> HIDE DEF h
<1>5. frames' \in Seq(Frames) /\ Len(frames') = 1 /\ frames'[1] = h /\ frames' # <<>>
  BY <1>1, <1>3
<1>6. ScopesFollowFrames'
  <2>1. Top' = h
    BY <1>5 DEF Top
  <2>2. depth' = Top'.base + Own(Top')
    BY <1>1, <1>2, <1>4, <2>1
  <2>3. \A i \in 2..Len(frames') : frames'[i].base = frames'[i-1].base + Own(frames'[i-1])
    BY <1>5
  <2> QED BY <1>1, <1>2, <1>5, <2>2, <2>3, ScopesByIndex
<1>7. StackOK'
  BY <1>1, <1>2, <1>4, <1>5, <1>6 DEF StackOK
<1>8. Len(frames') >= Len(frames)
  BY <1>5, EmptySeq DEF ParseAndExecute
<1> QED BY <1>7, <1>8 DEF Remained

\* A statement goes on, or ends.
LEMMA ProgressStep ==
    ASSUME StackOK, Progress PROVE Remained \/ (Leave /\ frames # <<>>)
<1> USE DEF RunningIn, Running
<1>1. ASSUME NEW at \in BodyPlaces \cup EvalPlaces, frames # <<>>, GoTo(at), UNCHANGED depth,
             Top.kind # "if", Top.kind = "try" => at \in BodyPlaces
      PROVE  Remained
  BY <1>1, GoToKeeps DEF Places
<1>2. CASE TestCondition \/ EndOfRound
  <2>1. frames # <<>> /\ Top.kind \in Loops
    BY <1>2 DEF TestCondition, EndOfRound
  <2>2. ASSUME NEW at \in {"body", "incr", "cond"}, GoTo(at), UNCHANGED depth PROVE Remained
    BY <1>1, <2>1, <2>2 DEF Loops, BodyPlaces, EvalPlaces
  <2> QED BY <1>2, <2>1, <2>2 DEF TestCondition, EndOfRound
<1>3. CASE FinishInitialization \/ FinishIncrement
  BY <1>1, <1>3 DEF FinishInitialization, FinishIncrement, EvalPlaces
<1>4. CASE Select \/ EndOfCase
  <2>1. frames # <<>> /\ Top.kind = "switch"
    BY <1>4 DEF Select, EndOfCase
  <2>2. GoTo("label") /\ UNCHANGED depth => Remained
    BY <1>1, <2>1 DEF EvalPlaces
  <2> QED BY <1>4, <2>1, <2>2 DEF Select, EndOfCase
<1>5. CASE ReachFinally
  <2>1. frames # <<>> /\ Top.kind = "try"
    BY <1>5 DEF ReachFinally
  <2>2. GoTo("finally") /\ UNCHANGED depth => Remained
    BY <1>1, <2>1 DEF BodyPlaces
  <2> QED BY <1>5, <2>1, <2>2 DEF ReachFinally
<1>6. CASE ChooseBranch
  BY <1>6, ChooseBranchKeeps DEF ChooseBranch
<1>7. CASE NextCase
  BY <1>7, NextCaseKeeps
<1>8. CASE ParseAndExecute
  BY <1>8, FirstActivation
<1>9. CASE EndProgram \/ EndBlock \/ EndIf \/ EndSwitch \/ EndFinally
  BY <1>9 DEF EndProgram, EndBlock, EndIf, EndSwitch, EndFinally
<1> QED BY <1>2, <1>3, <1>4, <1>5, <1>6, <1>7, <1>8, <1>9 DEF Progress

\* A step takes the last activation off with its scope, or takes none off.
LEMMA Shape ==
    ASSUME StackOK, [Next]_vars
    PROVE  Remained \/ (Leave /\ frames # <<>>)
BY StatementStep, ExceptionStep, ExpressionStep, ProgressStep, Unmoved DEF Next, vars

\* So the invariant is kept,
LEMMA StackStep == StackOK /\ [Next]_vars => StackOK'
BY Shape, Pop DEF Remained

\* it holds at first,
LEMMA StackInit == Init => StackOK
BY EmptySeq DEF Init, StackOK, ScopesFollowFrames

\* and always.
LEMMA StackInvariant == Spec => []StackOK
BY StackInit, StackStep, PTL DEF Spec

\* Whatever the program, and however deep its visits nest, the scope stack is
\* the base scopes and one scope per activation that entered one.
THEOREM ScopesFollow == Spec => []ScopesFollowFrames
<1>1. StackOK => ScopesFollowFrames
  BY DEF StackOK
<1> QED BY <1>1, StackInvariant, PTL

\* Whichever way an activation ends, normally or by an exception that passes
\* or ends there, the scope stack is as high as when it began.
THEOREM ScopesAreRestored == Spec => ScopesRestored
<1>1. StackOK /\ [Next]_vars => [Len(frames') < Len(frames) => depth' = Top.base]_vars
  <2> SUFFICES ASSUME StackOK, [Next]_vars, Len(frames') < Len(frames) PROVE depth' = Top.base
    OBVIOUS
  <2>1. Len(frames) \in Nat /\ (StackOK' => Len(frames') \in Nat)
    BY LenProperties DEF StackOK
  <2>2. ~Remained
    BY <2>1 DEF Remained
  <2> QED BY <2>2, Shape, Pop
<1> QED BY <1>1, StackInvariant, PTL DEF Spec, ScopesRestored

----------------------------------------------------------------------------
(* Exceptions.                                                             *)

\* The exception in flight has a catcher on the stack, the last one there is.
TargetOK ==
    /\ signal \in Signals \cup {"none"}
    /\ frames = <<>> => signal = "none"
    /\ signal = "none" => target = 0
    /\ signal # "none" =>
          /\ target \in 1..Len(frames)
          /\ Takes(frames[target], signal)
          /\ \A j \in 1..Len(frames) : Takes(frames[j], signal) => j <= target

\* There is no endless descent in the naturals.
LEMMA NatOrder == IsWellFoundedOn({ss \in Nat \X Nat : ss[1] < ss[2]}, Nat)
BY NatLessThanWellFounded DEF OpToRel

\* A set of positions that is not empty has a last one.
LEMMA LastOne ==
    ASSUME NEW n \in Nat, NEW S \in SUBSET (1..n), S # {}
    PROVE  \E i \in S : \A j \in S : j <= i
<1> DEFINE T == {k \in Nat : n - k \in S}
<1>1. T # {}
  <2>1. PICK i \in S : TRUE
    OBVIOUS
  <2>2. n - i \in Nat /\ n - (n - i) = i
    BY <2>1
  <2> QED BY <2>1, <2>2
<1>2. T \subseteq Nat
  OBVIOUS
<1> HIDE DEF T
<1>3. PICK k \in T : \A m \in T : ~(<<m, k>> \in {ss \in Nat \X Nat : ss[1] < ss[2]})
  BY <1>1, <1>2, NatOrder, WFMin
<1>4. \A m \in T : ~(m < k)
  BY <1>2, <1>3
<1>5. n - k \in S
  BY DEF T
<1>6. \A j \in S : j <= n - k
  <2> TAKE j \in S
  <2>1. n - j \in T
    BY DEF T
  <2> QED BY <1>2, <1>4, <2>1
<1> QED BY <1>5, <1>6

\* Every exception has an activation that takes it.
LEMMA CatcherExists ==
    ASSUME StackOK, frames # <<>>, NEW thrown
    PROVE  /\ Catcher(thrown) \in 1..Len(frames)
           /\ Takes(frames[Catcher(thrown)], thrown)
           /\ \A j \in 1..Len(frames) : Takes(frames[j], thrown) => j <= Catcher(thrown)
<1> DEFINE S == {i \in 1..Len(frames) : Takes(frames[i], thrown)}
<1>1. DOMAIN frames = 1..Len(frames) /\ Len(frames) \in Nat /\ 1 \in 1..Len(frames)
  BY TopFacts
<1>2. 1 \in S
  BY <1>1 DEF StackOK, Takes
<1>3. PICK i \in S : \A j \in S : j <= i
  <2> HIDE DEF S
  <2>1. S \in SUBSET (1..Len(frames))
    BY DEF S
  <2> QED BY <1>1, <1>2, <2>1, LastOne
<1>4. /\ i \in DOMAIN frames
      /\ Takes(frames[i], thrown)
      /\ \A j \in DOMAIN frames : Takes(frames[j], thrown) => j <= i
  BY <1>1, <1>3
<1>5. /\ Catcher(thrown) \in DOMAIN frames
      /\ Takes(frames[Catcher(thrown)], thrown)
      /\ \A j \in DOMAIN frames : Takes(frames[j], thrown) => j <= Catcher(thrown)
  BY <1>4 DEF Catcher
<1> QED BY <1>1, <1>5

\* A new exception is for the last activation that takes it.
LEMMA RaiseTargets ==
    ASSUME StackOK, frames # <<>>, NEW thrown \in Signals, Raise(thrown)
    PROVE  TargetOK'
<1>1. frames' = frames /\ signal' = thrown /\ target' = Catcher(thrown) /\ thrown # "none"
  BY DEF Raise, Signals
<1>2. /\ target' \in 1..Len(frames')
      /\ Takes(frames'[target'], signal')
      /\ \A j \in 1..Len(frames') : Takes(frames'[j], signal') => j <= target'
  BY <1>1, CatcherExists
<1> QED BY <1>1, <1>2 DEF TargetOK, Takes

\* The handlers of the code take what an exception is for, frame by frame.
LEMMA HandlesTakes ==
    ASSUME signal \in Signals
    PROVE  Handles(Top) <=> Takes(Top, signal)
BY DEF Handles, Takes, Signals, Loops

\* Unwinding leaves the target in place.
LEMMA UnwindTargets == ASSUME StackOK, TargetOK, Unwind PROVE TargetOK'
<1>1. frames # <<>> /\ signal # "none" /\ Leave /\ ~Handles(Top)
  BY DEF Unwind, Thrown
<1>2. signal' = signal /\ target' = target
  BY DEF Unwind, Quiet
<1>3. /\ target \in 1..Len(frames)
      /\ Takes(frames[target], signal)
      /\ \A j \in 1..Len(frames) : Takes(frames[j], signal) => j <= target
      /\ signal \in Signals
  BY <1>1 DEF TargetOK
<1>4. ~Takes(Top, signal)
  BY <1>1, <1>3, HandlesTakes
<1>5. target # Len(frames)
  BY <1>3, <1>4 DEF Top
<1>6. /\ Len(frames') = Len(frames) - 1
      /\ \A i \in 1..(Len(frames) - 1) : frames'[i] = frames[i]
  BY <1>1, Pop
<1>7. target \in 1..(Len(frames) - 1)
  <2>1. Len(frames) \in Nat
    BY <1>1, TopFacts
  <2>2. target \in 1..Len(frames)
    BY <1>3
  <2> QED BY <1>5, <2>1, <2>2
<1>8. frames' # <<>>
  BY <1>6, <1>7, EmptySeq
<1>9. /\ target \in 1..Len(frames')
      /\ Takes(frames'[target], signal)
      /\ \A j \in 1..Len(frames') : Takes(frames'[j], signal) => j <= target
  BY <1>1, <1>3, <1>6, <1>7, TopFacts
<1> QED BY <1>1, <1>2, <1>3, <1>8, <1>9 DEF TargetOK, Takes

\* Apart from Exception, steps are taken without an exception in flight.
LEMMA Calm ==
    ASSUME Statement \/ Expression \/ Progress, TargetOK
    PROVE  signal = "none" /\ Quiet
BY DEF Statement, BeginBlock, BeginExpression, BeginIf, BeginWhile, BeginFor, BeginDoWhile,
       BeginSwitch, BeginTry, Begin, AtStatement,
       Expression, BeginCall, RunUserFunction, ReturnFromNative, EndOfBody, EndExpression,
       Progress, ParseAndExecute, EndProgram, EndBlock, ChooseBranch, EndIf, TestCondition,
       FinishInitialization, FinishIncrement, EndOfRound, Select, NextCase, EndOfCase, EndSwitch,
       ReachFinally, EndFinally, RunningIn, Running, TargetOK

\* Every step keeps the target of the exception in flight.
LEMMA TargetStep == StackOK /\ TargetOK /\ [Next]_vars => TargetOK'
<1> SUFFICES ASSUME StackOK, TargetOK, [Next]_vars PROVE TargetOK'
  OBVIOUS
<1>1. CASE Statement \/ Expression \/ Progress
  BY <1>1, Calm DEF Quiet, TargetOK
<1>2. CASE Jump \/ ThrowFromExpression
  <2>1. frames # <<>>
    BY <1>2 DEF Jump, ThrowFromExpression, AtStatement, Running
  <2>2. PICK thrown \in Signals : Raise(thrown)
    BY <1>2 DEF Jump, ThrowFromExpression, Signals
  <2> QED BY <2>1, <2>2, RaiseTargets
<1>3. CASE Unwind
  BY <1>3, UnwindTargets
<1>4. CASE CatchInLoop \/ CatchInSwitch \/ CatchInTry \/ CatchInCall \/ CatchInProgram
  <2>1. Caught
    BY <1>4 DEF CatchInLoop, CatchInSwitch, CatchInTry, CatchInCall, CatchInProgram
  <2> QED BY <2>1 DEF Caught, TargetOK
<1>5. CASE UNCHANGED vars
  BY <1>5 DEF vars, TargetOK, Takes
<1> QED BY <1>1, <1>2, <1>3, <1>4, <1>5 DEF Next, Exception

\* The target is always the last activation that takes the exception.
LEMMA TargetInvariant == Spec => [](StackOK /\ TargetOK)
<1>1. Init => TargetOK
  BY DEF Init, TargetOK
<1> QED BY <1>1, StackInit, StackStep, TargetStep, PTL DEF Spec

\* The type invariant, for visits nested to any depth.
THEOREM TypesCorrect == Spec => []TypeOK
<1>1. StackOK /\ TargetOK => TypeOK
  <2> SUFFICES ASSUME StackOK, TargetOK PROVE TypeOK
    OBVIOUS
  <2> DEFINE Activations == [kind : Kinds, at : BodyPlaces \cup EvalPlaces \cup {"bind"},
                             busy : BOOLEAN, flags : SUBSET Flags, base : Nat]
  <2>1. frames \in Seq(Activations)
    <3>1. Frames \subseteq Activations
      BY DEF Frames, Records, Places
    <3> HIDE DEF Activations
    <3> QED BY <3>1 DEF StackOK
  <2>2. depth \in 1..(BaseDepth + MaxFrames)
    <3>1. CASE frames = <<>>
      BY <3>1 DEF StackOK, ScopesFollowFrames
    <3>2. CASE frames # <<>>
      BY <3>2, TopFacts DEF StackOK
    <3> QED BY <3>1, <3>2
  <2>3. target \in 0..Len(frames)
    BY LenProperties DEF StackOK, TargetOK
  <2> QED BY <2>1, <2>2, <2>3 DEF StackOK, TargetOK, TypeOK
<1> QED BY <1>1, TargetInvariant, PTL

\* break, continue, return and errors are taken by the frame that they are
\* for when they are thrown, however many frames are unwound.
THEOREM JumpsLand == Spec => JumpLandsOnTarget
<1>1. StackOK /\ TargetOK /\ [Next]_vars
      => [signal # "none" /\ signal' = "none" => Len(frames) = target]_vars
  <2> SUFFICES ASSUME StackOK, TargetOK, Next, signal # "none", signal' = "none"
               PROVE  Len(frames) = target
    BY DEF vars
  <2>1. ~Quiet
    BY DEF Quiet
  <2>2. Exception
    BY <2>1, Calm DEF Next
  <2>3. ~Jump /\ ~ThrowFromExpression /\ ~Unwind
    BY <2>1 DEF Jump, ThrowFromExpression, Unwind, AtStatement, Running
  <2>4. frames # <<>> /\ Handles(Top)
    BY <2>2, <2>3
       DEF Exception, CatchInLoop, CatchInSwitch, CatchInTry, CatchInCall, CatchInProgram, Thrown
  <2>5. signal \in Signals
    BY DEF TargetOK
  <2>6. Takes(Top, signal)
    BY <2>4, <2>5, HandlesTakes
  <2>7. Len(frames) \in 1..Len(frames) /\ Len(frames) \in Nat
    BY <2>4, TopFacts
  <2>8. Len(frames) <= target /\ target \in 1..Len(frames)
    BY <2>6, <2>7 DEF TargetOK, Top
  <2> QED BY <2>7, <2>8
<1> QED BY <1>1, TargetInvariant, PTL DEF Spec, JumpLandsOnTarget

\* A try statement ends without its finally block in one case only: an
\* exception leaves its catch block.
THEOREM FinallyRunsOtherwise == Spec => FinallySkippedOnlyByCatch
<1>1. StackOK /\ [Next]_vars
      => [/\ Len(frames') < Len(frames)
          /\ Top.kind = "try" /\ "finally" \in Top.flags /\ Top.at # "finally"
          => Top.at = "catch" /\ signal # "none"]_vars
  <2> SUFFICES ASSUME StackOK, Next, Len(frames') < Len(frames),
                      Top.kind = "try", "finally" \in Top.flags, Top.at # "finally"
               PROVE  Top.at = "catch" /\ signal # "none"
    BY DEF vars
  <2>1. Len(frames) \in Nat /\ (StackOK' => Len(frames') \in Nat)
    BY LenProperties DEF StackOK
  <2>2. ~Remained
    BY <2>1 DEF Remained
  <2>3. frames # <<>>
    BY <2>2, Shape
  <2>4. ASSUME NEW at \in BodyPlaces PROVE ~(GoTo(at) /\ UNCHANGED depth)
    BY <2>2, <2>3, <2>4, GoToKeeps DEF Places
  <2>5. ~Statement /\ ~ParseAndExecute /\ ~BeginCall
    BY <2>2, StatementStep, FirstActivation, BeginCallKeeps
  <2>6. ~CatchInTry /\ ~ReachFinally
    BY <2>4 DEF CatchInTry, ReachFinally, BodyPlaces
  <2>7. Unwind \/ Jump \/ ThrowFromExpression
    BY <2>5, <2>6 DEF Next, Exception, Expression, Progress, CatchInLoop, CatchInSwitch,
       CatchInCall, CatchInProgram, RunUserFunction, ReturnFromNative, EndOfBody, EndExpression,
       EndProgram, EndBlock, ChooseBranch, EndIf, TestCondition, FinishInitialization,
       FinishIncrement, EndOfRound, Select, NextCase, EndOfCase, EndSwitch, EndFinally,
       RunningIn, Loops
  <2>8. Unwind
    BY <2>2, <2>7, Unmoved DEF Jump, ThrowFromExpression, Raise
  <2>9. Top.at \in BodyPlaces
    BY <2>3, TopFacts DEF Frames
  <2>10. signal # "none" /\ Top.at # "body"
    BY <2>8 DEF Unwind, Thrown, Handles
  <2> QED BY <2>9, <2>10 DEF BodyPlaces
<1> QED BY <1>1, StackInvariant, PTL DEF Spec, FinallySkippedOnlyByCatch
----------------------------------------------------------------------------
(* Signatures as keys of a table, and what they score.                     *)

\* A signature that scripts give has a list of parameters whose names have an
\* order.
LEMMA SignatureShape ==
    ASSUME NEW s \in Signatures
    PROVE  /\ Len(s.params) \in Nat /\ DOMAIN s.params = 1..Len(s.params)
           /\ \A i \in 1..Len(s.params) :
                s.params[i].name \in Int /\ (s.params[i].rest => s.params[i].type = "any")
<1>1. s.params \in Seq(ToSet(s.params))
  BY ClassAssumption DEF ClassAssumption
<1>2. Len(s.params) \in Nat /\ DOMAIN s.params = 1..Len(s.params)
  BY <1>1
<1> QED BY <1>2, ClassAssumption DEF ClassAssumption

\* The places where two lists of parameters differ, which operator< compares.
Differ(s, t) == {i \in DOMAIN s.params \cap DOMAIN t.params : s.params[i] # t.params[i]}

\* operator< in terms of these places.
LEMMA PrecedesAt ==
    ASSUME NEW s, NEW t
    PROVE  Precedes(s, t) <=>
             \/ Len(s.params) < Len(t.params)
             \/ /\ Len(s.params) = Len(t.params) /\ Differ(s, t) # {}
                /\ s.params[Min(Differ(s, t))].name < t.params[Min(Differ(s, t))].name
BY DEF Precedes, Differ

\* A key is found where it was put.
LEMMA SameKeySelf ==
    ASSUME NEW s \in Signatures
    PROVE  SameKey(s, s)
<1>1. Differ(s, s) = {}
  BY DEF Differ
<1>2. ~(Len(s.params) < Len(s.params))
  BY SignatureShape
<1> QED BY <1>1, <1>2, PrecedesAt DEF SameKey

\* It does not matter which of two keys was there first.
LEMMA SameKeySwaps ==
    ASSUME NEW s, NEW t
    PROVE  SameKey(s, t) => SameKey(t, s)
BY DEF SameKey

\* Keys that a table takes for the same have the same name and as many parameters,
\* and the first parameters in which they differ have the same name.
LEMMA SameKeySameNames ==
    ASSUME NEW s \in Signatures, NEW t \in Signatures, SameKey(s, t)
    PROVE  s.name = t.name /\ SameNames(s.params, t.params)
<1>1. /\ Len(s.params) \in Nat /\ DOMAIN s.params = 1..Len(s.params)
      /\ Len(t.params) \in Nat /\ DOMAIN t.params = 1..Len(t.params)
      /\ \A i \in 1..Len(s.params) : s.params[i].name \in Int
      /\ \A i \in 1..Len(t.params) : t.params[i].name \in Int
  BY SignatureShape
<1>2. s.name = t.name /\ ~Precedes(s, t) /\ ~Precedes(t, s)
  BY DEF SameKey
<1>3. Len(s.params) = Len(t.params)
  BY <1>1, <1>2, PrecedesAt
<1>4. ASSUME NEW i \in DOMAIN s.params, \A j \in 1 .. i - 1 : s.params[j] = t.params[j]
      PROVE  s.params[i].name = t.params[i].name
  <2>1. CASE s.params[i] = t.params[i]
    BY <2>1
  <2>2. CASE s.params[i] # t.params[i]
    <3>1. /\ i \in Differ(s, t) /\ Differ(s, t) \subseteq Nat
          /\ Differ(s, t) \subseteq 1..Len(s.params)
      BY <1>1, <1>3, <1>4, <2>2 DEF Differ
    <3>2. Differ(t, s) = Differ(s, t)
      BY DEF Differ
    <3>3. Min(Differ(s, t)) \in Differ(s, t) /\ Min(Differ(s, t)) <= i
      BY <3>1, MinIsSmallest
    <3>4. ~(Min(Differ(s, t)) \in 1 .. i - 1)
      BY <1>4, <3>3 DEF Differ
    <3>5. Min(Differ(s, t)) = i
      BY <1>1, <1>4, <3>1, <3>3, <3>4
    <3>6. ~(s.params[i].name < t.params[i].name) /\ ~(t.params[i].name < s.params[i].name)
      BY <1>2, <1>3, <3>1, <3>2, <3>5, PrecedesAt
    <3> QED BY <1>1, <1>3, <1>4, <3>6
  <2> QED BY <2>1, <2>2
<1> QED BY <1>2, <1>3, <1>4 DEF SameNames

\* An argument earns at most 100, and that only if a parameter has its type.
LEMMA PointsBound ==
    ASSUME NEW s \in Signatures, NEW args, Len(args) \in Nat, DOMAIN args = 1..Len(args),
           NEW i \in 1..Len(args)
    PROVE  /\ Points(s, args, i) \in {-1, 0, 100}
           /\ CanAccept(s, args) =>
                (Points(s, args, i) = 100 <=>
                   /\ args[i] \notin {Null, "any"} /\ i <= Len(s.params)
                   /\ ~s.params[i].rest /\ s.params[i].type = args[i])
<1> DEFINE last == Max({j \in DOMAIN s.params : s.params[j].rest})
           expected == IF i > Len(s.params) THEN s.params[last].type ELSE s.params[i].type
<1>1. /\ Len(s.params) \in Nat /\ DOMAIN s.params = 1..Len(s.params)
      /\ \A j \in 1..Len(s.params) : s.params[j].rest => s.params[j].type = "any"
  BY SignatureShape
<1>2. Points(s, args, i) =
        IF args[i] = Null \/ (i <= Len(s.params) /\ s.params[i].rest) THEN 0
        ELSE TypeScore(expected, args[i])
  BY DEF Points
<1>3. /\ TypeScore(expected, args[i]) \in {-1, 0, 100}
      /\ TypeScore(expected, args[i]) = 100 <=> expected # "any" /\ expected = args[i]
  <2>1. ASSUME NEW e, NEW a
        PROVE  /\ TypeScore(e, a) \in {-1, 0, 100}
               /\ TypeScore(e, a) = 100 <=> e # "any" /\ e = a
    BY DEF TypeScore, CompatibleType
  <2> HIDE DEF expected
  <2> QED BY <2>1
<1>4. ASSUME CanAccept(s, args), i > Len(s.params) PROVE expected = "any"
  <2>1. \E j \in 1..Len(s.params) : s.params[j].rest
    BY <1>1, <1>4 DEF CanAccept, HasRest
  <2>2. last \in {j \in DOMAIN s.params : s.params[j].rest}
    BY <1>1, <2>1, LastPlace
  <2> QED BY <1>1, <1>4, <2>2
<1>5. ASSUME CanAccept(s, args)
      PROVE  Points(s, args, i) = 100 <=>
                   /\ args[i] \notin {Null, "any"} /\ i <= Len(s.params)
                   /\ ~s.params[i].rest /\ s.params[i].type = args[i]
  <2>1. CASE i > Len(s.params)
    <3>1. expected = "any" /\ ~(i <= Len(s.params))
      BY <1>1, <1>4, <1>5, <2>1
    <3> HIDE DEF expected
    <3> QED BY <1>2, <1>3, <3>1
  <2>2. CASE i <= Len(s.params)
    <3>1. expected = s.params[i].type
      BY <1>1, <2>2
    <3> HIDE DEF expected
    <3> QED BY <1>2, <1>3, <2>2, <3>1
  <2> QED BY <1>1, <2>1, <2>2
<1> HIDE DEF expected
<1> QED BY <1>2, <1>3, <1>5

\* The function that Score defines.
IsTotal(f, s, args) ==
    f = [n \in 0 .. Len(args) |-> IF n = 0 THEN 0 ELSE f[n - 1] + Points(s, args, n)]

\* There is such a function, and the score is its last value.
LEMMA ScoreIsTotal ==
    ASSUME NEW s \in Signatures, NEW args, Len(args) \in Nat, DOMAIN args = 1..Len(args),
           CanAccept(s, args)
    PROVE  \E f \in [0..Len(args) -> Int] : IsTotal(f, s, args) /\ Score(s, args) = f[Len(args)]
<1> DEFINE step == [n \in 1..Len(args) |-> [r \in Int |-> r + Points(s, args, n)]]
<1>1. \A n \in 1..Len(args) : Points(s, args, n) \in Int
  BY PointsBound
<1>2. step \in [(0 + 1)..Len(args) -> [Int -> Int]]
  BY <1>1
<1>3. \A n \in 1..Len(args), r \in Int : step[n][r] = r + Points(s, args, n)
  OBVIOUS
<1> HIDE DEF step
<1>4. PICK f : LoopFrom(f, Int, 0, Len(args), 0, step)
  <2>1. 0 \in Nat /\ 0 <= Len(args) /\ 0 \in Int
    OBVIOUS
  <2> QED BY <1>2, <2>1, LoopRuns, Zenon
<1>5. /\ f \in [0..Len(args) -> Int] /\ f[0] = 0
      /\ \A n \in 1..Len(args) : f[n] = step[n][f[n - 1]]
  BY <1>4 DEF LoopFrom
<1>6. ASSUME NEW n \in 1..Len(args) PROVE f[n] = f[n - 1] + Points(s, args, n)
  <2>1. n - 1 \in 0..Len(args)
    BY <1>6
  <2>2. f[n - 1] \in Int
    BY <1>5, <2>1
  <2> QED BY <1>3, <1>5, <2>2
<1>7. IsTotal(f, s, args)
  <2>1. \A n \in 0..Len(args) : n # 0 => n \in 1..Len(args)
    OBVIOUS
  <2> QED BY <1>5, <1>6, <2>1 DEF IsTotal
<1>8. Score(s, args) = (CHOOSE g : IsTotal(g, s, args))[Len(args)]
  BY DEF Score, IsTotal
<1> DEFINE g == CHOOSE h : IsTotal(h, s, args)
<1>9. IsTotal(g, s, args)
  BY <1>7, Zenon
<1>10. g \in [0..Len(args) -> Int]
  <2>1. g = [n \in 0 .. Len(args) |-> IF n = 0 THEN 0 ELSE g[n - 1] + Points(s, args, n)]
    BY <1>9 DEF IsTotal
  <2> HIDE DEF g
  <2> DEFINE Bad == {n \in 0..Len(args) : g[n] \notin Int}
  <2>2. SUFFICES ASSUME Bad # {} PROVE FALSE
    BY <2>1
  <2>3. PICK n \in Bad : \A m \in Bad : n <= m
    <3>1. Bad \subseteq Nat
      OBVIOUS
    <3> HIDE DEF Bad
    <3> QED BY <2>2, <3>1, SmallestOf
  <2>4. n \in 0..Len(args) /\ g[n] \notin Int
    BY <2>3
  <2>5. n # 0 /\ n \in 1..Len(args) /\ g[n] = g[n - 1] + Points(s, args, n)
    BY <2>1, <2>4
  <2>6. n - 1 \in 0..Len(args) /\ ~(n <= n - 1)
    BY <2>4, <2>5
  <2>7. g[n - 1] \in Int
    BY <2>3, <2>6
  <2> QED BY <1>1, <2>4, <2>5, <2>7
<1> QED BY <1>8, <1>9, <1>10

\* A score is at most 100 for each argument, and that only if the signature is
\* explicit about all of them.
LEMMA ScoreBound ==
    ASSUME NEW s \in Signatures, NEW args, Len(args) \in Nat, DOMAIN args = 1..Len(args)
    PROVE  /\ Score(s, args) \in Int /\ Score(s, args) <= 100 * Len(args)
           /\ Explicit(s, args) <=> Score(s, args) = 100 * Len(args)
<1>1. CASE ~CanAccept(s, args)
  <2>1. Score(s, args) = -1 /\ ~Explicit(s, args)
    BY <1>1 DEF Score, Explicit
  <2> QED BY <2>1
<1>2. CASE CanAccept(s, args)
  <2>1. PICK f \in [0..Len(args) -> Int] : IsTotal(f, s, args) /\ Score(s, args) = f[Len(args)]
    BY <1>2, ScoreIsTotal
  <2>2. /\ f[0] = 0
        /\ \A n \in 1..Len(args) : f[n] = f[n - 1] + Points(s, args, n)
    BY <2>1 DEF IsTotal
  <2>3. \A n \in 1..Len(args) : Points(s, args, n) \in Int /\ Points(s, args, n) <= 100
    BY PointsBound
  <2>4. \A n \in 1..Len(args) : n - 1 \in 0..Len(args) /\ n \in 0..Len(args) /\ n \in Nat
    OBVIOUS
  <2>5. ASSUME NEW m \in 0..Len(args) PROVE f[m] <= 100 * m
    <3> DEFINE Bad == {n \in 0..Len(args) : ~(f[n] <= 100 * n)}
    <3>1. SUFFICES ASSUME Bad # {} PROVE FALSE
      OBVIOUS
    <3>2. PICK n \in Bad : \A k \in Bad : n <= k
      <4>1. Bad \subseteq Nat
        OBVIOUS
      <4> HIDE DEF Bad
      <4> QED BY <3>1, <4>1, SmallestOf
    <3>3. n \in 0..Len(args) /\ ~(f[n] <= 100 * n)
      BY <3>2
    <3>4. n # 0 /\ n \in 1..Len(args)
      BY <2>2, <3>3
    <3>5. n - 1 \in 0..Len(args) /\ ~(n <= n - 1)
      BY <3>4
    <3>6. f[n - 1] <= 100 * (n - 1) /\ f[n - 1] \in Int
      BY <2>1, <3>2, <3>5
    <3> QED BY <2>2, <2>3, <3>3, <3>4, <3>6
  <2>6. ASSUME f[Len(args)] = 100 * Len(args), NEW m \in 0..Len(args)
        PROVE  f[m] = 100 * m
    <3> DEFINE Bad == {d \in 0..Len(args) : f[Len(args) - d] # 100 * (Len(args) - d)}
    <3>1. ASSUME Bad # {} PROVE FALSE
      <4>1. PICK d \in Bad : \A k \in Bad : d <= k
        <5>1. Bad \subseteq Nat
          OBVIOUS
        <5> HIDE DEF Bad
        <5> QED BY <3>1, <5>1, SmallestOf
      <4>2. d \in 0..Len(args) /\ f[Len(args) - d] # 100 * (Len(args) - d)
        BY <4>1
      <4>3. d # 0
        <5>1. Len(args) - 0 = Len(args)
          OBVIOUS
        <5> QED BY <2>6, <4>2, <5>1
      <4>4. d - 1 \in 0..Len(args) /\ ~(d <= d - 1)
        BY <4>2, <4>3
      <4>5. f[Len(args) - (d - 1)] = 100 * (Len(args) - (d - 1))
        <5>1. d - 1 \notin Bad
          <6> HIDE DEF Bad
          <6> QED BY <4>1, <4>4
        <5> QED BY <4>4, <5>1
      <4>6. PICK n \in 1..Len(args) : n = Len(args) - (d - 1)
        <5>1. Len(args) - (d - 1) \in 1..Len(args)
          BY <4>2, <4>3
        <5> QED BY <5>1
      <4>7. Len(args) - d = n - 1 /\ n - 1 \in 0..Len(args)
        BY <4>2, <4>6
      <4>8. f[n] = 100 * n /\ f[n - 1] # 100 * (n - 1) /\ f[n - 1] <= 100 * (n - 1) /\ f[n - 1] \in Int
        BY <2>1, <2>5, <4>2, <4>5, <4>6, <4>7
      <4>9. f[n] = f[n - 1] + Points(s, args, n) /\ Points(s, args, n) \in Int /\ Points(s, args, n) <= 100
        BY <2>2, <2>3, <4>6
      <4>10. n \in Int
        BY <4>6
      <4>11. ASSUME NEW x \in Int, NEW p \in Int, NEW k \in Int,
                    x + p = 100 * k, x <= 100 * (k - 1), p <= 100
             PROVE  x = 100 * (k - 1)
        BY <4>11
      <4> HIDE DEF Bad
      <4> QED BY <4>8, <4>9, <4>10, <4>11
    <3>2. Len(args) - m \in 0..Len(args) /\ Len(args) - (Len(args) - m) = m
      OBVIOUS
    <3>3. Len(args) - m \notin Bad
      BY <3>1
    <3> QED BY <3>2, <3>3
  <2>7. ASSUME f[Len(args)] = 100 * Len(args), NEW n \in 1..Len(args)
        PROVE  Points(s, args, n) = 100
    <3>1. f[n] = 100 * n /\ f[n - 1] = 100 * (n - 1)
      BY <2>4, <2>6, <2>7
    <3> QED BY <2>2, <2>3, <2>4, <3>1
  <2>8. ASSUME \A n \in 1..Len(args) : Points(s, args, n) = 100, NEW m \in 0..Len(args)
        PROVE  f[m] = 100 * m
    <3> DEFINE Bad == {n \in 0..Len(args) : f[n] # 100 * n}
    <3>1. SUFFICES ASSUME Bad # {} PROVE FALSE
      OBVIOUS
    <3>2. PICK n \in Bad : \A k \in Bad : n <= k
      <4>1. Bad \subseteq Nat
        OBVIOUS
      <4> HIDE DEF Bad
      <4> QED BY <3>1, <4>1, SmallestOf
    <3>3. n \in 0..Len(args) /\ f[n] # 100 * n
      BY <3>2
    <3>4. n # 0 /\ n \in 1..Len(args)
      BY <2>2, <3>3
    <3>5. n - 1 \in 0..Len(args) /\ ~(n <= n - 1)
      BY <3>4
    <3>6. f[n - 1] = 100 * (n - 1)
      BY <3>2, <3>5
    <3> QED BY <2>2, <2>8, <3>3, <3>4, <3>6
  <2>9. Len(args) \in 0..Len(args)
    OBVIOUS
  <2>10. Explicit(s, args) <=> \A n \in 1..Len(args) : Points(s, args, n) = 100
    BY <1>2, PointsBound DEF Explicit
  <2>11. Score(s, args) \in Int /\ Score(s, args) <= 100 * Len(args)
    BY <2>1, <2>5, <2>9
  <2>12. (\A n \in 1..Len(args) : Points(s, args, n) = 100) <=> f[Len(args)] = 100 * Len(args)
    BY <2>7, <2>8, <2>9
  <2> QED BY <2>1, <2>10, <2>11, <2>12
<1> QED BY <1>1, <1>2

----------------------------------------------------------------------------
(* Tables of methods.                                                      *)

\* The values that entries and tables have.
Entries == [key : Signatures, function : [signature : Signatures, runs : BOOLEAN]]
Tables == [entries : SUBSET Entries, listed : Seq(Signatures)]

\* A table whose keys have an order holds a function under each signature that was
\* added, and that function has a signature the table takes for the same.
TableOK(table) ==
    /\ table.listed \in Seq(Signatures)
    /\ \A e \in table.entries :
          /\ e.key \in Listed(table)
          /\ \E s \in Listed(table), b \in BOOLEAN : e.function = Method(s, b) /\ SameKey(e.key, s)
    /\ \A s \in Listed(table) : \E e \in table.entries : SameKey(e.key, s)
    /\ WeakOrder(Listed(table))

\* So does a table to which nothing was added.
LEMMA NoTableOK == TableOK(NoTable)
<1>1. Listed(NoTable) = {}
  BY DEF Listed, NoTable
<1> QED BY <1>1 DEF TableOK, NoTable, WeakOrder

\* The signatures of a table are among those that scripts give.
LEMMA ListedSignatures ==
    ASSUME NEW table, table.listed \in Seq(Signatures)
    PROVE  /\ Listed(table) \subseteq Signatures
           /\ Len(table.listed) \in Nat /\ DOMAIN table.listed = 1..Len(table.listed)
           /\ \A i \in 1..Len(table.listed) : table.listed[i] \in Listed(table)
<1>1. /\ Len(table.listed) \in Nat /\ DOMAIN table.listed = 1..Len(table.listed)
      /\ \A i \in 1..Len(table.listed) : table.listed[i] \in Signatures
  OBVIOUS
<1> QED BY <1>1 DEF Listed

\* Keys with an order: what is the same as a key is the same as what is the same
\* as it.
LEMMA SameKeyChain ==
    ASSUME NEW keys, WeakOrder(keys), NEW s \in keys, NEW t \in keys, NEW u \in keys,
           SameKey(s, t), SameKey(t, u)
    PROVE  SameKey(s, u)
BY DEF WeakOrder

\* addUserMethod lists the signature, whatever the order of the keys.
LEMMA AddedLists ==
    ASSUME NEW table \in Tables, NEW key \in Signatures, NEW runs \in BOOLEAN
    PROVE  /\ Added(table, key, Method(key, runs)) \in Tables
           /\ Listed(Added(table, key, Method(key, runs))) = Listed(table) \cup {key}
<1> DEFINE new  == Added(table, key, Method(key, runs))
           same == {e \in table.entries : SameKey(e.key, key)}
           kept == IF same = {} THEN key ELSE (CHOOSE e \in same : TRUE).key
           entry == [key |-> kept, function |-> Method(key, runs)]
<1>1. new = [entries |-> (table.entries \ same) \cup {entry}, listed |-> Append(table.listed, key)]
  BY DEF Added
<1>2. /\ table.listed \in Seq(Signatures) /\ table.entries \subseteq Entries
      /\ Len(table.listed) \in Nat /\ DOMAIN table.listed = 1..Len(table.listed)
  BY ListedSignatures DEF Tables
<1>3. kept \in Signatures
  BY <1>2 DEF Entries
<1>4. new.listed = Append(table.listed, key)
  BY <1>1
<1>5. new \in Tables
  <2>1. entry \in Entries
    <3> HIDE DEF kept
    <3> QED BY <1>3 DEF Entries, Method
  <2>2. (table.entries \ same) \cup {entry} \subseteq Entries
    <3> HIDE DEF entry, same
    <3> QED BY <1>2, <2>1
  <2>3. Append(table.listed, key) \in Seq(Signatures)
    BY <1>2
  <2> HIDE DEF new, entry, same, kept
  <2> QED BY <1>1, <2>2, <2>3 DEF Tables
<1>6. Listed(new) = Listed(table) \cup {key}
  <2>1. /\ DOMAIN new.listed = 1..(Len(table.listed) + 1)
        /\ \A i \in 1..Len(table.listed) : new.listed[i] = table.listed[i]
        /\ new.listed[Len(table.listed) + 1] = key
    BY <1>2, <1>4
  <2>2. \A i \in 1..(Len(table.listed) + 1) : i \in 1..Len(table.listed) \/ i = Len(table.listed) + 1
    BY <1>2
  <2>3. \A i \in 1..Len(table.listed) : i \in 1..(Len(table.listed) + 1)
    BY <1>2
  <2>4. Len(table.listed) + 1 \in 1..(Len(table.listed) + 1)
    BY <1>2
  <2> HIDE DEF new
  <2>5. Listed(new) \subseteq Listed(table) \cup {key}
    BY <1>2, <2>1, <2>2 DEF Listed
  <2>6. Listed(table) \cup {key} \subseteq Listed(new)
    BY <1>2, <2>1, <2>3, <2>4 DEF Listed
  <2> QED BY <2>5, <2>6
<1> QED BY <1>5, <1>6

\* It keeps a table whose keys have an order.
LEMMA AddedKeeps ==
    ASSUME NEW table \in Tables, TableOK(table), NEW key \in Signatures, NEW runs \in BOOLEAN,
           WeakOrder(Listed(table) \cup {key})
    PROVE  TableOK(Added(table, key, Method(key, runs)))
<1> DEFINE new  == Added(table, key, Method(key, runs))
           same == {e \in table.entries : SameKey(e.key, key)}
           kept == IF same = {} THEN key ELSE (CHOOSE e \in same : TRUE).key
           entry == [key |-> kept, function |-> Method(key, runs)]
           keys == Listed(table) \cup {key}
<1>1. new.entries = (table.entries \ same) \cup {entry}
  BY DEF Added
<1>2. /\ Listed(table) \subseteq Signatures /\ keys \subseteq Signatures
      /\ \A e \in table.entries : e.key \in Listed(table)
  BY ListedSignatures DEF TableOK
<1>3. Listed(new) = keys
  BY AddedLists
<1>4. new.listed \in Seq(Signatures)
  BY AddedLists DEF Tables
<1>5. /\ kept \in keys /\ SameKey(kept, key)
      /\ \A e \in same : SameKey(kept, e.key)
  <2>1. CASE same = {}
    <3>1. kept = key
      BY <2>1
    <3> HIDE DEF kept, same
    <3> QED BY <2>1, <3>1, SameKeySelf
  <2>2. CASE same # {}
    <3>1. PICK e \in same : kept = e.key
      BY <2>2
    <3>2. kept \in Listed(table) /\ SameKey(kept, key)
      BY <1>2, <3>1
    <3>3. ASSUME NEW d \in same PROVE SameKey(kept, d.key)
      <4>1. d.key \in keys /\ SameKey(key, d.key)
        BY <1>2, SameKeySwaps
      <4> HIDE DEF kept, same
      <4> QED BY <3>2, <4>1, SameKeyChain
    <3> HIDE DEF kept, same
    <3> QED BY <3>2, <3>3
  <2> QED BY <2>1, <2>2
<1> HIDE DEF new
<1>6. ASSUME NEW e \in new.entries
      PROVE  /\ e.key \in keys
             /\ \E s \in keys, b \in BOOLEAN : e.function = Method(s, b) /\ SameKey(e.key, s)
  <2>1. CASE e \in table.entries
    <3> HIDE DEF kept, same
    <3> QED BY <1>2, <2>1 DEF TableOK
  <2>2. CASE e = entry
    <3>1. e.key = kept /\ e.function = Method(key, runs)
      BY <2>2
    <3> HIDE DEF kept, entry
    <3> QED BY <1>5, <3>1
  <2> QED BY <1>1, <2>1, <2>2
<1>7. ASSUME NEW s \in keys
      PROVE  \E e \in new.entries : SameKey(e.key, s)
  <2>1. entry \in new.entries /\ entry.key = kept
    BY <1>1
  <2>2. CASE s = key
    <3> HIDE DEF kept, entry
    <3> QED BY <1>5, <2>1, <2>2
  <2>3. CASE s \in Listed(table)
    <3>1. PICK e \in table.entries : SameKey(e.key, s)
      BY <2>3 DEF TableOK
    <3>2. CASE e \notin same
      BY <1>1, <3>1, <3>2
    <3>3. CASE e \in same
      <4>1. kept \in keys /\ e.key \in keys /\ SameKey(kept, e.key)
        BY <1>2, <1>5, <3>3
      <4> HIDE DEF kept, entry
      <4>2. SameKey(kept, s)
        BY <3>1, <4>1, SameKeyChain
      <4> QED BY <2>1, <4>2
    <3> QED BY <3>2, <3>3
  <2> QED BY <2>2, <2>3
<1> HIDE DEF same, kept, entry
<1> QED BY <1>3, <1>4, <1>6, <1>7 DEF TableOK, new

\* A signature that was added is found, with a function whose own signature the
\* table takes for the same.
LEMMA ExactFinds ==
    ASSUME NEW table, TableOK(table), NEW s \in Listed(table)
    PROVE  /\ FindExact(table, s) # None
           /\ \E u \in Listed(table) : FindExact(table, s).signature = u /\ SameKey(u, s)
<1> DEFINE same == {e \in table.entries : SameKey(e.key, s)}
<1>1. same # {}
  BY DEF TableOK
<1>2. PICK e \in same : FindExact(table, s) = e.function
  BY <1>1 DEF FindExact
<1>3. PICK u \in Listed(table), b \in BOOLEAN : e.function = Method(u, b) /\ SameKey(e.key, u)
  BY DEF TableOK
<1>4. e.key \in Listed(table) /\ SameKey(e.key, s)
  BY DEF TableOK
<1>5. SameKey(u, s)
  <2>1. SameKey(u, e.key)
    BY <1>3, SameKeySwaps
  <2> QED BY <1>4, <2>1, SameKeyChain DEF TableOK
<1>6. u \in Signatures
  BY ListedSignatures DEF TableOK
<1>7. FindExact(table, s) # None
  BY <1>2, <1>3, <1>6, ClassAssumption DEF ClassAssumption
<1>8. FindExact(table, s).signature = u
  BY <1>2, <1>3 DEF Method
<1> QED BY <1>5, <1>7, <1>8

\* A search by name finds a method if there is one of the name.
LEMMA NameFinds ==
    ASSUME NEW table, TableOK(table), NEW name, HasMethod(table, name)
    PROVE  FindBySignature(table, Signature(name, <<>>)) # None
<1> DEFINE signature == Signature(name, <<>>)
           overloads == Overloads(table, name)
<1>1. signature.name = name /\ signature.params = <<>>
  BY DEF Signature
<1>2. overloads # {} /\ overloads \subseteq Nat /\ overloads \subseteq 1..Len(table.listed)
  BY ListedSignatures DEF HasMethod, Overloads, TableOK
<1>3. Min(overloads) \in overloads
  <2> HIDE DEF overloads
  <2> QED BY <1>2, MinIsSmallest
<1>4. FindExact(table, table.listed[Min(overloads)]) # None
  BY <1>2, <1>3, ListedSignatures, ExactFinds DEF TableOK
<1> HIDE DEF signature
<1> QED BY <1>1, <1>2, <1>4 DEF FindBySignature, signature

\* A search by arguments finds a method if one of the name can be called, and what
\* it finds is in the place of one that scores no less.
LEMMA BestFinds ==
    ASSUME NEW table, TableOK(table), NEW name, NEW args, Len(args) \in Nat,
           DOMAIN args = 1..Len(args),
           NEW i \in Overloads(table, name), Score(table.listed[i], args) > -1
    PROVE  \E j \in Overloads(table, name) :
              /\ Score(table.listed[j], args) >= Score(table.listed[i], args)
              /\ FindBest(table, name, args) = FindExact(table, table.listed[j])
<1> DEFINE overloads == Overloads(table, name)
           Scored(j) == Score(table.listed[j], args)
           most == 100 * Len(args)
<1>1. /\ overloads \subseteq Nat
      /\ \A j \in overloads : table.listed[j] \in Signatures /\ table.listed[j] \in Listed(table)
  BY ListedSignatures DEF Overloads, TableOK
<1>2. most \in Nat /\ \A j \in overloads : Scored(j) \in Int /\ Scored(j) <= most
  BY <1>1, ScoreBound
<1> DEFINE lost == {most - Scored(j) : j \in overloads}
<1>3. PICK x \in lost : \A y \in lost : x <= y
  <2>1. ASSUME NEW j \in overloads PROVE most - Scored(j) \in Nat
    <3>1. Scored(j) \in Int /\ Scored(j) <= most /\ most \in Nat
      BY <1>2, <2>1
    <3> HIDE DEF Scored, most
    <3> QED BY <3>1
  <2>2. lost \subseteq Nat /\ lost # {}
    <3> HIDE DEF Scored, most, overloads
    <3>1. i \in overloads
      BY DEF overloads
    <3> QED BY <2>1, <3>1
  <2> HIDE DEF lost
  <2> QED BY <2>2, SmallestOf
<1>4. PICK k \in overloads : x = most - Scored(k)
  BY <1>3
<1> HIDE DEF Scored, most, overloads
<1>5. \A j \in overloads : Scored(j) <= Scored(k)
  <2>1. ASSUME NEW j \in overloads PROVE Scored(j) <= Scored(k)
    <3>1. most - Scored(k) <= most - Scored(j)
      BY <1>3, <1>4
    <3>2. most \in Nat /\ Scored(j) \in Int /\ Scored(k) \in Int
      BY <1>2
    <3> QED BY <3>1, <3>2
  <2> QED BY <2>1
<1> DEFINE first == {j \in overloads : Scored(j) = Scored(k)}
<1>6. PICK b \in first : \A j \in first : b <= j
  <2>1. first \subseteq Nat /\ first # {}
    BY <1>1
  <2> HIDE DEF first
  <2> QED BY <2>1, SmallestOf
<1>7. b \in overloads /\ Scored(b) = Scored(k)
  BY <1>6
<1>8. i \in overloads /\ Scored(i) > -1
  BY DEF overloads, Scored
<1>9. Scored(b) > -1
  BY <1>2, <1>5, <1>7, <1>8
<1>10. ASSUME NEW j \in overloads, j < b PROVE Scored(j) < Scored(b)
  <2>1. j \notin first
    BY <1>1, <1>6, <1>7, <1>10
  <2>2. Scored(j) # Scored(k) /\ Scored(j) <= Scored(k)
    BY <1>5, <2>1
  <2> QED BY <1>2, <1>7, <2>2
<1>11. IsBest(table, name, args, b)
  BY <1>5, <1>7, <1>9, <1>10 DEF IsBest, Scored, overloads
<1> DEFINE best == {j \in overloads : IsBest(table, name, args, j)}
<1>12. best # {}
  BY <1>7, <1>11
<1>13. PICK j \in best : FindBest(table, name, args) = FindBySignature(table, table.listed[j])
  BY <1>12 DEF FindBest, overloads
<1>14. j \in overloads /\ IsBest(table, name, args, j)
  BY <1>13
<1>15. Scored(i) <= Scored(j)
  BY <1>8, <1>14 DEF IsBest, Scored, overloads
<1>16. FindExact(table, table.listed[j]) # None
  BY <1>1, <1>14, ExactFinds
<1>17. FindBySignature(table, table.listed[j]) = FindExact(table, table.listed[j])
  BY <1>16 DEF FindBySignature
<1>18. Scored(j) >= Scored(i)
  BY <1>2, <1>8, <1>14, <1>15
<1> QED BY <1>13, <1>14, <1>17, <1>18 DEF Scored, overloads

----------------------------------------------------------------------------
(* The inductive invariant.                                                *)

UserTypes ==
    [name : TypeNames, kind : {"class", "struct", "interface"}, methods : Tables,
     statics : {NoTable}, required : SUBSET InterfaceMethods]
Scopes ==
    [types : [TypeNames -> Nat], functions : SUBSET FunctionNames,
     class : TypeNames \cup {None}, struct : TypeNames \cup {None}]
UserPlaces == DOMAIN types \ DOMAIN BuiltinTypes

\* The built-in types come first and stay as they were made.
TypesTyped ==
    /\ types \in Seq(UserTypes \cup ToSet(BuiltinTypes))
    /\ DOMAIN BuiltinTypes \subseteq DOMAIN types
    /\ \A t \in DOMAIN BuiltinTypes : types[t] = BuiltinTypes[t]
    /\ \A t \in UserPlaces : types[t] \in UserTypes

\* A name in a scope stands for a type that was made.
ScopesTyped ==
    /\ scopes \in Seq(Scopes) /\ scopes # <<>>
    /\ \A i \in DOMAIN scopes, n \in TypeNames : scopes[i].types[n] \in {0} \cup DOMAIN types

\* The class whose body is visited is the one that the context names, and its name
\* still stands for it.
BodyOK ==
    body # None =>
    /\ body.type \in UserPlaces /\ body.implements \subseteq TypeNames
    /\ types[body.type].kind = "class" =>
         Here.class \in TypeNames /\ Here.types[Here.class] = body.type

\* A verdict stays true.
VerdictsOK ==
    \A v \in verdicts :
        /\ v[1] \in UserPlaces /\ v[2] \in DOMAIN types
        /\ \A m \in types[v[2]].required : HasMethod(types[v[1]].methods, m)

\* Only classes and structs have methods, and their tables find them, as long as
\* the keys of all have an order.
TablesOK ==
    /\ \A t \in UserPlaces : types[t].kind = "interface" => types[t].methods = NoTable
    /\ ~undefined => \A t \in UserPlaces : TableOK(types[t].methods)

TypesInv == TypesTyped /\ ScopesTyped /\ BodyOK /\ VerdictsOK /\ TablesOK

\* Places of types and scopes are numbers from 1 on, and the current scope is the
\* last.
LEMMA PlacesOfTypes ==
    ASSUME TypesInv
    PROVE  /\ Len(types) \in Nat /\ DOMAIN types = 1..Len(types)
           /\ Len(BuiltinTypes) \in Nat /\ DOMAIN BuiltinTypes = 1..Len(BuiltinTypes)
           /\ Len(scopes) \in Nat /\ DOMAIN scopes = 1..Len(scopes)
           /\ Len(scopes) \in DOMAIN scopes /\ Here \in Scopes
           /\ \A i \in DOMAIN scopes : scopes[i] \in Scopes
<1>1. /\ types \in Seq(UserTypes \cup ToSet(BuiltinTypes))
      /\ scopes \in Seq(Scopes) /\ scopes # <<>>
  BY DEF TypesInv, TypesTyped, ScopesTyped
<1>2. Len(types) \in Nat /\ DOMAIN types = 1..Len(types)
  BY <1>1
<1>3. BuiltinTypes \in Seq(ToSet(BuiltinTypes))
  BY ClassAssumption DEF ClassAssumption
<1>4. Len(BuiltinTypes) \in Nat /\ DOMAIN BuiltinTypes = 1..Len(BuiltinTypes)
  BY <1>3
<1>5. /\ Len(scopes) \in Nat /\ DOMAIN scopes = 1..Len(scopes) /\ Len(scopes) # 0
      /\ \A i \in DOMAIN scopes : scopes[i] \in Scopes
  BY <1>1
<1>6. Len(scopes) \in DOMAIN scopes
  BY <1>5
<1> QED BY <1>2, <1>4, <1>5, <1>6 DEF Here

\* A name stands for a type that was made, or for none.
LEMMA LookupFinds ==
    ASSUME TypesInv, NEW n \in TypeNames
    PROVE  LookupType(n) \in {0} \cup DOMAIN types
<1> DEFINE at == {i \in DOMAIN scopes : scopes[i].types[n] # 0}
           exact == {t \in DOMAIN BuiltinTypes : BuiltinTypes[t].name = n}
           alike == {t \in DOMAIN BuiltinTypes : Lower[BuiltinTypes[t].name] = Lower[n]}
<1>1. CASE at # {}
  <2>1. Max(at) \in at
    <3>1. at \subseteq 1..Len(scopes) /\ Len(scopes) \in Nat
      BY PlacesOfTypes
    <3> HIDE DEF at
    <3> QED BY <1>1, <3>1, LastPlace
  <2>2. LookupType(n) = scopes[Max(at)].types[n]
    BY <1>1 DEF LookupType
  <2> QED BY <2>1, <2>2 DEF TypesInv, ScopesTyped
<1>2. CASE at = {}
  <2>1. LookupType(n) = Globally(n)
    BY <1>2 DEF LookupType
  <2>2. exact # {} => Min(exact) \in exact
    <3>1. exact \subseteq Nat
      BY PlacesOfTypes
    <3> HIDE DEF exact
    <3> QED BY <3>1, MinIsSmallest
  <2>3. alike # {} => Min(alike) \in alike
    <3>1. alike \subseteq Nat
      BY PlacesOfTypes
    <3> HIDE DEF alike
    <3> QED BY <3>1, MinIsSmallest
  <2>4. Globally(n) \in {0} \cup DOMAIN BuiltinTypes
    BY <2>2, <2>3 DEF Globally
  <2> QED BY <2>1, <2>4 DEF TypesInv, TypesTyped
<1> QED BY <1>1, <1>2

\* While the body of a class is visited, methods are for its own type.
LEMMA ContextIsBody ==
    ASSUME TypesInv, body # None, types[body.type].kind = "class"
    PROVE  ContextType = body.type
<1> DEFINE at == {i \in DOMAIN scopes : scopes[i].types[Here.class] # 0}
<1>1. /\ Here.class \in TypeNames /\ Here.types[Here.class] = body.type
      /\ body.type \in UserPlaces
  BY DEF TypesInv, BodyOK
<1>2. Here.class # None
  BY <1>1, ClassAssumption DEF ClassAssumption
<1>3. body.type # 0
  BY <1>1, PlacesOfTypes DEF UserPlaces
<1>4. Len(scopes) \in at
  BY <1>1, <1>3, PlacesOfTypes DEF Here
<1>5. Max(at) = Len(scopes)
  <2>1. at \subseteq 1..Len(scopes) /\ Len(scopes) \in Nat
    BY PlacesOfTypes
  <2>2. Max(at) \in at /\ Len(scopes) <= Max(at)
    <3> HIDE DEF at
    <3> QED BY <1>4, <2>1, LastPlace
  <2>3. Max(at) \in 1..Len(scopes)
    BY <2>1, <2>2
  <2> HIDE DEF at
  <2> QED BY <2>1, <2>2, <2>3
<1>6. LookupType(Here.class) = scopes[Len(scopes)].types[Here.class]
  BY <1>4, <1>5 DEF LookupType
<1> QED BY <1>1, <1>2, <1>6 DEF ContextType, Here

----------------------------------------------------------------------------
(* The actions.                                                            *)

\* It is so before a script runs.
LEMMA TypesInitOK == TypesInit => TypesInv
<1> SUFFICES ASSUME TypesInit PROVE TypesInv
  OBVIOUS
<1> USE DEF TypesInit
<1>1. /\ BuiltinTypes \in Seq(ToSet(BuiltinTypes)) /\ None \notin TypeNames
  BY ClassAssumption DEF ClassAssumption
<1>2. UserPlaces = {}
  BY DEF UserPlaces
<1>3. TypesTyped
  <2>1. types \in Seq(UserTypes \cup ToSet(BuiltinTypes))
    <3>1. \A i \in 1..Len(BuiltinTypes) : BuiltinTypes[i] \in UserTypes \cup ToSet(BuiltinTypes)
      BY <1>1
    <3>2. Len(BuiltinTypes) \in Nat /\ DOMAIN BuiltinTypes = 1..Len(BuiltinTypes)
          /\ BuiltinTypes = [i \in 1..Len(BuiltinTypes) |-> BuiltinTypes[i]]
      BY <1>1
    <3> QED BY <3>1, <3>2, SeqDef
  <2> QED BY <1>2, <2>1 DEF TypesTyped
<1>4. ScopesTyped
  <2>1. EmptyScope \in Scopes
    BY DEF EmptyScope, Scopes
  <2>2. \A n \in TypeNames : EmptyScope.types[n] = 0
    BY DEF EmptyScope
  <2>3. scopes \in Seq(Scopes) /\ scopes # <<>> /\ DOMAIN scopes = {1} /\ scopes[1] = EmptyScope
    BY <2>1
  <2> QED BY <2>2, <2>3 DEF ScopesTyped
<1> QED BY <1>2, <1>3, <1>4 DEF TypesInv, BodyOK, VerdictsOK, TablesOK

\* A new type without methods, in the current scope, leaves all others alone.
LEMMA NewTypeKeeps ==
    ASSUME TypesInv, NEW name \in TypeNames, NEW kind \in {"class", "struct", "interface"},
           NEW required \in SUBSET InterfaceMethods,
           NEW here \in Scopes, here.types = Here.types,
           NewType(Empty(name, kind, required), here),
           verdicts' = verdicts, undefined' = undefined
    PROVE  /\ TypesTyped' /\ ScopesTyped' /\ VerdictsOK' /\ TablesOK'
           /\ UserPlaces' = UserPlaces \cup {Len(types) + 1}
           /\ \A t \in DOMAIN types : types'[t] = types[t]
           /\ types'[Len(types) + 1] = Empty(name, kind, required)
           /\ Here' = [here EXCEPT !.types[name] = Len(types) + 1]
<1> DEFINE type == Empty(name, kind, required)
           last == Len(types) + 1
           all  == UserTypes \cup ToSet(BuiltinTypes)
<1>1. /\ Len(types) \in Nat /\ DOMAIN types = 1..Len(types)
      /\ Len(BuiltinTypes) \in Nat /\ DOMAIN BuiltinTypes = 1..Len(BuiltinTypes)
      /\ Len(scopes) \in Nat /\ DOMAIN scopes = 1..Len(scopes)
      /\ Len(scopes) \in DOMAIN scopes /\ Here \in Scopes
      /\ \A i \in DOMAIN scopes : scopes[i] \in Scopes
  BY PlacesOfTypes
<1>2. /\ type \in UserTypes /\ type.name = name /\ type.methods = NoTable
  <2>1. NoTable \in Tables
    BY DEF NoTable, Tables
  <2> QED BY <2>1 DEF Empty, Type, UserTypes
<1>3. /\ types' = Append(types, type)
      /\ scopes' = [scopes EXCEPT ![Len(scopes)] = [here EXCEPT !.types[name] = last]]
  BY <1>2 DEF NewType
<1>4. types \in Seq(all) /\ type \in all
  BY <1>2 DEF TypesInv, TypesTyped
<1> HIDE DEF type, all
<1>5. /\ types' \in Seq(all) /\ DOMAIN types' = 1..last
      /\ \A t \in DOMAIN types : types'[t] = types[t]
      /\ types'[last] = type
  BY <1>1, <1>3, <1>4
<1>6. DOMAIN types' = DOMAIN types \cup {last} /\ last \notin DOMAIN types /\ last \in Nat
  BY <1>1, <1>5
<1>7. DOMAIN BuiltinTypes \subseteq DOMAIN types
  BY DEF TypesInv, TypesTyped
<1>8. UserPlaces' = UserPlaces \cup {last}
  BY <1>6, <1>7 DEF UserPlaces
<1> HIDE DEF last
<1>9. TypesTyped'
  <2>1. \A t \in DOMAIN BuiltinTypes : types'[t] = BuiltinTypes[t]
    BY <1>5, <1>7 DEF TypesInv, TypesTyped
  <2>2. \A t \in UserPlaces : types'[t] \in UserTypes
    BY <1>5 DEF TypesInv, TypesTyped, UserPlaces
  <2>3. types'[last] \in UserTypes
    BY <1>2, <1>5
  <2> QED BY <1>5, <1>6, <1>7, <1>8, <2>1, <2>2, <2>3 DEF TypesTyped, all
<1> DEFINE new == [here EXCEPT !.types[name] = last]
<1>10. /\ new \in Scopes
       /\ \A n \in TypeNames : new.types[n] = IF n = name THEN last ELSE Here.types[n]
  <2>1. new.types = [here.types EXCEPT ![name] = last]
    BY DEF Scopes
  <2>2. here.types \in [TypeNames -> Nat]
    BY DEF Scopes
  <2>3. new.types \in [TypeNames -> Nat]
    BY <1>6, <2>1, <2>2
  <2>4. new \in Scopes
    BY <1>6, <2>2 DEF Scopes
  <2>5. \A n \in TypeNames : new.types[n] = IF n = name THEN last ELSE here.types[n]
    BY <2>1, <2>2
  <2> HIDE DEF new
  <2> QED BY <2>4, <2>5
<1> HIDE DEF new
<1>11. /\ scopes' \in Seq(Scopes) /\ Len(scopes') = Len(scopes) /\ DOMAIN scopes' = DOMAIN scopes
       /\ scopes'[Len(scopes)] = new
       /\ \A i \in DOMAIN scopes : i # Len(scopes) => scopes'[i] = scopes[i]
  <2>1. scopes \in Seq(Scopes) /\ scopes' = [scopes EXCEPT ![Len(scopes)] = new]
    BY <1>3 DEF TypesInv, ScopesTyped, new
  <2> QED BY <1>1, <1>10, <2>1
<1>12. Here' = new
  BY <1>11 DEF Here
<1>13. ScopesTyped'
  <2>1. ASSUME NEW i \in DOMAIN scopes, NEW n \in TypeNames
        PROVE  scopes'[i].types[n] \in {0} \cup DOMAIN types'
    <3>1. \A j \in DOMAIN scopes : scopes[j].types[n] \in {0} \cup DOMAIN types
      BY DEF TypesInv, ScopesTyped
    <3>2. CASE i # Len(scopes)
      BY <1>6, <1>11, <3>1, <3>2
    <3>3. CASE i = Len(scopes)
      <4>1. Here.types[n] \in {0} \cup DOMAIN types
        BY <1>1, <3>1 DEF Here
      <4> QED BY <1>6, <1>10, <1>11, <3>3, <4>1
    <3> QED BY <3>2, <3>3
  <2>2. scopes' # <<>>
    BY <1>1, <1>11
  <2> QED BY <1>11, <2>1, <2>2 DEF ScopesTyped
<1>14. VerdictsOK'
  <2>1. ASSUME NEW v \in verdicts
        PROVE  /\ v[1] \in UserPlaces /\ v[2] \in DOMAIN types
               /\ types'[v[1]] = types[v[1]] /\ types'[v[2]] = types[v[2]]
               /\ \A m \in types[v[2]].required : HasMethod(types[v[1]].methods, m)
    BY <1>5 DEF TypesInv, VerdictsOK, UserPlaces
  <2>2. ASSUME NEW v \in verdicts
        PROVE  /\ v[1] \in UserPlaces' /\ v[2] \in DOMAIN types'
               /\ \A m \in types'[v[2]].required : HasMethod(types'[v[1]].methods, m)
    BY <1>6, <1>8, <2>1
  <2> QED BY <2>2 DEF VerdictsOK
<1>15. TablesOK'
  <2>1. \A t \in UserPlaces : types'[t] = types[t]
    BY <1>5 DEF UserPlaces
  <2>2. TableOK(types'[last].methods) /\ types'[last].methods = NoTable
    BY <1>2, <1>5, NoTableOK
  <2> QED BY <1>8, <2>1, <2>2 DEF TypesInv, TablesOK
<1> QED BY <1>5, <1>8, <1>9, <1>12, <1>13, <1>14, <1>15 DEF type, last, new

\* A class begins.
LEMMA BeginClassKeeps ==
    ASSUME TypesInv, NEW n \in TypeNames, NEW implements \in SUBSET TypeNames,
           BeginClass(n, implements)
    PROVE  TypesInv'
<1> DEFINE here == [Here EXCEPT !.class = n]
<1>1. here \in Scopes /\ here.types = Here.types /\ here.class = n
  <2>1. Here \in Scopes
    BY PlacesOfTypes
  <2> QED BY <2>1 DEF Scopes
<1>2. NewType(Empty(n, "class", {}), here)
      /\ body' = [type |-> Len(types) + 1, implements |-> implements]
      /\ verdicts' = verdicts /\ undefined' = undefined
  BY DEF BeginClass
<1> HIDE DEF here
<1>3. /\ TypesTyped' /\ ScopesTyped' /\ VerdictsOK' /\ TablesOK'
      /\ UserPlaces' = UserPlaces \cup {Len(types) + 1}
      /\ Here' = [here EXCEPT !.types[n] = Len(types) + 1]
  BY <1>1, <1>2, NewTypeKeeps
<1>4. Here'.class = n /\ Here'.types[n] = Len(types) + 1
  BY <1>1, <1>3 DEF Scopes
<1>5. BodyOK'
  BY <1>2, <1>3, <1>4 DEF BodyOK
<1> QED BY <1>3, <1>5 DEF TypesInv

\* A struct begins.
LEMMA BeginStructKeeps ==
    ASSUME TypesInv, NEW n \in TypeNames, BeginStruct(n)
    PROVE  TypesInv'
<1> DEFINE here == [Here EXCEPT !.struct = n]
<1>1. here \in Scopes /\ here.types = Here.types
  <2>1. Here \in Scopes
    BY PlacesOfTypes
  <2> QED BY <2>1 DEF Scopes
<1>2. NewType(Empty(n, "struct", {}), here)
      /\ body' = [type |-> Len(types) + 1, implements |-> {}]
      /\ verdicts' = verdicts /\ undefined' = undefined
  BY DEF BeginStruct
<1> HIDE DEF here
<1>3. /\ TypesTyped' /\ ScopesTyped' /\ VerdictsOK' /\ TablesOK'
      /\ UserPlaces' = UserPlaces \cup {Len(types) + 1}
      /\ types'[Len(types) + 1] = Empty(n, "struct", {})
  BY <1>1, <1>2, NewTypeKeeps
<1>4. types'[Len(types) + 1].kind = "struct"
  BY <1>3 DEF Empty, Type
<1>5. BodyOK'
  BY <1>2, <1>3, <1>4 DEF BodyOK
<1> QED BY <1>3, <1>5 DEF TypesInv

\* An interface is defined.
LEMMA DefineInterfaceKeeps ==
    ASSUME TypesInv, NEW n \in TypeNames, NEW required \in SUBSET InterfaceMethods,
           DefineInterface(n, required)
    PROVE  TypesInv'
<1>1. NewType(Empty(n, "interface", required), Here) /\ Here \in Scopes
      /\ body' = None /\ verdicts' = verdicts /\ undefined' = undefined
  BY PlacesOfTypes DEF DefineInterface, AtDefinition
<1>2. TypesTyped' /\ ScopesTyped' /\ VerdictsOK' /\ TablesOK'
  BY <1>1, NewTypeKeeps
<1> QED BY <1>1, <1>2 DEF TypesInv, BodyOK

\* A step that leaves the types alone leaves what is said of them.
LEMMA SameTypes ==
    ASSUME TypesInv, types' = types, undefined' = undefined
    PROVE  TypesTyped' /\ TablesOK' /\ (verdicts' = verdicts => VerdictsOK')
           /\ UserPlaces' = UserPlaces
BY DEF TypesInv, TypesTyped, TablesOK, VerdictsOK, UserPlaces

\* The body of a type ends.
LEMMA EndBodyKeeps ==
    ASSUME TypesInv, EndBody
    PROVE  TypesInv'
<1> DEFINE found == {i \in {LookupType(n) : n \in body.implements} \ {0} :
                        types[i].kind = "interface" /\ Implements(body.type, i)}
<1>1. /\ body # None /\ body' = None
      /\ types' = types /\ scopes' = scopes /\ undefined' = undefined
      /\ verdicts' = verdicts \cup {<<body.type, i>> : i \in found}
  BY DEF EndBody
<1>2. TypesTyped' /\ TablesOK' /\ UserPlaces' = UserPlaces
  BY <1>1, SameTypes
<1>3. ScopesTyped'
  BY <1>1 DEF TypesInv, ScopesTyped
<1>4. ASSUME NEW i \in found
      PROVE  /\ body.type \in UserPlaces /\ i \in DOMAIN types
             /\ \A m \in types[i].required : HasMethod(types[body.type].methods, m)
  <2>1. PICK n \in body.implements : i = LookupType(n) /\ i # 0 /\ Implements(body.type, i)
    OBVIOUS
  <2>2. n \in TypeNames /\ body.type \in UserPlaces
    BY <1>1, <2>1 DEF TypesInv, BodyOK
  <2>3. i \in DOMAIN types
    BY <2>1, <2>2, LookupFinds
  <2> QED BY <2>1, <2>2, <2>3 DEF Implements
<1> HIDE DEF found
<1>5. VerdictsOK'
  <2>1. ASSUME NEW v \in verdicts'
        PROVE  /\ v[1] \in UserPlaces /\ v[2] \in DOMAIN types
               /\ \A m \in types[v[2]].required : HasMethod(types[v[1]].methods, m)
    <3>1. CASE v \in verdicts
      BY <3>1 DEF TypesInv, VerdictsOK
    <3>2. CASE v \in {<<body.type, i>> : i \in found}
      BY <1>4, <3>2
    <3> QED BY <1>1, <3>1, <3>2
  <2> QED BY <1>1, <1>2, <2>1 DEF VerdictsOK
<1> QED BY <1>1, <1>2, <1>3, <1>5 DEF TypesInv, BodyOK

\* A scope is entered.
LEMMA EnterScopeKeeps ==
    ASSUME TypesInv, EnterScope
    PROVE  TypesInv'
<1>1. /\ scopes' = Append(scopes, EmptyScope) /\ body' = None
      /\ types' = types /\ verdicts' = verdicts /\ undefined' = undefined
  BY DEF EnterScope, AtDefinition
<1>2. TypesTyped' /\ TablesOK' /\ VerdictsOK'
  BY <1>1, SameTypes
<1>3. EmptyScope \in Scopes /\ \A n \in TypeNames : EmptyScope.types[n] = 0
  BY DEF EmptyScope, Scopes
<1>4. scopes \in Seq(Scopes) /\ Len(scopes) \in Nat /\ DOMAIN scopes = 1..Len(scopes)
  BY PlacesOfTypes DEF TypesInv, ScopesTyped
<1>5. /\ scopes' \in Seq(Scopes) /\ scopes' # <<>> /\ DOMAIN scopes' = 1..(Len(scopes) + 1)
      /\ \A i \in DOMAIN scopes : scopes'[i] = scopes[i]
      /\ scopes'[Len(scopes) + 1] = EmptyScope
  BY <1>1, <1>3, <1>4
<1>6. \A i \in DOMAIN scopes' : i \in DOMAIN scopes \/ i = Len(scopes) + 1
  BY <1>4, <1>5
<1>7. ScopesTyped'
  BY <1>1, <1>3, <1>5, <1>6 DEF TypesInv, ScopesTyped
<1> QED BY <1>1, <1>2, <1>7 DEF TypesInv, BodyOK

\* A scope is left.
LEMMA LeaveScopeKeeps ==
    ASSUME TypesInv, LeaveScope
    PROVE  TypesInv'
<1>1. /\ scopes' = Front(scopes) /\ Len(scopes) > 1 /\ body' = None
      /\ types' = types /\ verdicts' = verdicts /\ undefined' = undefined
  BY DEF LeaveScope, AtDefinition
<1>2. TypesTyped' /\ TablesOK' /\ VerdictsOK'
  BY <1>1, SameTypes
<1>3. scopes \in Seq(Scopes) /\ Len(scopes) \in Nat /\ DOMAIN scopes = 1..Len(scopes)
      /\ \A i \in DOMAIN scopes : scopes[i] \in Scopes
  BY PlacesOfTypes DEF TypesInv, ScopesTyped
<1>4. /\ scopes' = [i \in 1..(Len(scopes) - 1) |-> scopes[i]]
      /\ \A i \in 1..(Len(scopes) - 1) : i \in DOMAIN scopes
  BY <1>1, <1>3 DEF Front
<1>5. scopes' \in Seq(Scopes) /\ scopes' # <<>> /\ DOMAIN scopes' = 1..(Len(scopes) - 1)
  <2>1. Len(scopes) - 1 \in Nat /\ 1 \in 1..(Len(scopes) - 1)
    BY <1>1, <1>3
  <2>2. scopes' \in [1..(Len(scopes) - 1) -> Scopes]
    BY <1>3, <1>4
  <2>3. scopes' \in Seq(Scopes)
    BY <2>1, <2>2, SeqDef
  <2>4. DOMAIN scopes' = 1..(Len(scopes) - 1)
    BY <1>4
  <2> QED BY <2>1, <2>3, <2>4
<1>6. ScopesTyped'
  BY <1>1, <1>4, <1>5 DEF TypesInv, ScopesTyped
<1> QED BY <1>1, <1>2, <1>6 DEF TypesInv, BodyOK

\* A function is defined outside of types.
LEMMA DefineFunctionKeeps ==
    ASSUME TypesInv, NEW f \in FunctionNames, DefineFunction(f)
    PROVE  TypesInv'
<1> DEFINE new == [Here EXCEPT !.functions = @ \cup {f}]
<1>1. /\ scopes' = [scopes EXCEPT ![Len(scopes)].functions = @ \cup {f}] /\ body' = body
      /\ types' = types /\ verdicts' = verdicts /\ undefined' = undefined
  BY DEF DefineFunction
<1>2. TypesTyped' /\ TablesOK' /\ VerdictsOK' /\ UserPlaces' = UserPlaces
  BY <1>1, SameTypes
<1>3. scopes \in Seq(Scopes) /\ Len(scopes) \in Nat /\ DOMAIN scopes = 1..Len(scopes)
      /\ Len(scopes) \in DOMAIN scopes /\ Here \in Scopes
  BY PlacesOfTypes DEF TypesInv, ScopesTyped
<1>4. new \in Scopes /\ new.types = Here.types /\ new.class = Here.class
  BY <1>3 DEF Scopes
<1>5. scopes' = [scopes EXCEPT ![Len(scopes)] = new]
  BY <1>1, <1>3 DEF Here
<1> HIDE DEF new
<1>6. /\ scopes' \in Seq(Scopes) /\ Len(scopes') = Len(scopes) /\ DOMAIN scopes' = DOMAIN scopes
      /\ scopes'[Len(scopes)] = new
      /\ \A i \in DOMAIN scopes : i # Len(scopes) => scopes'[i] = scopes[i]
  BY <1>3, <1>4, <1>5
<1>7. \A i \in DOMAIN scopes : scopes'[i].types = scopes[i].types
  BY <1>4, <1>6 DEF Here
<1>8. Here'.types = Here.types /\ Here'.class = Here.class
  BY <1>4, <1>6 DEF Here
<1>9. ScopesTyped'
  <2>1. scopes' # <<>>
    BY <1>3, <1>6
  <2>2. \A i \in DOMAIN scopes, n \in TypeNames : scopes'[i].types[n] \in {0} \cup DOMAIN types
    BY <1>7 DEF TypesInv, ScopesTyped
  <2> QED BY <1>1, <1>6, <2>1, <2>2 DEF ScopesTyped
<1>10. BodyOK'
  BY <1>1, <1>2, <1>8 DEF TypesInv, BodyOK
<1> QED BY <1>2, <1>9, <1>10 DEF TypesInv

\* What AddMethod does: the type, if it is one that a script made, gets the method.
LEMMA AddMethodAdds ==
    ASSUME TypesInv, NEW t, NEW s \in Signatures, AddMethod(t, Method(s, FALSE))
    PROVE  /\ types' = [types EXCEPT ![t].methods = Added(types[t].methods, s, Method(s, FALSE))]
           /\ undefined' = ~WeakOrder(Listed(types[t].methods) \cup {s})
           /\ scopes' = scopes /\ body' = body /\ verdicts' = verdicts
           /\ types[t].kind \in {"class", "struct"}
           /\ t \notin DOMAIN BuiltinTypes
<1>1. Method(s, FALSE).signature = s
  BY DEF Method
<1>2. \A b \in DOMAIN BuiltinTypes : types[b].kind = "builtin"
  BY ClassAssumption DEF ClassAssumption, TypesInv, TypesTyped
<1> QED BY <1>1, <1>2 DEF AddMethod

\* A method is defined.
LEMMA DefineMethodKeeps ==
    ASSUME TypesInv, NEW s \in Signatures, DefineMethod(s)
    PROVE  TypesInv'
<1> DEFINE t == ContextType
           old == types[t].methods
           table == Added(old, s, Method(s, FALSE))
           all == UserTypes \cup ToSet(BuiltinTypes)
<1>1. ~undefined /\ AddMethod(t, Method(s, FALSE))
  BY DEF DefineMethod, Defined
<1> HIDE DEF t
<1>2. /\ types' = [types EXCEPT ![t].methods = table]
      /\ undefined' = ~WeakOrder(Listed(old) \cup {s})
      /\ scopes' = scopes /\ body' = body /\ verdicts' = verdicts
      /\ types[t].kind \in {"class", "struct"} /\ t \notin DOMAIN BuiltinTypes
  BY <1>1, AddMethodAdds
<1>3. /\ Len(types) \in Nat /\ DOMAIN types = 1..Len(types) /\ types \in Seq(all)
      /\ DOMAIN BuiltinTypes \subseteq DOMAIN types
      /\ \A u \in UserPlaces : types[u] \in UserTypes
  BY PlacesOfTypes DEF TypesInv, TypesTyped
<1>4. ASSUME t \in UserPlaces
      PROVE  /\ old \in Tables /\ table \in Tables /\ Listed(table) = Listed(old) \cup {s}
             /\ [types[t] EXCEPT !.methods = table] \in UserTypes
  <2>1. types[t] \in UserTypes
    BY <1>3, <1>4
  <2>2. old \in Tables
    BY <2>1 DEF UserTypes
  <2>3. table \in Tables /\ Listed(table) = Listed(old) \cup {s}
    BY <2>2, AddedLists
  <2> HIDE DEF table, old
  <2> QED BY <2>1, <2>2, <2>3 DEF UserTypes
<1> HIDE DEF table, old
<1>5. /\ DOMAIN types' = DOMAIN types /\ Len(types') = Len(types)
      /\ \A u \in DOMAIN types : u # t => types'[u] = types[u]
      /\ t \in DOMAIN types => types'[t] = [types[t] EXCEPT !.methods = table]
  BY <1>2, <1>3
<1>6. UserPlaces' = UserPlaces
  BY <1>5 DEF UserPlaces
<1>7. \A u \in UserPlaces : types'[u] \in UserTypes
  BY <1>3, <1>4, <1>5 DEF UserPlaces
<1>8. TypesTyped'
  <2>1. \A u \in DOMAIN types : types'[u] \in all
    <3>1. ASSUME NEW u \in DOMAIN types PROVE types'[u] \in all
      <4>1. CASE u \in UserPlaces
        BY <1>7, <4>1
      <4>2. CASE u \notin UserPlaces
        <5>1. types'[u] = types[u] /\ types[u] \in all
          BY <1>2, <1>3, <1>5, <4>2 DEF UserPlaces
        <5> QED BY <5>1
      <4> QED BY <4>1, <4>2
    <3> QED BY <3>1
  <2>2. types' \in Seq(all)
    <3> HIDE DEF all
    <3>1. types' = [u \in 1..Len(types) |-> types'[u]]
      BY <1>2, <1>3
    <3> QED BY <1>3, <2>1, <3>1, SeqDef
  <2>3. \A u \in DOMAIN BuiltinTypes : types'[u] = BuiltinTypes[u]
    BY <1>2, <1>3, <1>5 DEF TypesInv, TypesTyped
  <2> QED BY <1>3, <1>5, <1>6, <1>7, <2>2, <2>3 DEF TypesTyped
<1>9. ScopesTyped'
  BY <1>2, <1>5 DEF TypesInv, ScopesTyped
<1>10. \A u \in UserPlaces : types'[u].kind = types[u].kind /\ types'[u].required = types[u].required
  BY <1>3, <1>4, <1>5 DEF UserPlaces, UserTypes
<1>11. BodyOK'
  <2>1. Here' = Here
    BY <1>2 DEF Here
  <2> QED BY <1>2, <1>6, <1>10, <2>1 DEF TypesInv, BodyOK
<1>12. ASSUME NEW u \in UserPlaces, NEW m, HasMethod(types[u].methods, m)
       PROVE  HasMethod(types'[u].methods, m)
  <2>1. CASE u # t
    <3>1. types'[u] = types[u]
      BY <1>5, <2>1 DEF UserPlaces
    <3> QED BY <1>12, <3>1
  <2>2. CASE u = t
    <3>1. types'[t].methods = table /\ types[u].methods = old
          /\ Listed(table) = Listed(old) \cup {s}
      BY <1>3, <1>4, <1>5, <2>2 DEF UserPlaces, UserTypes, old
    <3>2. PICK i \in DOMAIN old.listed : old.listed[i].name = m
      BY <1>12, <3>1 DEF HasMethod, Overloads
    <3>3. old.listed[i] \in Listed(table)
      BY <3>1, <3>2 DEF Listed
    <3>4. \E j \in DOMAIN table.listed : table.listed[j].name = m
      BY <3>2, <3>3 DEF Listed
    <3> QED BY <2>2, <3>1, <3>4 DEF HasMethod, Overloads
  <2> QED BY <2>1, <2>2
<1>13. VerdictsOK'
  <2>1. ASSUME NEW v \in verdicts
        PROVE  /\ v[1] \in UserPlaces /\ v[2] \in DOMAIN types
               /\ \A m \in types'[v[2]].required : HasMethod(types'[v[1]].methods, m)
    <3>1. /\ v[1] \in UserPlaces /\ v[2] \in DOMAIN types
          /\ \A m \in types[v[2]].required : HasMethod(types[v[1]].methods, m)
      BY DEF TypesInv, VerdictsOK
    <3>2. types'[v[2]].required = types[v[2]].required
      <4>1. CASE v[2] \in UserPlaces
        BY <1>10, <4>1
      <4>2. CASE v[2] \notin UserPlaces
        BY <1>2, <1>5, <3>1, <4>2 DEF UserPlaces
      <4> QED BY <4>1, <4>2
    <3> QED BY <1>12, <3>1, <3>2
  <2> QED BY <1>2, <1>5, <1>6, <2>1 DEF VerdictsOK
<1>14. TablesOK'
  <2>1. ASSUME NEW u \in UserPlaces, types'[u].kind = "interface"
        PROVE  types'[u].methods = NoTable
    <3>1. types[u].kind = "interface" /\ u # t
      BY <1>2, <1>10, <2>1
    <3> QED BY <1>5, <3>1 DEF TypesInv, TablesOK, UserPlaces
  <2>2. ASSUME ~undefined', NEW u \in UserPlaces
        PROVE  TableOK(types'[u].methods)
    <3>1. TableOK(types[u].methods)
      BY <1>1 DEF TypesInv, TablesOK
    <3>2. CASE u # t
      <4>1. types'[u] = types[u]
        BY <1>5, <3>2 DEF UserPlaces
      <4> QED BY <3>1, <4>1
    <3>3. CASE u = t
      <4>1. WeakOrder(Listed(old) \cup {s})
        BY <1>2, <2>2
      <4>2. TableOK(old) /\ old \in Tables
        BY <1>4, <3>1, <3>3 DEF old
      <4>3. TableOK(table)
        BY <4>1, <4>2, AddedKeeps DEF table
      <4>4. types'[u].methods = table
        BY <1>3, <1>5, <3>3 DEF UserPlaces, UserTypes
      <4> QED BY <4>3, <4>4
    <3> QED BY <3>2, <3>3
  <2> QED BY <1>6, <2>1, <2>2 DEF TablesOK
<1> QED BY <1>8, <1>9, <1>11, <1>13, <1>14 DEF TypesInv

\* Every step keeps it.
LEMMA TypesStep == TypesInv /\ [TypesNext]_typeVars => TypesInv'
<1> SUFFICES ASSUME TypesInv, [TypesNext]_typeVars PROVE TypesInv'
  OBVIOUS
<1>1. ASSUME NEW n \in TypeNames, NEW implements \in SUBSET TypeNames, BeginClass(n, implements)
      PROVE  TypesInv'
  BY <1>1, BeginClassKeeps
<1>2. ASSUME NEW n \in TypeNames, BeginStruct(n) PROVE TypesInv'
  BY <1>2, BeginStructKeeps
<1>3. ASSUME NEW n \in TypeNames, NEW required \in SUBSET InterfaceMethods,
             DefineInterface(n, required)
      PROVE  TypesInv'
  BY <1>3, DefineInterfaceKeeps
<1>4. ASSUME EndBody PROVE TypesInv'
  BY <1>4, EndBodyKeeps
<1>5. ASSUME EnterScope PROVE TypesInv'
  BY <1>5, EnterScopeKeeps
<1>6. ASSUME LeaveScope PROVE TypesInv'
  BY <1>6, LeaveScopeKeeps
<1>7. ASSUME NEW s \in Signatures, DefineMethod(s) PROVE TypesInv'
  BY <1>7, DefineMethodKeeps
<1>8. ASSUME NEW f \in FunctionNames, DefineFunction(f) PROVE TypesInv'
  BY <1>8, DefineFunctionKeeps
<1>9. ASSUME UNCHANGED typeVars PROVE TypesInv'
  BY <1>9 DEF typeVars, TypesInv, TypesTyped, ScopesTyped, BodyOK, VerdictsOK, TablesOK,
              UserPlaces, Here
<1> QED BY <1>1, <1>2, <1>3, <1>4, <1>5, <1>6, <1>7, <1>8, <1>9 DEF TypesNext

\* The inductive invariant of the types of a script: tables of methods find what
\* was added to them, verdicts stay true, and the context of a class body is its
\* class.
THEOREM TypesInvariant == TypesSpec => []TypesInv
BY TypesInitOK, TypesStep, PTL DEF TypesSpec

----------------------------------------------------------------------------
(* What the runs check.                                                    *)

\* A search by arguments finds a method for just their types, if there is one, or
\* the one that took its place.
LEMMA OverloadsFound == TypesInv => OverloadsMatch
<1> SUFFICES ASSUME TypesInv, NEW t \in DOMAIN types, NEW m \in FunctionNames,
                    NEW args \in Arguments, types[t].kind # "builtin", ~undefined,
                    NEW s \in Listed(types[t].methods), s.name = m, Explicit(s, args)
             PROVE  /\ FindBest(types[t].methods, m, args) # None
                    /\ \E u \in Listed(types[t].methods) :
                         /\ u.name = m /\ Explicit(u, args)
                         /\ SameNames(FindBest(types[t].methods, m, args).signature.params, u.params)
  BY DEF OverloadsMatch
<1> DEFINE table == types[t].methods
<1>1. TableOK(table)
  <2>1. t \in UserPlaces
    BY ClassAssumption DEF ClassAssumption, UserPlaces, TypesInv, TypesTyped
  <2> QED BY <2>1 DEF TypesInv, TablesOK
<1> HIDE DEF table
<1>2. Len(args) \in Nat /\ DOMAIN args = 1..Len(args)
  <2>1. args \in Seq(ToSet(args))
    BY ClassAssumption DEF ClassAssumption
  <2> QED BY <2>1
<1>3. Listed(table) \subseteq Signatures
      /\ \A j \in DOMAIN table.listed : table.listed[j] \in Listed(table)
  BY <1>1, ListedSignatures DEF TableOK
<1>4. PICK i \in DOMAIN table.listed : table.listed[i] = s
  BY DEF Listed, table
<1>5. i \in Overloads(table, m)
  BY <1>4 DEF Overloads
<1>6. s \in Signatures /\ Score(s, args) = 100 * Len(args)
  BY <1>2, <1>3, <1>4, ScoreBound
<1>7. Score(s, args) > -1
  BY <1>2, <1>6
<1>8. PICK j \in Overloads(table, m) :
         /\ Score(table.listed[j], args) >= Score(table.listed[i], args)
         /\ FindBest(table, m, args) = FindExact(table, table.listed[j])
  BY <1>1, <1>2, <1>4, <1>5, <1>7, BestFinds
<1> DEFINE u == table.listed[j]
<1>9. u \in Listed(table) /\ u \in Signatures /\ u.name = m
  BY <1>3, <1>8 DEF Overloads
<1>10. Score(u, args) \in Int /\ Score(u, args) <= 100 * Len(args)
       /\ Score(u, args) >= 100 * Len(args)
  BY <1>2, <1>4, <1>6, <1>8, <1>9, ScoreBound
<1>11. Explicit(u, args)
  <2>1. Score(u, args) = 100 * Len(args)
    <3>1. 100 * Len(args) \in Int
      BY <1>2
    <3> HIDE DEF u
    <3> QED BY <1>10, <3>1
  <2> QED BY <1>2, <1>9, <2>1, ScoreBound
<1>12. /\ FindExact(table, u) # None
       /\ \E w \in Listed(table) : FindExact(table, u).signature = w /\ SameKey(w, u)
  BY <1>1, <1>9, ExactFinds
<1>13. SameNames(FindExact(table, u).signature.params, u.params)
  BY <1>3, <1>9, <1>12, SameKeySameNames
<1> QED BY <1>8, <1>9, <1>11, <1>12, <1>13 DEF table

\* A class found to implement an interface still has its methods.
LEMMA VerdictsFound == TypesInv => VerdictsTrue
<1> SUFFICES ASSUME TypesInv, NEW v \in verdicts, NEW m \in types[v[2]].required, ~undefined
             PROVE  FindBySignature(types[v[1]].methods, Signature(m, <<>>)) # None
  BY DEF VerdictsTrue
<1>1. v[1] \in UserPlaces /\ HasMethod(types[v[1]].methods, m)
  BY DEF TypesInv, VerdictsOK
<1>2. TableOK(types[v[1]].methods)
  BY <1>1 DEF TypesInv, TablesOK
<1> QED BY <1>1, <1>2, NameFinds

\* A call through a reference finds a method without parameters.
LEMMA ReferencesFound == TypesInv => ReferencesCall
<1> SUFFICES ASSUME TypesInv, NEW t \in DOMAIN types, NEW m \in FunctionNames,
                    NEW args \in Arguments, types[t].kind # "builtin", ~undefined,
                    Signature(m, <<>>) \in Listed(types[t].methods)
             PROVE  Called(t, FALSE, m, args) # None
  BY DEF ReferencesCall
<1> DEFINE table == types[t].methods
           s == Signature(m, <<>>)
<1>1. t \in UserPlaces
  BY ClassAssumption DEF ClassAssumption, UserPlaces, TypesInv, TypesTyped
<1>2. TableOK(table) /\ t # 0
  BY <1>1, PlacesOfTypes DEF TypesInv, TablesOK
<1>3. types[t].kind # "interface"
  <2>1. types[t].kind = "interface" => Listed(table) = {}
    BY <1>1 DEF TypesInv, TablesOK, Listed, NoTable
  <2> QED BY <2>1
<1>4. Called(t, FALSE, m, args) = FindBest(table, m, <<>>)
  BY <1>2, <1>3 DEF Called, Find
<1>5. s.name = m /\ s.params = <<>>
  BY DEF Signature
<1> HIDE DEF table, s
<1>6. PICK i \in DOMAIN table.listed : table.listed[i] = s
  BY DEF Listed, table, s
<1>7. i \in Overloads(table, m)
  BY <1>5, <1>6 DEF Overloads
<1>8. Len(<<>>) = 0 /\ DOMAIN <<>> = 1..Len(<<>>) /\ Len(<<>>) \in Nat
  OBVIOUS
<1>9. Listed(table) \subseteq Signatures
      /\ \A j \in DOMAIN table.listed : table.listed[j] \in Listed(table)
  BY <1>2, ListedSignatures DEF TableOK
<1>10. Explicit(s, <<>>)
  <2>1. Required(s.params) = 0
    <3>1. {j \in DOMAIN s.params : ~HasDefault(s.params[j])} = {}
      BY <1>5
    <3> QED BY <3>1, FS_EmptySet DEF Required
  <2>2. Len(s.params) = 0
    BY <1>5
  <2> QED BY <1>8, <2>1, <2>2 DEF Explicit, CanAccept
<1>11. Score(s, <<>>) > -1
  <2>1. Score(s, <<>>) = 100 * Len(<<>>)
    BY <1>6, <1>8, <1>9, <1>10, ScoreBound
  <2> QED BY <1>8, <2>1
<1>12. PICK j \in Overloads(table, m) : FindBest(table, m, <<>>) = FindExact(table, table.listed[j])
  BY <1>2, <1>6, <1>7, <1>8, <1>11, BestFinds
<1>13. FindExact(table, table.listed[j]) # None
  BY <1>2, <1>9, ExactFinds DEF Overloads
<1> QED BY <1>4, <1>12, <1>13

\* Whatever a script defined before, a search by arguments, by the names of an
\* interface or through a reference finds what the class has.
THEOREM SearchesCorrect == TypesSpec => []SearchesFind
<1>1. TypesInv => SearchesFind
  BY OverloadsFound, VerdictsFound, ReferencesFound DEF SearchesFind
<1> QED BY <1>1, TypesInvariant, PTL

\* A step that changes the methods of a type defines a method in its context.
LEMMA MethodsOfContext ==
    ASSUME TypesInv, TypesNext, NEW t \in DOMAIN types,
           types'[t].methods # types[t].methods
    PROVE  t = ContextType
<1>1. ASSUME NEW type, NEW here, NewType(type, here) PROVE types'[t] = types[t]
  BY <1>1, PlacesOfTypes DEF NewType, TypesInv, TypesTyped
<1>2. ASSUME NEW n \in TypeNames, NEW implements \in SUBSET TypeNames, BeginClass(n, implements)
      PROVE  FALSE
  BY <1>1, <1>2 DEF BeginClass
<1>3. ASSUME NEW n \in TypeNames, BeginStruct(n) PROVE FALSE
  BY <1>1, <1>3 DEF BeginStruct
<1>4. ASSUME NEW n \in TypeNames, NEW required \in SUBSET InterfaceMethods,
             DefineInterface(n, required)
      PROVE  FALSE
  BY <1>1, <1>4 DEF DefineInterface
<1>5. ASSUME EndBody \/ EnterScope \/ LeaveScope \/ \E f \in FunctionNames : DefineFunction(f)
      PROVE  FALSE
  BY <1>5 DEF EndBody, EnterScope, LeaveScope, DefineFunction
<1>6. ASSUME NEW s \in Signatures, DefineMethod(s) PROVE t = ContextType
  <2>1. AddMethod(ContextType, Method(s, FALSE))
    BY <1>6 DEF DefineMethod
  <2> DEFINE c == ContextType
             table == Added(types[c].methods, s, Method(s, FALSE))
  <2>2. types' = [types EXCEPT ![c].methods = table]
    BY <2>1, AddMethodAdds
  <2> HIDE DEF c, table
  <2>3. t # c => types'[t] = types[t]
    BY <2>2
  <2> QED BY <2>3 DEF c
<1> QED BY <1>2, <1>3, <1>4, <1>5, <1>6 DEF TypesNext

\* While the body of a class is visited its methods go to its own type.
THEOREM MethodsCorrect == TypesSpec => MethodsGoToTheirClass
<1>1. TypesInv /\ [TypesNext]_typeVars =>
        [\A t \in DOMAIN types :
           /\ body # None /\ types[body.type].kind = "class"
           /\ types'[t].methods # types[t].methods
           => t = body.type]_typeVars
  BY MethodsOfContext, ContextIsBody
<1> QED BY <1>1, TypesInvariant, PTL DEF TypesSpec, MethodsGoToTheirClass

============================================================================
