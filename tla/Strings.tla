-------------------------------- MODULE Strings --------------------------------
(***************************************************************************)
(* The methods of String (primitive_types.cpp, types/string.cpp).  A text  *)
(* is a sequence of characters; positions are the code's, from 0, and -1   *)
(* is npos.                                                                *)
(***************************************************************************)
EXTENDS Integers, Sequences, FiniteSetsExt

CONSTANT Blanks     \* the characters that trim removes

Part(s, from, to) == SubSeq(s, from + 1, to)        \* characters from .. to - 1
OccursAt(s, t, at) == at + Len(t) <= Len(s) /\ Part(s, at, at + Len(t)) = t

\* string::find and rfind.
FindFrom(s, t, from) ==
    LET places == {at \in from .. Len(s) : OccursAt(s, t, at)}
    IN  IF places = {} THEN -1 ELSE Min(places)
LastIndexOf(s, t) ==
    LET places == {at \in 0 .. Len(s) : OccursAt(s, t, at)}
    IN  IF places = {} THEN -1 ELSE Max(places)
IndexOf(s, t)    == FindFrom(s, t, 0)
HasText(s, t)    == IndexOf(s, t) # -1
StartsWith(s, t) == Len(t) <= Len(s) /\ Part(s, 0, Len(t)) = t
EndsWith(s, t)   == Len(t) <= Len(s) /\ Part(s, Len(s) - Len(t), Len(s)) = t

Substring(s, start, end) ==
    LET from == Max({start, 0})
        to   == Min({end, Len(s)})
    IN  IF from >= to THEN <<>> ELSE Part(s, from, to)

\* A text of blanks alone has no first other character: all of it is erased.
Trim(s) ==
    LET kept == {i \in DOMAIN s : s[i] \notin Blanks}
    IN  IF kept = {} THEN <<>> ELSE SubSeq(s, Min(kept), Max(kept))

\* Faulty variant of Split: the search goes on one character too far on.
SplitSkipping(s, delim) ==
    LET rest[prev \in 0 .. Len(s) + 1] ==
          LET at == IF prev > Len(s) THEN -1 ELSE FindFrom(s, delim, prev)
          IN  IF at = -1 THEN <<Part(s, prev, Len(s))>>
              ELSE <<Part(s, prev, at)>> \o rest[at + Len(delim) + (IF at = prev THEN 1 ELSE 0)]
    IN  IF delim = <<>> THEN [i \in DOMAIN s |-> <<s[i]>>] ELSE rest[0]

\* split: by characters if the delimiter is empty.
Split(s, delim) ==
    LET rest[prev \in 0 .. Len(s)] ==
          LET at == FindFrom(s, delim, prev)
          IN  IF at = -1 THEN <<Part(s, prev, Len(s))>>
              ELSE <<Part(s, prev, at)>> \o rest[at + Len(delim)]
    IN  IF delim = <<>> THEN [i \in DOMAIN s |-> <<s[i]>>] ELSE rest[0]

NeverDone == <<-1>>

\* Replace: every occurrence, left to right, from behind the text put in.  An
\* empty text occurs behind every text put in: the loop does not end.
Replace(s, old, new) ==
    LET rest[done \in 0 .. Len(s)] ==   \* the text behind the first done characters
          LET at == FindFrom(s, old, done)
          IN  IF at = -1 THEN Part(s, done, Len(s))
              ELSE Part(s, done, at) \o new \o rest[at + Len(old)]
    IN  IF old = <<>> THEN NeverDone ELSE rest[0]

\* String.repeat and concat.
Repeat(count, s) ==
    LET times[n \in 0 .. count] == IF n = 0 THEN <<>> ELSE times[n - 1] \o s
    IN  IF count <= 0 THEN <<>> ELSE times[count]
Concat(texts) ==
    LET upTo[n \in 0 .. Len(texts)] == IF n = 0 THEN <<>> ELSE upTo[n - 1] \o texts[n]
    IN  upTo[Len(texts)]

=============================================================================
