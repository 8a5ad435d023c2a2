------------------------------ MODULE Containers ------------------------------
(***************************************************************************)
(* Arrays and dicts (container_values.cpp, types/array.cpp, types/dict.cpp) *)
(* and the C++ code that uses them through pointers.                       *)
(*                                                                         *)
(* An array clones what is put in and what is taken out; a dict keeps the  *)
(* pointer it is given and gives out the pointer it keeps.  The client is  *)
(* any code that follows that: it deletes, or puts in a dict, only values  *)
(* it owns, and uses a pointer into a container while its value lives.     *)
(* What a text says is left out; a value nothing points to is forgotten.   *)
(***************************************************************************)
EXTENDS Calculator, SequencesExt

CONSTANTS
    Names,          \* of the client's pointers
    Keys,           \* of dicts, a sequence in the order of the map
    Nothing,        \* the null pointer
    MaxCells,       \* bound on values alive at a time
    MaxLength       \* bound on the length of arrays

VARIABLES
    heap,       \* values, by address
    points,       \* what the client's pointers point to
    owns,       \* pointers whose value the client is to delete
    fault       \* a deleted value was used or deleted again

containerVars == <<heap, points, owns, fault>>

\* The null pointer is no address.
ASSUME ContainersAssumption ==
    /\ Keys \in Seq(ToSet(Keys))
    /\ Nothing \notin Nat \ {0}

TextCell  == [kind |-> "text", at |-> <<>>]
Deleted   == [kind |-> "deleted", at |-> <<>>]
Array(cells)  == [kind |-> "array", at |-> cells]
Dict(entries) == [kind |-> "dict", at |-> entries]
NoEntries == [i \in DOMAIN Keys |-> Nothing]

Elements(s) == {s[i] : i \in DOMAIN s} \ {Nothing}
Children(h, c) == Elements(h[c].at)

Closed(h, s) == \A c \in s : Children(h, c) \subseteq s

\* All that the cells lead to.
Reach(h, cells) ==
    {c \in DOMAIN h : \A s \in SUBSET DOMAIN h : cells \subseteq s /\ Closed(h, s) => c \in s}

\* For each of xs an address that is free.
Fresh(h, xs) ==
    CHOOSE at \in [xs -> (1 .. Cardinality(DOMAIN h) + Cardinality(xs)) \ DOMAIN h] : IsInjective(at)
With(h, cells) ==
    [c \in DOMAIN h \cup DOMAIN cells |-> IF c \in DOMAIN cells THEN cells[c] ELSE h[c]]

NewCell(h, content) ==
    LET c == Fresh(h, {1})[1] IN [heap |-> With(h, [n \in {c} |-> content]), cell |-> c]

\* The copy constructors: a deep copy.  A null stays null.
Moved(at, cells) == [i \in DOMAIN cells |-> IF cells[i] = Nothing THEN Nothing ELSE at[cells[i]]]
Copies(h, at) ==
    [c \in {at[x] : x \in DOMAIN at} |->
        LET x == CHOOSE x \in DOMAIN at : at[x] = c IN [h[x] EXCEPT !.at = Moved(at, @)]]
CloneAll(h, cells) ==
    LET at == Fresh(h, Reach(h, Elements(cells)))
    IN  [heap |-> With(h, Copies(h, at)), cells |-> Moved(at, cells)]
Clone(h, c) ==
    LET copy == CloneAll(h, <<c>>) IN [heap |-> copy.heap, cell |-> copy.cells[1]]

\* Faulty variant of CloneOne: the pointer itself.
SharedOne(h, c) == [heap |-> h, cell |-> c]
CloneOne(h, c) == Clone(h, c)

\* The destructors: with all that it contains.
Destroyed(h, cells) ==
    LET gone == Reach(h, cells) IN [c \in DOMAIN h |-> IF c \in gone THEN Deleted ELSE h[c]]

\* A copy of c meets a deleted value.
Meets(h, c) == \E d \in Reach(h, {c}) : h[d] = Deleted

----------------------------------------------------------------------------

Intact == fault = "none"
Cell(n) == heap[points[n]]
Live(n) == points[n] # Nothing /\ Cell(n) # Deleted
Is(kind, n) == Live(n) /\ Cell(n).kind = kind

Become(h, pointers, owned) ==
    /\ DOMAIN h \subseteq 1 .. MaxCells
    /\ heap' = [c \in Reach(h, Elements(pointers)) |-> h[c]]
    /\ points' = pointers
    /\ owns' = owned
    /\ UNCHANGED fault

Faulted == fault' = "use after free" /\ UNCHANGED <<heap, points, owns>>

\* A result is put where it makes the client forget nothing it owns.
Receives(r) == r \notin owns
GiveNew(made, r) ==
    Receives(r) /\ Become(made.heap, [points EXCEPT ![r] = made.cell], owns \cup {r})
GivePointer(c, r) ==
    Receives(r) /\ Become(heap, [points EXCEPT ![r] = c], owns)

\* An operation on what n points to.  C++ code gets nothing back, r = Nothing; a
\* method that a script calls answers the container itself.
Changed(h, n, content, r) ==
    /\ r # Nothing => Receives(r)
    /\ Become([h EXCEPT ![points[n]] = content],
              IF r = Nothing THEN points ELSE [points EXCEPT ![r] = points[n]], owns)

New(r, content) == Intact /\ GiveNew(NewCell(heap, content), r)
Copy(n, r) == Intact /\ Live(n) /\ GiveNew(Clone(heap, points[n]), r)
Delete(n) ==
    /\ Intact /\ n \in owns
    /\ Become(Destroyed(heap, {points[n]}), [points EXCEPT ![n] = Nothing], owns \ {n})

\* insertElement; addElement inserts at the end.
InsertElement(a, i, n, r) ==
    /\ Intact /\ Is("array", a) /\ Live(n)
    /\ i \in 0 .. Len(Cell(a).at) /\ Len(Cell(a).at) < MaxLength
    /\ LET copy == CloneOne(heap, points[n])
       IN  Changed(copy.heap, a, Array(InsertAt(Cell(a).at, i + 1, copy.cell)), r)

\* setElement deletes the old element before it clones the new one, which may
\* be the old one or the array itself.
SetElement(a, i, n, r) ==
    /\ Intact /\ Is("array", a) /\ Live(n)
    /\ i \in DOMAIN Cell(a).at
    /\ LET h    == Destroyed(heap, {Cell(a).at[i]})
           copy == Clone(h, points[n])
       IN  IF Meets(h, points[n]) THEN Faulted
           ELSE Changed(copy.heap, a, Array([Cell(a).at EXCEPT ![i] = copy.cell]), r)

RemoveElement(a, i, r) ==
    /\ Intact /\ Is("array", a)
    /\ i \in DOMAIN Cell(a).at
    /\ Changed(Destroyed(heap, {Cell(a).at[i]}), a, Array(RemoveAt(Cell(a).at, i)), r)

\* Array::clear and Dict::clear.
Clear(n, r) ==
    /\ Intact /\ (Is("array", n) \/ Is("dict", n))
    /\ Changed(Destroyed(heap, Children(heap, points[n])), n,
               IF Is("array", n) THEN Array(<<>>) ELSE Dict(NoEntries), r)

\* getElement and operator[] make a clone, getElements gives the pointer.
GetElement(a, i, r) ==
    /\ Intact /\ Is("array", a) /\ i \in DOMAIN Cell(a).at
    /\ GiveNew(CloneOne(heap, Cell(a).at[i]), r)
GetElements(a, i, r) ==
    /\ Intact /\ Is("array", a) /\ i \in DOMAIN Cell(a).at
    /\ GivePointer(Cell(a).at[i], r)

\* slice: a new array of some of the elements; reverse turns all of them, and
\* sort, filter and map keep them all as they are.
Slice(s, from, to) == SubSeq(s, Max({from, 0}) + 1, Min({to, Len(s)}))
NewArray(a, cells, r) ==
    /\ Intact /\ Is("array", a)
    /\ LET parts == CloneAll(heap, cells) IN GiveNew(NewCell(parts.heap, Array(parts.cells)), r)
Sliced(a, r) ==
    \E from, to \in -1 .. MaxLength : Is("array", a) /\ NewArray(a, Slice(Cell(a).at, from, to), r)
Reversed(a, r) == Is("array", a) /\ NewArray(a, Reverse(Cell(a).at), r)
Sorted(a, r)   == Is("array", a) /\ NewArray(a, Cell(a).at, r)

\* Array::operator= empties the array before it copies the other, which may be
\* the array itself, or a part of it.
AssignArray(a, b) ==
    /\ Intact /\ Is("array", a) /\ Is("array", b)
    /\ LET h    == [Destroyed(heap, Children(heap, points[a])) EXCEPT ![points[a]] = Array(<<>>)]
           copy == CloneAll(h, h[points[b]].at)
       IN  IF Meets(h, points[b]) THEN Faulted
           ELSE Changed(copy.heap, a, Array(copy.cells), Nothing)

\* Dict::operator= does nothing for the dict itself.
AssignDict(d, e) ==
    /\ Intact /\ Is("dict", d) /\ Is("dict", e) /\ points[d] # points[e]
    /\ LET h    == [Destroyed(heap, Children(heap, points[d])) EXCEPT ![points[d]] = Dict(NoEntries)]
           copy == CloneAll(h, h[points[e]].at)
       IN  IF Meets(h, points[e]) THEN Faulted
           ELSE Changed(copy.heap, d, Dict(copy.cells), Nothing)

\* setEntry deletes the old value and keeps the pointer of the new one, which
\* the dict owns from then on.
SetEntry(d, k, n, r) ==
    /\ Intact /\ Is("dict", d) /\ n \in owns
    /\ points[d] \notin Reach(heap, {points[n]})
    /\ r # Nothing => Receives(r)
    /\ LET old == {Cell(d).at[k]} \ {Nothing}
       IN  Become([Destroyed(heap, old) EXCEPT ![points[d]] = Dict([Cell(d).at EXCEPT ![k] = points[n]])],
                  IF r = Nothing THEN points ELSE [points EXCEPT ![r] = points[d]], owns \ {n})

GetEntry(d, k, r) ==
    /\ Intact /\ Is("dict", d) /\ Cell(d).at[k] # Nothing
    /\ GivePointer(Cell(d).at[k], r)

RemoveEntry(d, k, r) ==
    /\ Intact /\ Is("dict", d) /\ Cell(d).at[k] # Nothing
    /\ Changed(Destroyed(heap, {Cell(d).at[k]}), d, Dict([Cell(d).at EXCEPT ![k] = Nothing]), r)

\* The methods values and items: an array of clones, in the order of the keys.
Present(entries) ==
    LET upto[n \in 0 .. Len(entries)] ==
          IF n = 0 THEN <<>>
          ELSE IF entries[n] = Nothing THEN upto[n - 1] ELSE Append(upto[n - 1], entries[n])
    IN  upto[Len(entries)]
DictValues(d, r) ==
    /\ Intact /\ Is("dict", d)
    /\ LET parts == CloneAll(heap, Present(Cell(d).at))
       IN  GiveNew(NewCell(parts.heap, Array(parts.cells)), r)

\* The methods of arrays and dicts that change them, and the ones that make
\* others: array(...) and dict(...) of clones of the arguments, and keys.
ArrayMethod(a, i, n, r) ==
    \/ Is("array", a) /\ InsertElement(a, Len(Cell(a).at), n, r)
    \/ RemoveElement(a, i, r)
    \/ SetElement(a, i, n, r)
    \/ Is("array", a) /\ Clear(a, r)
DictMethod(d, k, n, r) ==
    \/ SetEntry(d, k, n, r)
    \/ RemoveEntry(d, k, r)
    \/ Is("dict", d) /\ Clear(d, r)
ArrayOf(n, r) ==
    /\ Intact /\ Live(n)
    /\ LET copy == Clone(heap, points[n]) IN GiveNew(NewCell(copy.heap, Array(<<copy.cell>>)), r)
DictOf(k, n, r) ==
    /\ Intact /\ Live(n)
    /\ LET copy == Clone(heap, points[n])
       IN  GiveNew(NewCell(copy.heap, Dict([NoEntries EXCEPT ![k] = copy.cell])), r)
DictKeys(d, r) ==
    /\ Intact /\ Is("dict", d)
    /\ LET texts == Fresh(heap, DOMAIN Present(Cell(d).at))
           all   == With(heap, [c \in {texts[i] : i \in DOMAIN texts} |-> TextCell])
       IN  GiveNew(NewCell(all, Array(texts)), r)

ContainersInit ==
    /\ heap = [c \in {} |-> TextCell]
    /\ points = [n \in Names |-> Nothing]
    /\ owns = {}
    /\ fault = "none"

ContainersNext ==
    \/ \E r \in Names : \E content \in {TextCell, Array(<<>>), Dict(NoEntries)} : New(r, content)
    \/ \E n \in Names : Delete(n) \/ Clear(n, Nothing)
    \/ \E a, n \in Names :
          \/ Copy(a, n) \/ Sliced(a, n) \/ Reversed(a, n) \/ Sorted(a, n) \/ ArrayOf(a, n)
          \/ AssignArray(a, n) \/ AssignDict(a, n) \/ DictValues(a, n) \/ DictKeys(a, n)
          \/ \E i \in 0 .. MaxLength :
                \/ InsertElement(a, i, n, Nothing) \/ SetElement(a, i, n, Nothing)
                \/ GetElement(a, i, n) \/ GetElements(a, i, n)
                \/ \E r \in Names : ArrayMethod(a, i, n, r)
          \/ \E k \in DOMAIN Keys :
                \/ SetEntry(a, k, n, Nothing) \/ GetEntry(a, k, n) \/ DictOf(k, a, n)
                \/ \E r \in Names : DictMethod(a, k, n, r)
    \/ \E a \in Names, i \in 1 .. MaxLength : RemoveElement(a, i, Nothing)
    \/ \E d \in Names, k \in DOMAIN Keys : RemoveEntry(d, k, Nothing)

ContainersSpec == ContainersInit /\ [][ContainersNext]_containerVars

\* Every value that lives is owned once: by the client, by one place of one
\* array, or by one entry of one dict.  So no container holds a deleted value,
\* two containers share none, and a change of one shows in no other.
OneOwner ==
    Intact =>
        \A c \in DOMAIN heap :
            LET places == {p \in UNION {{d} \X DOMAIN heap[d].at : d \in DOMAIN heap} :
                              heap[p[1]].at[p[2]] = c}
                owners == {n \in owns : points[n] = c}
            IN  Cardinality(places) + Cardinality(owners) = IF heap[c] = Deleted THEN 0 ELSE 1

----------------------------------------------------------------------------
(* Comparison.  An element counts by its toString: here, the text it gives. *)
(* The branches for null are left out: addElement refuses a null, and the   *)
(* evaluation of a call throws where an argument has no value.              *)

ArrayLess(s, t) ==
    LET n == Min({Len(s), Len(t)})
        differ == {i \in 1 .. n : s[i] # t[i]}
    IN  IF differ = {} THEN Len(s) < Len(t) ELSE TextLess(s[Min(differ)], t[Min(differ)])

\* A dict: its entries, pairs of a key and a text, in the order of the map.
DictLess(s, t) ==
    LET differ == {i \in DOMAIN s : s[i] # t[i]}
    IN  IF Len(s) # Len(t) THEN Len(s) < Len(t)
        ELSE /\ differ # {}
             /\ LET x == s[Min(differ)]
                    y == t[Min(differ)]
                IN  IF x.key # y.key THEN TextLess(x.key, y.key) ELSE TextLess(x.text, y.text)

\* Array::indexOf and contains: the first element that says what t says.
IndexOfElement(s, t) ==
    LET places == {i \in DOMAIN s : s[i] = t} IN IF places = {} THEN -1 ELSE Min(places) - 1

\* begin and next of both: the positions of a loop that next ends with a null.
Walk(s) ==
    LET from[i \in 0 .. Len(s)] == IF i < Len(s) THEN <<i>> \o from[i + 1] ELSE <<>> IN from[0]

\* operator<= and the rest are made of < and == for arrays and dicts alike.
ContainerOperation(op, less, equal) ==
    CASE op = "<" -> less [] op = "==" -> equal [] op = "!=" -> ~equal
      [] op = "<=" -> less \/ equal [] op = ">" -> ~(less \/ equal) [] op = ">=" -> ~less

=============================================================================
