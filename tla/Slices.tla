-------------------------------- MODULE Slices --------------------------------
(***************************************************************************)
(* go/util/collection/slice/slice.go: the functions of slicehelper on      *)
(* slices that share arrays, as Go's slices do.                            *)
(***************************************************************************)
EXTENDS Integers, FiniteSets, SequencesExt

CONSTANTS
  Elems,      \* values of the element type; 0 is its zero value
  MaxLen,     \* bound: length of the first slice
  MaxCalls    \* bound: calls made one after the other

ASSUME ElemsAssumption == Elems \subseteq Int /\ 0 \in Elems
ASSUME MaxLenAssumption == MaxLen \in Nat

VARIABLES
  heap,       \* heap[a]: the elements of array a
  slices,     \* the slices the caller holds: [array, off, len, cap]
  calls,      \* calls made so far
  last        \* the last call: function, its operands' elements, what it returned

vars == <<heap, slices, calls, last>>

nil       == [array |-> 0, off |-> 0, len |-> 0, cap |-> 0]
Read(h)   == IF h.array = 0 THEN <<>> ELSE SubSeq(heap[h.array], h.off + 1, h.off + h.len)
Panic     == <<-1>>          \* in place of what the call returns
Whole(a, s) == [array |-> a, off |-> 0, len |-> Len(s), cap |-> Len(s)]

TypeOK ==
  \A i \in DOMAIN slices :
    LET h == slices[i] IN
      \/ h = nil
      \/ /\ h.array \in DOMAIN heap
         /\ h.len \in 0 .. h.cap /\ h.off \in 0 .. Len(heap[h.array])
         /\ h.off + h.cap = Len(heap[h.array])

\* The caller has one slice, with or without spare capacity, or nil.
Init ==
  /\ \E s \in BoundedSeq(Elems, MaxLen), spare \in 0 .. 1 :
       \/ /\ heap = <<s \o [i \in 1 .. spare |-> 0]>>
          /\ slices = <<[array |-> 1, off |-> 0, len |-> Len(s), cap |-> Len(s) + spare]>>
       \/ heap = <<>> /\ slices = <<nil>>
  /\ calls = 0 /\ last = [fn |-> "none"]

-----------------------------------------------------------------------------
(* What the functions compute.                                             *)

\* sort.Slice of a copy: the i-th element is the i-th smallest.
Sort(s) ==
  LET AtMost(x) == Cardinality({j \in 1 .. Len(s) : s[j] <= x})
      Below(x)  == Cardinality({j \in 1 .. Len(s) : s[j] < x})
  IN  [i \in 1 .. Len(s) |-> CHOOSE x \in ToSet(s) : Below(x) < i /\ i <= AtMost(x)]

\* "last" is the zero value before the first element, which is always kept.
SortedUnique(s) ==
  LET loop[i \in 0 .. Len(s)] ==
        IF i = 0 THEN [out |-> <<>>, last |-> 0]
        ELSE IF i # 1 /\ loop[i - 1].last = s[i] THEN loop[i - 1]
        ELSE [out |-> Append(loop[i - 1].out, s[i]), last |-> s[i]]
  IN  loop[Len(s)].out

Unique(s) == SortedUnique(Sort(s))

\* One round of the loop of Compare, at i and j.
Round(u, w, at) ==
  IF u[at.i] < w[at.j]
  THEN [i |-> at.i + 1, j |-> at.j, log |-> Append(at.log, <<"left", u[at.i]>>)]
  ELSE IF u[at.i] > w[at.j]
  THEN [i |-> at.i, j |-> at.j + 1, log |-> Append(at.log, <<"right", w[at.j]>>)]
  ELSE [i |-> at.i + 1, j |-> at.j + 1, log |-> Append(at.log, <<"equal", u[at.i]>>)]

\* One of the loops over what remains.
RestRound(u, w, at) ==
  IF at.i <= Len(u)
  THEN [i |-> at.i + 1, j |-> at.j, log |-> Append(at.log, <<"left", u[at.i]>>)]
  ELSE IF at.j <= Len(w)
  THEN [i |-> at.i, j |-> at.j + 1, log |-> Append(at.log, <<"right", w[at.j]>>)]
  ELSE at

CompareNoTail(s1, s2) ==
  LET u == Unique(s1)   w == Unique(s2)
      loop[k \in 0 .. Len(u) + Len(w)] ==
        IF k = 0 THEN [i |-> 1, j |-> 1, log |-> <<>>]
        ELSE IF loop[k - 1].i <= Len(u) /\ loop[k - 1].j <= Len(w) THEN Round(u, w, loop[k - 1])
        ELSE loop[k - 1]
  IN  loop[Len(u) + Len(w)].log

\* The calls of left, equal and right, in order.
Compare(s1, s2) ==
  LET u == Unique(s1)   w == Unique(s2)
      loop[k \in 0 .. Len(u) + Len(w)] ==
        IF k = 0 THEN [i |-> 1, j |-> 1, log |-> <<>>]
        ELSE IF loop[k - 1].i <= Len(u) /\ loop[k - 1].j <= Len(w) THEN Round(u, w, loop[k - 1])
        ELSE RestRound(u, w, loop[k - 1])
  IN  loop[Len(u) + Len(w)].log

\* The loops that append what they keep: the elements at the indices of I, in order.
Keep(s, I) ==
  LET out[i \in 0 .. Len(s)] ==
        IF i = 0 THEN <<>> ELSE IF i \in I THEN Append(out[i - 1], s[i]) ELSE out[i - 1]
  IN  out[Len(s)]

Side(log, name) ==
  LET c == Keep(log, {i \in 1 .. Len(log) : log[i][1] = name})
  IN  [i \in 1 .. Len(c) |-> c[i][2]]

Subtract(s1, s2) == Side(Compare(s1, s2), "left")

RemoveAll(a, b) == Keep(a, {i \in 1 .. Len(a) : a[i] \notin ToSet(b)})

Index(s, v) == SelectInSeq(s, LAMBDA x : x = v) - 1

\* sort.Search: halves the interval from i to j, each round one more.
Search(s, v) ==
  LET loop[k \in 0 .. Len(s)] ==
        IF k = 0 THEN [i |-> 0, j |-> Len(s)]
        ELSE LET at == loop[k - 1]
                 h  == (at.i + at.j) \div 2
             IN  IF at.i >= at.j THEN at
                 ELSE IF s[h + 1] < v THEN [i |-> h + 1, j |-> at.j] ELSE [i |-> at.i, j |-> h]
  IN  loop[Len(s)].i

SortedIndexUnchecked(s, v) == IF Search(s, v) < Len(s) THEN Search(s, v) ELSE -1

\* sort.Search, and the test of what it found.
SortedIndex(s, v) ==
  LET idx == Search(s, v)
  IN  IF idx < Len(s) /\ s[idx + 1] = v THEN idx ELSE -1

First(s) == IF s # <<>> THEN <<s[1], TRUE>> ELSE <<0, FALSE>>
Last1(s) == IF s # <<>> THEN <<s[Len(s)], TRUE>> ELSE <<0, FALSE>>

\* The function argument is called with the index and the element, in order; what
\* it is called with stands for what it returns.
Calls(s) == [i \in DOMAIN s |-> <<i - 1, s[i]>>]
Reduce(s) == FoldLeftDomain(LAMBDA acc, i : Append(acc, <<i - 1, s[i]>>), <<>>, s)
Select(s, P) == Keep(s, {i \in 1 .. Len(s) : s[i] \in P})
Find(s, P) == LET i == SelectInSeq(s, LAMBDA x : x \in P)
              IN  IF i > 0 THEN <<s[i], TRUE>> ELSE <<0, FALSE>>

RemoveLoopNoMove(a, n, v) ==
  LET loop[i \in 0 .. n] ==
        IF i = 0 THEN [array |-> a, len |-> n, panic |-> FALSE]
        ELSE IF a[i] # v THEN loop[i - 1] ELSE [loop[i - 1] EXCEPT !.len = @ - 1]
  IN  loop[n]

RemoveLoopToCap(a, n, v) ==
  LET loop[i \in 0 .. n] ==
        IF i = 0 THEN [array |-> a, len |-> n, panic |-> FALSE]
        ELSE LET l == loop[i - 1] IN
          IF l.panic \/ l.array[i] # v THEN l
          ELSE IF i > l.len THEN [l EXCEPT !.panic = TRUE]
          ELSE [array |-> [k \in DOMAIN l.array |->
                             IF k \in i .. Len(l.array) - 1 THEN l.array[k + 1] ELSE l.array[k]],
                len |-> l.len - 1, panic |-> FALSE]
  IN  loop[n]

\* Remove: works in the operand's array: "append(l[:i], l[i+1:]...)" moves the rest
\* of l down and shortens l, while the loop goes over the indices of the slice as
\* it was.  l[i+1:] panics when l has become shorter than that.
RemoveLoop(a, n, v) ==
  LET loop[i \in 0 .. n] ==
        IF i = 0 THEN [array |-> a, len |-> n, panic |-> FALSE]
        ELSE LET l == loop[i - 1] IN
          IF l.panic \/ l.array[i] # v THEN l
          ELSE IF i > l.len THEN [l EXCEPT !.panic = TRUE]
          ELSE [array |-> [k \in DOMAIN l.array |->
                             IF k \in i .. l.len - 1 THEN l.array[k + 1] ELSE l.array[k]],
                len |-> l.len - 1, panic |-> FALSE]
  IN  loop[n]

-----------------------------------------------------------------------------
(* The calls.  What they append to is as long as its capacity: the spare    *)
(* room that append leaves is not modelled.                                 *)

Called(fn, s, t, v, r) ==
  /\ calls < MaxCalls
  /\ calls' = calls + 1
  /\ last' = [fn |-> fn, s |-> s, t |-> t, v |-> v, ret |-> r]

\* The call returns a slice of its own, or nil.
Returns(fn, s, t, v, r, none) ==
  /\ Called(fn, s, t, v, r)
  /\ heap' = IF none THEN heap ELSE Append(heap, r)
  /\ slices' = Append(slices, IF none THEN nil ELSE Whole(Len(heap) + 1, r))

Copying(h) ==
  LET s == Read(h) IN
  \/ Returns("Sort", s, <<>>, 0, Sort(s), h = nil)
  \/ Returns("SortedUnique", s, <<>>, 0, SortedUnique(s), h = nil)
  \/ Returns("Unique", s, <<>>, 0, Unique(s), h = nil)
  \/ \E v \in Elems : Returns("Unshift", s, <<>>, v, <<v>> \o s, FALSE)
  \/ \E P \in SUBSET Elems : Returns("Select", s, <<>>, P, Select(s, P), FALSE)

SubtractCall(h, g) ==
  Returns("Subtract", Read(h), Read(g), 0, Subtract(Read(h), Read(g)), FALSE)

\* "var diff []T" stays nil when nothing is left.
RemoveAllCall(h, g) ==
  LET r == RemoveAll(Read(h), Read(g)) IN
  Returns("RemoveAll", Read(h), Read(g), 0, r, r = <<>>)

PopFirst(h) ==
  /\ Called("Pop", Read(h), <<>>, 0, Last1(Read(h))[1])
  /\ slices' = Append(slices, IF h.len > 1 THEN [h EXCEPT !.off = @ + 1, !.len = @ - 1, !.cap = @ - 1]
                              ELSE nil)
  /\ UNCHANGED heap

\* Pop and Shift return a part of their operand: they share its array.
Pop(h) ==
  /\ Called("Pop", Read(h), <<>>, 0, Last1(Read(h))[1])
  /\ slices' = Append(slices, IF h.len > 0 THEN [h EXCEPT !.len = @ - 1] ELSE nil)
  /\ UNCHANGED heap

ShiftKeepsCap(h) ==
  /\ Called("Shift", Read(h), <<>>, 0, First(Read(h))[1])
  /\ slices' = Append(slices, IF h.len > 0 THEN [h EXCEPT !.off = @ + 1, !.len = @ - 1] ELSE nil)
  /\ UNCHANGED heap

Shift(h) ==
  /\ Called("Shift", Read(h), <<>>, 0, First(Read(h))[1])
  /\ slices' = Append(slices, IF h.len > 0
                              THEN [h EXCEPT !.off = @ + 1, !.len = @ - 1, !.cap = @ - 1]
                              ELSE nil)
  /\ UNCHANGED heap

RemoveCall(h, v) ==
  LET before == IF h = nil THEN <<>> ELSE SubSeq(heap[h.array], h.off + 1, h.off + h.cap)
      done   == RemoveLoop(before, h.len, v)
  IN  /\ Called("Remove", Read(h), <<>>, v,
                IF done.panic THEN Panic ELSE SubSeq(done.array, 1, done.len))
      /\ heap' = IF h = nil THEN heap
                 ELSE [heap EXCEPT ![h.array] = SubSeq(@, 1, h.off) \o done.array]
      /\ slices' = IF done.panic THEN slices ELSE Append(slices, [h EXCEPT !.len = done.len])

\* The functions that return no slice of T.
Query(h, g) ==
  LET s == Read(h) IN
  /\ \/ \E v \in Elems :
          \/ Called("Index", s, <<>>, v, Index(s, v))
          \/ Sort(s) = s /\ Called("SortedIndex", s, <<>>, v, SortedIndex(s, v))
     \/ \E P \in SUBSET Elems : Called("Find", s, <<>>, P, Find(s, P))
     \/ Called("Compare", s, Read(g), 0, Compare(s, Read(g)))
     \/ Called("Map", s, <<>>, 0, Calls(s))
     \/ Called("Reduce", s, <<>>, 0, Reduce(s))
  /\ UNCHANGED <<heap, slices>>

Next ==
  \E i, j \in DOMAIN slices :
    \/ Copying(slices[i]) \/ SubtractCall(slices[i], slices[j]) \/ RemoveAllCall(slices[i], slices[j])
    \/ Pop(slices[i]) \/ Shift(slices[i])
    \/ \E v \in Elems : RemoveCall(slices[i], v)
    \/ Query(slices[i], slices[j])

Spec == Init /\ [][Next]_vars

-----------------------------------------------------------------------------
(* Properties.                                                             *)

Ascending(s) == \A i \in 1 .. Len(s) - 1 : s[i] < s[i + 1]
IsSetSeq(s, S) == Ascending(s) /\ ToSet(s) = S
Without(s, v) == Keep(s, {i \in 1 .. Len(s) : s[i] # v})
Count(s, v) == Cardinality({i \in DOMAIN s : s[i] = v})

\* The places of h's array from the first v of h to the end of h.
FromFirst(h, v) == {h.off + k : k \in {k \in 1 .. h.len : \E j \in 1 .. k : Read(h)[j] = v}}

\* The slice g begins no later than h in their array, and ends no earlier.
Covers(g, h) == g.off <= h.off /\ h.off + h.len <= g.off + g.len

\* A change of h by Remove of v that the slice g reads: from the first v of h to the
\* end of h, and a slice that holds all of h loses no element but v.
InsideOnly(g, h, v) ==
  /\ g.array = h.array
  /\ \A k \in 1 .. g.len : Read(g)'[k] # Read(g)[k] => g.off + k \in FromFirst(h, v)
  /\ Covers(g, h) => ToSet(Read(g)) \ {v} \subseteq ToSet(Read(g)')

\* Only Remove has side effects on the slices the caller holds (slice.go:4, :171): those
\* that share its operand's array, as what Pop and Shift return does, change where
\* Remove moves elements, and nowhere else.
ChangedInside ==
  [][\A g \in ToSet(slices) : Read(g)' # Read(g) =>
       /\ last'.fn = "Remove"
       /\ \E h \in ToSet(slices) : last'.s = Read(h) /\ InsideOnly(g, h, last'.v)]_vars

\* The set operations agree with sets, whatever their operands' order and
\* repetitions, the zero value included; Compare calls back once for each element,
\* in ascending order.
SetsAgree ==
  LET r == last.ret  S == ToSet(last.s)  T == ToSet(last.t) IN
  /\ last.fn = "Unique"    => IsSetSeq(r, S)
  /\ last.fn = "Subtract"  => IsSetSeq(r, S \ T)
  /\ last.fn = "RemoveAll" => IsSetSeq(Unique(r), S \ T)
  /\ last.fn = "Compare"   => /\ IsSetSeq([i \in DOMAIN r |-> r[i][2]], S \cup T)
                              /\ ToSet(Side(r, "left")) = S \ T
                              /\ ToSet(Side(r, "equal")) = S \cap T
                              /\ ToSet(Side(r, "right")) = T \ S

\* The binary search finds an element exactly if the sorted slice has it.
SearchFinds ==
  last.fn = "SortedIndex" =>
    IF last.v \in ToSet(last.s) THEN last.s[last.ret + 1] = last.v ELSE last.ret = -1

\* What Pop and Shift return, put back, makes the operand again.
EndsRejoin ==
  LET rest == Read(slices[Len(slices)]) IN
  /\ last.fn = "Pop" /\ last.s # <<>> => Append(rest, last.ret) = last.s
  /\ last.fn = "Shift" /\ last.s # <<>> => <<last.ret>> \o rest = last.s

\* Remove gives the operand without v if v is in it at most once.
RemovesOne ==
  last.fn = "Remove" /\ Count(last.s, last.v) <= 1
    => last.ret = Without(last.s, last.v)

\* "remove v elements from slice" (slice.go:167), however often v is in it.
RemovesEvery ==
  last.fn = "Remove" => last.ret = Without(last.s, last.v)

\* Every function returns what it is for, and every slice lies within its array.
ResultsRight == TypeOK /\ SetsAgree /\ SearchFinds /\ EndsRejoin /\ RemovesOne
=============================================================================
