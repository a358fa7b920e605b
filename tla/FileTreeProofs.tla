---------------------------- MODULE FileTreeProofs ----------------------------
(***************************************************************************)
(* The directory tree that path.cc and FileUtil.java work on, for any      *)
(* number of processes, any tree and any calls: the tree stays a tree      *)
(* whatever system calls interleave, and a file that is moved is not lost. *)
(***************************************************************************)
EXTENDS FileTree, SequenceTheorems, FiniteSetTheorems, NaturalsInduction, WellFoundedInduction, TLAPS

(* Paths.                                                                  *)

LEMMA FrontFacts ==
  ASSUME NEW S, NEW s \in Seq(S), s # <<>>
  PROVE  /\ Front(s) \in Seq(S) /\ Len(Front(s)) = Len(s) - 1 /\ Len(s) \in Nat \ {0}
         /\ \A i \in 1 .. Len(s) - 1 : Front(s)[i] = s[i]
         /\ Last(s) \in S /\ Last(s) = s[Len(s)]
<1> DEFINE n == Len(s)
<1>1. n \in Nat \ {0}
  BY EmptySeq, LenProperties
<1>2. \A i \in 1 .. n : s[i] \in S
  BY ElementOfSeq
<1> HIDE DEF n
<1>3. \A i \in 1 .. n - 1 : s[i] \in S
  BY <1>1, <1>2
<1>4. /\ SubSeq(s, 1, n - 1) \in Seq(S) /\ Len(SubSeq(s, 1, n - 1)) = IF 1 <= n - 1 THEN n - 1 - 1 + 1 ELSE 0
      /\ \A i \in 1 .. n - 1 - 1 + 1 : SubSeq(s, 1, n - 1)[i] = s[1 + i - 1]
  BY <1>1, <1>3, SubSeqProperties
<1>5. Front(s) = SubSeq(s, 1, n - 1)
  BY DEF Front, n
<1>6. n - 1 - 1 + 1 = n - 1 /\ Len(Front(s)) = n - 1 /\ \A i \in 1 .. n - 1 : 1 + i - 1 = i
  BY <1>1, <1>4, <1>5
<1>7. s[n] \in S
  BY <1>1, <1>2
<1> QED BY <1>1, <1>4, <1>5, <1>6, <1>7 DEF Last, n

LEMMA ParentInPaths ==
  ASSUME NEW p \in Paths
  PROVE  Parent(p) \in Paths
<1>1. CASE p # <<>>
  BY <1>1, TreesAssumption
<1>2. CASE p = <<>>
  <2>1. SubSeq(<<>>, 1, 0 - 1) = <<>>
    BY SubSeqEmpty
  <2>2. Len(<<>>) = 0
    BY EmptySeq
  <2>3. Front(<<>>) = SubSeq(<<>>, 1, Len(<<>>) - 1)
    BY DEF Front
  <2> QED BY <1>2, <2>1, <2>2, <2>3 DEF Parent
<1> QED BY <1>1, <1>2

LEMMA ParentFacts ==
  ASSUME NEW p \in Paths
  PROVE  /\ p \in Seq(STRING) /\ Len(p) \in Nat /\ Len(Parent(p)) \in Nat
         /\ p # <<>> => Len(p) > 0 /\ Len(Parent(p)) = Len(p) - 1
         /\ p = <<>> => Parent(p) = <<>>
         /\ \A i \in 1 .. Len(Parent(p)) : i \in 1 .. Len(p) /\ Parent(p)[i] = p[i]
<1>1. p \in Seq(STRING) /\ Len(p) \in Nat /\ Parent(p) \in Paths
  BY TreesAssumption, LenProperties, ParentInPaths
<1>2. Parent(p) \in Seq(STRING) /\ Len(Parent(p)) \in Nat
  BY <1>1, TreesAssumption, LenProperties
<1>3. CASE p # <<>>
  BY <1>1, <1>2, <1>3, FrontFacts DEF Parent
<1>4. CASE p = <<>>
  <2>1. SubSeq(<<>>, 1, 0 - 1) = <<>>
    BY SubSeqEmpty
  <2>2. Len(<<>>) = 0
    BY EmptySeq
  <2>3. Parent(p) = <<>>
    BY <1>4, <2>1, <2>2 DEF Parent, Front
  <2> QED BY <1>1, <1>4, <2>2, <2>3
<1> QED BY <1>3, <1>4

\* A directory above p is a beginning of p.
LEMMA UnderIs ==
  ASSUME NEW a \in Paths, NEW p \in Paths
  PROVE  Under(a, p) <=> Len(a) <= Len(p) /\ \A i \in 1 .. Len(a) : a[i] = p[i]
<1> DEFINE k == Len(a)  v == SubSeq(p, 1, k)  u == SubSeq(a, 1, k)
<1>1. a \in Seq(STRING) /\ p \in Seq(STRING) /\ k \in Nat /\ Len(p) \in Nat
  BY ParentFacts
<1>2. Under(a, p) <=> k <= Len(p) /\ u = v
  BY DEF Under, IsPrefix
<1> SUFFICES ASSUME k <= Len(p) PROVE u = v <=> \A i \in 1 .. k : a[i] = p[i]
  BY <1>1, <1>2
<1> HIDE DEF k
<1>3. \A i \in 1 .. k : a[i] \in STRING /\ p[i] \in STRING
  <2> SUFFICES ASSUME NEW i \in 1 .. k PROVE a[i] \in STRING /\ p[i] \in STRING
    OBVIOUS
  <2>1. i \in 1 .. Len(a) /\ i \in 1 .. Len(p)
    BY <1>1 DEF k
  <2> QED BY <1>1, <2>1, ElementOfSeq
<1>4. /\ u \in Seq(STRING) /\ Len(u) = IF 1 <= k THEN k - 1 + 1 ELSE 0
      /\ \A i \in 1 .. k - 1 + 1 : u[i] = a[1 + i - 1]
  BY <1>1, <1>3, SubSeqProperties
<1>5. /\ v \in Seq(STRING) /\ Len(v) = IF 1 <= k THEN k - 1 + 1 ELSE 0
      /\ \A i \in 1 .. k - 1 + 1 : v[i] = p[1 + i - 1]
  BY <1>1, <1>3, SubSeqProperties
<1> HIDE DEF u, v
<1>6. k - 1 + 1 = k /\ Len(u) = k /\ Len(v) = k /\ \A i \in 1 .. k : 1 + i - 1 = i
  BY <1>1, <1>4, <1>5
<1>7. \A i \in 1 .. k : u[i] = a[i] /\ v[i] = p[i]
  BY <1>4, <1>5, <1>6
<1>8. (\A i \in 1 .. k : u[i] = v[i]) => u = v
  BY <1>4, <1>5, <1>6, SeqEqual
<1> QED BY <1>7, <1>8

LEMMA UnderSelf ==
  ASSUME NEW p \in Paths
  PROVE  Under(p, p)
  BY UnderIs, ParentFacts

LEMMA UnderTransitive ==
  ASSUME NEW a \in Paths, NEW b \in Paths, NEW c \in Paths, Under(a, b), Under(b, c)
  PROVE  Under(a, c)
<1>1. /\ Len(a) \in Nat /\ Len(b) \in Nat /\ Len(c) \in Nat
      /\ Len(a) <= Len(b) /\ Len(b) <= Len(c)
      /\ \A i \in 1 .. Len(a) : a[i] = b[i]
      /\ \A i \in 1 .. Len(b) : b[i] = c[i]
  BY UnderIs, ParentFacts
<1>2. \A i \in 1 .. Len(a) : a[i] = c[i]
  BY <1>1
<1> QED BY <1>1, <1>2, UnderIs

LEMMA ParentUnder ==
  ASSUME NEW p \in Paths
  PROVE  Parent(p) \in Paths /\ Under(Parent(p), p)
<1>1. Len(Parent(p)) <= Len(p)
  BY ParentFacts
<1> QED BY <1>1, ParentInPaths, ParentFacts, UnderIs

\* What is below the directory of p is below a directory above it.
LEMMA UnderParent ==
  ASSUME NEW a \in Paths, NEW p \in Paths, Under(a, Parent(p))
  PROVE  Under(a, p)
  BY ParentUnder, UnderTransitive

\* Two directories above p are one above the other, and the same if they are as deep.
LEMMA AboveOne ==
  ASSUME NEW a \in Paths, NEW b \in Paths, NEW p \in Paths, Under(a, p), Under(b, p), Len(a) <= Len(b)
  PROVE  Under(a, b) /\ (Len(a) = Len(b) => a = b)
<1>1. /\ Len(a) \in Nat /\ Len(b) \in Nat
      /\ \A i \in 1 .. Len(a) : a[i] = p[i]
      /\ \A i \in 1 .. Len(b) : b[i] = p[i]
      /\ a \in Seq(STRING) /\ b \in Seq(STRING)
  BY UnderIs, ParentFacts
<1>2. \A i \in 1 .. Len(a) : a[i] = b[i]
  BY <1>1
<1>3. Len(a) = Len(b) => a = b
  BY <1>1, <1>2, SeqEqual
<1> QED BY <1>2, <1>3, UnderIs

LEMMA Comparable ==
  ASSUME NEW a \in Paths, NEW b \in Paths, NEW p \in Paths, Under(a, p), Under(b, p)
  PROVE  Under(a, b) \/ Under(b, a)
<1>1. Len(a) <= Len(b) \/ Len(b) <= Len(a)
  BY ParentFacts
<1> QED BY <1>1, AboveOne

\* What is above p, and is not p, is above its directory.
LEMMA StrictlyUnder ==
  ASSUME NEW a \in Paths, NEW p \in Paths, Under(a, p), a # p
  PROVE  p # <<>> /\ Len(a) < Len(p) /\ Under(a, Parent(p)) /\ Parent(p) \in Paths
<1>1. Len(a) \in Nat /\ Len(p) \in Nat /\ Len(a) <= Len(p)
  BY UnderIs, ParentFacts
<1>2. Under(p, p)
  BY UnderSelf
<1>3. Len(a) < Len(p)
  BY <1>1, <1>2, AboveOne
<1>4. p # <<>> /\ Len(Parent(p)) = Len(p) - 1
  BY <1>1, <1>3, ParentFacts, EmptySeq
<1>5. Parent(p) \in Paths /\ Under(Parent(p), p) /\ Len(a) <= Len(Parent(p))
  BY <1>1, <1>3, <1>4, ParentUnder
<1> QED BY <1>3, <1>4, <1>5, AboveOne

LEMMA Least ==
  ASSUME NEW S \in SUBSET Nat, S # {}
  PROVE  \E x \in S : \A y \in S : x <= y
<1> DEFINE R == OpToRel(<, Nat)
<1>1. IsWellFoundedOn(R, Nat)
  BY NatLessThanWellFounded
<1>2. \A a, b \in Nat : a < b => <<a, b>> \in R
  BY DEF OpToRel
<1> HIDE DEF R
<1>3. PICK x \in S : \A y \in S : ~ (<<y, x>> \in R)
  BY <1>1, WFMin
<1>4. \A y \in S : y \in Nat /\ x \in Nat /\ ~ (y < x)
  BY <1>2, <1>3
<1> QED BY <1>4

\* Of paths there is one that is as short as any.
LEMMA Shortest ==
  ASSUME NEW S \in SUBSET Paths, S # {}
  PROVE  \E p \in S : \A q \in S : Len(p) <= Len(q)
<1> DEFINE L == {Len(p) : p \in S}
<1>1. L \in SUBSET Nat /\ L # {}
  BY ParentFacts
<1>2. PICK n \in L : \A m \in L : n <= m
  BY <1>1, Least
<1> QED BY <1>2

\* On the way from a down to p there is an entry of a.
LEMMA EntryTowards ==
  ASSUME NEW a \in Paths, NEW p \in Paths, Under(a, p), a # p
  PROVE  \E q \in Paths \ {<<>>} : Parent(q) = a /\ Under(q, p)
<1> DEFINE S == {x \in Paths : Under(a, x) /\ a # x /\ Under(x, p)}
<1>1. p \in S
  BY UnderSelf
<1>2. PICK x \in S : \A y \in S : Len(x) <= Len(y)
  BY <1>1, Shortest
<1>3. /\ x # <<>> /\ Under(a, Parent(x)) /\ Parent(x) \in Paths
      /\ Len(Parent(x)) = Len(x) - 1 /\ Len(x) \in Nat
  BY <1>2, StrictlyUnder, ParentFacts
<1>4. Under(Parent(x), p)
  BY <1>2, <1>3, ParentUnder, UnderTransitive
<1>5. Parent(x) \notin S
  BY <1>2, <1>3
<1> QED BY <1>2, <1>3, <1>4, <1>5

\* In a tree there is nothing below what is no directory.
LEMMA NothingBelow ==
  ASSUME NEW t, IsTree(t), NEW a \in Paths, t[a] # Dir, NEW p \in Paths, Under(a, p), a # p
  PROVE  t[p] = None
<1> DEFINE S == {x \in Paths : Under(a, x) /\ a # x /\ t[x] # None}
<1> SUFFICES ASSUME S # {} PROVE FALSE
  OBVIOUS
<1>1. PICK x \in S : \A y \in S : Len(x) <= Len(y)
  BY Shortest
<1>2. /\ x # <<>> /\ Under(a, Parent(x)) /\ Parent(x) \in Paths
      /\ Len(Parent(x)) = Len(x) - 1 /\ Len(x) \in Nat
  BY <1>1, StrictlyUnder, ParentFacts
<1>3. t[Parent(x)] = Dir
  BY <1>1, <1>2 DEF IsTree
<1>4. Parent(x) \in S
  BY <1>2, <1>3 DEF None, Dir
<1> QED BY <1>1, <1>2, <1>4

-----------------------------------------------------------------------------
(* The recursion of a call.                                                *)

EntrySet == [path : Paths \ {<<>>}, dir : BOOLEAN]
FrameSet == [path : Paths, todo : Seq(EntrySet)]

\* A list of entries of directory d.
OfDir(d, todo) ==
  todo \in Seq(EntrySet) /\ \A j \in 1 .. Len(todo) : Parent(todo[j].path) = d

\* Where the recursion of call c begins, and which frame follows which: a call that
\* removes goes down the tree, one that makes directories goes up.
Begins(c, p) == p = c.path \/ (c.op = "moveFile" /\ p = Parent(c.tar))
Follows(c, q, p) == IF c.op \in Removers THEN p # <<>> /\ Parent(p) = q ELSE p = Parent(q)

\* How far it may come.
Reaches(c, p) ==
  IF c.op \in Removers THEN Under(c.path, p)
  ELSE Under(p, c.path) \/ (c.op = "moveFile" /\ Under(p, c.tar))

Good(c, s) ==
  /\ s \in Seq(FrameSet)
  /\ \A i \in 1 .. Len(s) : OfDir(s[i].path, s[i].todo) /\ Reaches(c, s[i].path)
  /\ s # <<>> => Begins(c, s[1].path)
  /\ \A i \in 2 .. Len(s) : Follows(c, s[i - 1].path, s[i].path)

LEMMA CallFacts ==
  ASSUME NEW c \in Calls, NEW w \in Procs
  PROVE  /\ c[w].path \in Paths /\ (c[w].op = "moveFile" => c[w].tar \in Paths)
         /\ c[w].op \in Removers \cup {"mkdir", "createDirectory", "moveFile"}
  BY TreesAssumption DEF Removers

LEMMA BeginsReaches ==
  ASSUME NEW c, c.path \in Paths, c.op = "moveFile" => c.tar \in Paths, NEW p, Begins(c, p)
  PROVE  p \in Paths /\ Reaches(c, p)
<1>1. CASE p = c.path
  BY <1>1, UnderSelf DEF Reaches
<1>2. CASE c.op = "moveFile" /\ p = Parent(c.tar)
  BY <1>2, ParentUnder DEF Reaches, Removers
<1> QED BY <1>1, <1>2 DEF Begins

LEMMA FollowsReaches ==
  ASSUME NEW c, c.path \in Paths, c.op = "moveFile" => c.tar \in Paths,
         NEW q \in Paths, NEW p \in Paths, Follows(c, q, p), Reaches(c, q)
  PROVE  Reaches(c, p)
<1>1. CASE c.op \in Removers
  BY <1>1, UnderParent DEF Reaches, Follows
<1>2. CASE c.op \notin Removers
  <2>1. Under(p, q)
    BY <1>2, ParentUnder DEF Follows
  <2> QED BY <1>2, <2>1, UnderTransitive DEF Reaches
<1> QED BY <1>1, <1>2

LEMMA OfDirEmpty ==
  ASSUME NEW d
  PROVE  OfDir(d, <<>>)
  BY EmptySeq DEF OfDir

LEMMA OfDirHeadTail ==
  ASSUME NEW d, NEW todo, OfDir(d, todo), todo # <<>>
  PROVE  /\ Head(todo) \in EntrySet /\ Parent(Head(todo).path) = d
         /\ OfDir(d, Tail(todo))
<1>1. todo \in Seq(EntrySet) /\ \A j \in 1 .. Len(todo) : Parent(todo[j].path) = d
  BY DEF OfDir
<1>2. Len(todo) \in Nat \ {0} /\ Head(todo) = todo[1]
  BY <1>1, EmptySeq, LenProperties
<1>3. /\ Head(todo) \in EntrySet /\ Tail(todo) \in Seq(EntrySet) /\ Len(Tail(todo)) = Len(todo) - 1
      /\ \A j \in 1 .. Len(Tail(todo)) : Tail(todo)[j] = todo[j + 1]
  BY <1>1, HeadTailProperties
<1>4. \A j \in 1 .. Len(Tail(todo)) : Parent(Tail(todo)[j].path) = d
  <2> SUFFICES ASSUME NEW j \in 1 .. Len(Tail(todo)) PROVE Parent(Tail(todo)[j].path) = d
    OBVIOUS
  <2>1. j + 1 \in 1 .. Len(todo)
    BY <1>2, <1>3
  <2> QED BY <1>1, <1>3, <2>1
<1> QED BY <1>1, <1>2, <1>3, <1>4 DEF OfDir

LEMMA EntriesFinite ==
  ASSUME NEW d
  PROVE  IsFiniteSet(Entries(d)) /\ Cardinality(Entries(d)) \in Nat
<1>1. Entries(d) \subseteq Paths
  BY DEF Entries
<1> QED BY <1>1, TreesAssumption, FS_Subset, FS_CardinalityType

LEMMA ListingOfDir ==
  ASSUME NEW d, NEW list \in Listings(d)
  PROVE  OfDir(d, list)
<1> DEFINE n == Cardinality(Entries(d))
<1>1. n \in Nat
  BY EntriesFinite
<1> HIDE DEF n
<1>2. PICK order \in [1 .. n -> Entries(d)] :
        list = [i \in DOMAIN order |-> [path |-> order[i], dir |-> IsDir(order[i])]]
  BY DEF Listings, SetToSeqs, n
<1>3. \A i \in 1 .. n : order[i] \in Paths \ {<<>>} /\ Parent(order[i]) = d
  BY <1>2 DEF Entries
<1>4. list \in [1 .. n -> EntrySet] /\ \A i \in 1 .. n : list[i].path = order[i]
  BY <1>2, <1>3 DEF EntrySet, IsDir
<1>5. list \in Seq(EntrySet) /\ Len(list) = n
  BY <1>1, <1>4, SeqDef
<1> QED BY <1>3, <1>4, <1>5 DEF OfDir

LEMMA FrameIs ==
  ASSUME NEW p \in Paths
  PROVE  Frame(p) \in FrameSet /\ Frame(p).path = p /\ OfDir(Frame(p).path, Frame(p).todo)
<1>1. Frame(p).path = p /\ Frame(p).todo = <<>>
  BY DEF Frame
<1>2. Frame(p) \in FrameSet
  BY EmptySeq DEF Frame, FrameSet
<1> QED BY <1>1, <1>2, OfDirEmpty

LEMMA GoodTop ==
  ASSUME NEW c, NEW s, Good(c, s), s # <<>>
  PROVE  /\ Len(s) \in Nat \ {0} /\ Last(s) \in FrameSet /\ Last(s).path \in Paths
         /\ OfDir(Last(s).path, Last(s).todo)
         /\ Reaches(c, Last(s).path)
<1>1. s \in Seq(FrameSet)
  BY DEF Good
<1>2. Len(s) \in Nat \ {0} /\ Last(s) \in FrameSet /\ Last(s) = s[Len(s)]
  BY <1>1, FrontFacts
<1> QED BY <1>2 DEF Good, FrameSet

LEMMA GoodFront ==
  ASSUME NEW c, NEW s, Good(c, s), s # <<>>
  PROVE  Good(c, Front(s))
<1>1. s \in Seq(FrameSet)
  BY DEF Good
<1>2. /\ Front(s) \in Seq(FrameSet) /\ Len(Front(s)) = Len(s) - 1 /\ Len(s) \in Nat \ {0}
      /\ \A i \in 1 .. Len(s) - 1 : Front(s)[i] = s[i]
  BY <1>1, FrontFacts
<1>3. \A i \in 1 .. Len(s) - 1 : i \in 1 .. Len(s)
  BY <1>2
<1>5. Front(s) # <<>> => Begins(c, Front(s)[1].path)
  <2>1. Front(s) # <<>> => 1 \in 1 .. Len(s) - 1
    BY <1>2, EmptySeq
  <2> QED BY <1>2, <2>1 DEF Good
<1>4. \A i \in 2 .. Len(s) - 1 : i \in 2 .. Len(s) /\ i \in 1 .. Len(s) - 1 /\ i - 1 \in 1 .. Len(s) - 1
  BY <1>2
<1> QED BY <1>2, <1>3, <1>4, <1>5 DEF Good

\* One frame more.
LEMMA GoodAppend ==
  ASSUME NEW c, NEW s, Good(c, s), NEW f \in FrameSet, OfDir(f.path, f.todo),
         Reaches(c, f.path), s = <<>> => Begins(c, f.path),
         s # <<>> => Follows(c, Last(s).path, f.path)
  PROVE  Good(c, Append(s, f)) /\ Last(Append(s, f)) = f /\ Append(s, f) # <<>>
<1> DEFINE t == Append(s, f)
<1>1. s \in Seq(FrameSet) /\ Len(s) \in Nat
  BY LenProperties DEF Good
<1>2. /\ t \in Seq(FrameSet) /\ Len(t) = Len(s) + 1 /\ t # <<>> /\ t[Len(s) + 1] = f
      /\ \A i \in 1 .. Len(s) : t[i] = s[i]
  BY <1>1, AppendProperties
<1> HIDE DEF t
<1>3. Last(t) = f
  BY <1>2 DEF Last
<1>4. \A i \in 1 .. Len(s) + 1 : i \in 1 .. Len(s) \/ i = Len(s) + 1
  BY <1>1
<1>5. \A i \in 1 .. Len(t) : OfDir(t[i].path, t[i].todo)
  BY <1>2, <1>4 DEF Good
<1>6. \A i \in 1 .. Len(t) : Reaches(c, t[i].path)
  BY <1>2, <1>4 DEF Good
<1>8. Begins(c, t[1].path)
  <2>1. CASE s = <<>>
    <3>1. Len(s) + 1 = 1
      BY <2>1, EmptySeq
    <3> QED BY <1>2, <2>1, <3>1
  <2>2. CASE s # <<>>
    <3>1. 1 \in 1 .. Len(s)
      BY <1>1, <2>2, EmptySeq
    <3> QED BY <1>2, <2>2, <3>1 DEF Good
  <2> QED BY <2>1, <2>2
<1>7. ASSUME NEW i \in 2 .. Len(t)
      PROVE  Follows(c, t[i - 1].path, t[i].path)
  <2>1. CASE i \in 2 .. Len(s)
    <3>1. i \in 1 .. Len(s) /\ i - 1 \in 1 .. Len(s)
      BY <1>1, <2>1
    <3> QED BY <1>2, <2>1, <3>1 DEF Good
  <2>2. CASE i = Len(s) + 1
    <3>1. i - 1 = Len(s) /\ Len(s) \in 1 .. Len(s)
      BY <1>1, <1>2, <2>2
    <3>2. s # <<>> /\ t[i - 1] = Last(s) /\ t[i] = f
      BY <1>2, <2>2, <3>1, EmptySeq DEF Last
    <3> QED BY <3>2
  <2> QED BY <1>1, <1>2, <2>1, <2>2
<1> QED BY <1>2, <1>3, <1>5, <1>6, <1>7, <1>8 DEF Good, t

\* The entries of the last frame replaced.
LEMMA GoodTodo ==
  ASSUME NEW c, NEW s, Good(c, s), s # <<>>, NEW todo, OfDir(Last(s).path, todo)
  PROVE  LET t == Append(Front(s), [path |-> Last(s).path, todo |-> todo])
         IN  Good(c, t) /\ t # <<>> /\ Last(t).path = Last(s).path /\ Last(t).todo = todo
<1> DEFINE f == [path |-> Last(s).path, todo |-> todo]  r == Front(s)  n == Len(s)
<1>1. /\ Last(s).path \in Paths /\ Reaches(c, Last(s).path)
      /\ s \in Seq(FrameSet)
  BY GoodTop DEF Good
<1>2. f \in FrameSet /\ f.path = Last(s).path /\ f.todo = todo /\ OfDir(f.path, f.todo)
  BY <1>1 DEF FrameSet, OfDir
<1>3. Good(c, r)
  BY GoodFront
<1>4. /\ r \in Seq(FrameSet) /\ Len(r) = n - 1 /\ n \in Nat \ {0} /\ Last(s) = s[n]
      /\ \A i \in 1 .. n - 1 : r[i] = s[i]
  BY <1>1, FrontFacts
<1>7. r = <<>> => Begins(c, f.path)
  <2> SUFFICES ASSUME r = <<>> PROVE Begins(c, f.path)
    OBVIOUS
  <2>1. Len(r) = 0
    BY EmptySeq
  <2>2. n = 1
    BY <1>4, <2>1
  <2> QED BY <1>2, <1>4, <2>2 DEF Good
<1>5. r # <<>> => Follows(c, Last(r).path, f.path)
  <2> SUFFICES ASSUME r # <<>> PROVE Follows(c, Last(r).path, f.path)
    OBVIOUS
  <2> HIDE DEF n, f, r
  <2>1. Len(r) \in Nat \ {0} /\ Last(r) = r[Len(r)]
    BY <1>4, FrontFacts
  <2>2. n \in 2 .. n /\ n - 1 \in 1 .. n - 1
    BY <1>4, <2>1
  <2>3. Last(r) = s[n - 1]
    BY <1>4, <2>1, <2>2
  <2> QED BY <1>2, <1>4, <2>2, <2>3 DEF Good, n
<1> HIDE DEF f, r
<1>6. Good(c, Append(r, f)) /\ Last(Append(r, f)) = f /\ Append(r, f) # <<>>
  BY <1>1, <1>2, <1>3, <1>5, <1>7, GoodAppend
<1> QED BY <1>2, <1>6 DEF f, r

-----------------------------------------------------------------------------
(* The control of the calls.                                               *)

\* The places in the code of each function.
Belongs(op, label) ==
  \/ label = "done"
  \/ op = "mkdir" /\ label \in {"mkdir", "base", "make"}
  \/ op = "rmdir" /\ label \in {"readdir", "rmdir"}
  \/ op = "createDirectory" /\ label \in {"exists", "mkdirs", "mkdirs2"}
  \/ op = "moveFile" /\ label \in {"isFile", "parent", "rename", "mkdirs", "mkdirs2"}
  \/ op = "deleteFiles" /\ label \in {"listFiles", "test", "delete"}
  \/ op = "deleteDirectory" /\ label \in {"notExists", "walk", "entries"}

LocalInv ==
  /\ call \in Calls /\ pc \in [Procs -> Labels] /\ result \in [Procs -> Results]
  /\ stack \in [Procs -> Seq(FrameSet)]
  /\ \A w \in Procs :
       /\ Good(call[w], stack[w]) /\ Belongs(call[w].op, pc[w])
       /\ pc[w] # "done" => stack[w] # <<>>
       /\ pc[w] = "delete" => Todo(w) # <<>>

\* A step of w leaves the others where they are.
Alone(w) == \A v \in Procs \ {w} : pc'[v] = pc[v] /\ stack'[v] = stack[v] /\ result'[v] = result[v]

LEMMA LocalStep ==
  ASSUME LocalInv, call' = call, NEW w \in Procs, NEW label \in Labels, NEW s, NEW r \in Results,
         pc' = [pc EXCEPT ![w] = label], stack' = [stack EXCEPT ![w] = s],
         result' = [result EXCEPT ![w] = r],
         Good(call[w], s), Belongs(call[w].op, label),
         label # "done" => s # <<>>, label = "delete" => Last(s).todo # <<>>
  PROVE  LocalInv' /\ Alone(w)
<1>1. s \in Seq(FrameSet)
  BY DEF Good
<1>2. pc' \in [Procs -> Labels] /\ result' \in [Procs -> Results] /\ stack' \in [Procs -> Seq(FrameSet)]
  BY <1>1 DEF LocalInv
<1>3. pc'[w] = label /\ stack'[w] = s
  BY DEF LocalInv
<1>4. \A v \in Procs \ {w} : pc'[v] = pc[v] /\ stack'[v] = stack[v] /\ result'[v] = result[v]
  BY DEF LocalInv
<1>5. ASSUME NEW v \in Procs
      PROVE  /\ Good(call'[v], stack'[v]) /\ Belongs(call'[v].op, pc'[v])
             /\ pc'[v] # "done" => stack'[v] # <<>>
             /\ pc'[v] = "delete" => Last(stack'[v]).todo # <<>>
  <2>1. CASE v = w
    BY <1>3, <2>1
  <2>2. CASE v # w
    BY <1>4, <2>2 DEF LocalInv, Todo, Top
  <2> QED BY <2>1, <2>2
<1> QED BY <1>2, <1>4, <1>5 DEF LocalInv, Todo, Top, Alone

LEMMA TopFacts ==
  ASSUME LocalInv, NEW w \in Procs, pc[w] # "done"
  PROVE  /\ Here(w) \in Paths /\ Parent(Here(w)) \in Paths
         /\ OfDir(Here(w), Todo(w))
         /\ Reaches(call[w], Here(w)) /\ (call[w].op \in Removers => Under(call[w].path, Here(w)))
         /\ Len(stack[w]) \in Nat \ {0} /\ stack[w] # <<>>
         /\ Good(call[w], stack[w]) /\ result[w] \in Results
<1>1. Good(call[w], stack[w]) /\ stack[w] # <<>>
  BY DEF LocalInv
<1>2. result[w] \in Results
  BY DEF LocalInv
<1>3. Parent(Last(stack[w]).path) \in Paths
  BY <1>1, GoodTop, ParentInPaths
<1>4. Reaches(call[w], Here(w)) => (call[w].op \in Removers => Under(call[w].path, Here(w)))
  BY DEF Reaches
<1> QED BY <1>1, <1>2, <1>3, <1>4, GoodTop DEF Here, Todo, Top

\* The entry that comes next is in the directory of the frame.
LEMMA NextFacts ==
  ASSUME LocalInv, NEW w \in Procs, pc[w] # "done", Todo(w) # <<>>
  PROVE  /\ Next1(w).path \in Paths \ {<<>>} /\ Parent(Next1(w).path) = Here(w)
         /\ OfDir(Here(w), Tail(Todo(w)))
         /\ call[w].op \in Removers => Under(call[w].path, Next1(w).path)
<1>1. OfDir(Here(w), Todo(w)) /\ (call[w].op \in Removers => Under(call[w].path, Here(w)))
  BY TopFacts
<1>2. Next1(w) \in EntrySet /\ Parent(Next1(w).path) = Here(w) /\ OfDir(Here(w), Tail(Todo(w)))
  BY <1>1, OfDirHeadTail DEF Next1
<1>3. Next1(w).path \in Paths \ {<<>>}
  BY <1>2 DEF EntrySet
<1>4. call[w].path \in Paths
  BY TreesAssumption DEF LocalInv
<1>5. call[w].op \in Removers => Under(call[w].path, Next1(w).path)
  BY <1>1, <1>2, <1>3, <1>4, UnderParent
<1> QED BY <1>2, <1>3, <1>5

LEMMA GotoLocal ==
  ASSUME LocalInv, call' = call, NEW w \in Procs, pc[w] # "done", NEW label \in Labels,
         Belongs(call[w].op, label), label = "delete" => Todo(w) # <<>>, Goto(w, label)
  PROVE  LocalInv' /\ Alone(w)
<1>1. stack' = [stack EXCEPT ![w] = stack[w]] /\ result' = [result EXCEPT ![w] = result[w]]
  BY DEF Goto, LocalInv
<1>2. pc' = [pc EXCEPT ![w] = label] /\ (label = "delete" => Last(stack[w]).todo # <<>>)
  BY DEF Goto, Todo, Top
<1> QED BY <1>1, <1>2, TopFacts, LocalStep

LEMMA FinishLocal ==
  ASSUME LocalInv, call' = call, NEW w \in Procs, NEW r \in Results, Finish(w, r)
  PROVE  LocalInv' /\ Alone(w)
<1>1. Good(call[w], <<>>)
  BY EmptySeq DEF Good
<1>2. "done" \in Labels /\ Belongs(call[w].op, "done")
  BY DEF Labels, Belongs
<1> QED BY <1>1, <1>2, LocalStep DEF Finish

LEMMA PushLocal ==
  ASSUME LocalInv, call' = call, NEW w \in Procs, pc[w] # "done", NEW label \in Labels,
         Belongs(call[w].op, label), label # "delete", call[w].op \notin Removers,
         NEW p \in Paths, Parent(Here(w)) = p, Push(w, p, label)
  PROVE  LocalInv' /\ Alone(w)
<1> DEFINE s == Append(stack[w], Frame(p))
<1>1. Frame(p) \in FrameSet /\ Frame(p).path = p /\ OfDir(Frame(p).path, Frame(p).todo)
  BY FrameIs
<1>4. Follows(call[w], Last(stack[w]).path, p) /\ Reaches(call[w], p)
  <2>1. Follows(call[w], Here(w), p)
    BY DEF Follows
  <2>2. /\ call[w].path \in Paths /\ (call[w].op = "moveFile" => call[w].tar \in Paths)
        /\ Here(w) \in Paths /\ Reaches(call[w], Here(w))
    BY CallFacts, TopFacts DEF LocalInv
  <2> QED BY <2>1, <2>2, FollowsReaches DEF Here, Top
<1>2. Good(call[w], s) /\ s # <<>>
  BY <1>1, <1>4, TopFacts, GoodAppend
<1>3. result' = [result EXCEPT ![w] = result[w]] /\ stack' = [stack EXCEPT ![w] = s]
  BY DEF Push, LocalInv
<1> QED BY <1>2, <1>3, TopFacts, LocalStep DEF Push

LEMMA PopLocal ==
  ASSUME LocalInv, call' = call, NEW w \in Procs, pc[w] # "done", NEW label \in Labels,
         Belongs(call[w].op, label), label # "delete", Len(stack[w]) # 1, Pop(w, label)
  PROVE  LocalInv' /\ Alone(w)
<1> DEFINE s == Front(stack[w])
<1>1. Good(call[w], s)
  BY TopFacts, GoodFront
<1>2. s # <<>>
  <2>1. stack[w] \in Seq(FrameSet) /\ stack[w] # <<>> /\ Len(stack[w]) \in Nat \ {0}
    BY TopFacts DEF LocalInv
  <2>2. s \in Seq(FrameSet) /\ Len(s) = Len(stack[w]) - 1
    BY <2>1, FrontFacts
  <2>3. Len(s) # 0
    BY <2>1, <2>2
  <2> QED BY <2>2, <2>3, EmptySeq
<1>3. result' = [result EXCEPT ![w] = result[w]] /\ stack' = [stack EXCEPT ![w] = s]
  BY DEF Pop, LocalInv
<1> QED BY <1>1, <1>2, <1>3, TopFacts, LocalStep DEF Pop

LEMMA ReturnLocal ==
  ASSUME LocalInv, call' = call, NEW w \in Procs, pc[w] # "done", NEW label \in Labels, NEW r \in Results,
         Belongs(call[w].op, label), label # "delete", Return(w, r, label)
  PROVE  LocalInv' /\ Alone(w)
  BY PopLocal, FinishLocal DEF Return

LEMMA SetTodoLocal ==
  ASSUME LocalInv, call' = call, NEW w \in Procs, pc[w] # "done", NEW label \in Labels,
         Belongs(call[w].op, label), label # "delete",
         NEW todo, OfDir(Here(w), todo), SetTodo(w, todo, label)
  PROVE  LocalInv' /\ Alone(w)
<1> DEFINE s == With(w, todo)
<1>1. Good(call[w], s) /\ s # <<>>
  BY TopFacts, GoodTodo DEF Here, Top, With
<1>2. result' = [result EXCEPT ![w] = result[w]] /\ stack' = [stack EXCEPT ![w] = s]
  BY DEF SetTodo, LocalInv
<1> QED BY <1>1, <1>2, TopFacts, LocalStep DEF SetTodo

LEMMA EnterLocal ==
  ASSUME LocalInv, call' = call, NEW w \in Procs, pc[w] # "done", NEW label \in Labels,
         Belongs(call[w].op, label), label # "delete", call[w].op \in Removers, Todo(w) # <<>>,
         Enter(w, Next1(w).path, label)
  PROVE  LocalInv' /\ Alone(w)
<1> DEFINE t == With(w, Tail(Todo(w)))  p == Next1(w).path  s == Append(t, Frame(p))
<1>1. /\ p \in Paths \ {<<>>} /\ Parent(p) = Here(w) /\ OfDir(Here(w), Tail(Todo(w)))
      /\ Follows(call[w], Here(w), p) /\ Reaches(call[w], p)
  BY NextFacts DEF Follows, Reaches
<1>2. Good(call[w], t) /\ t # <<>> /\ Last(t).path = Here(w)
  <2> DEFINE todo == Tail(Todo(w))
  <2>1. Good(call[w], stack[w]) /\ stack[w] # <<>> /\ OfDir(Last(stack[w]).path, todo)
    BY <1>1, TopFacts DEF Here, Top
  <2> HIDE DEF todo
  <2> DEFINE u == Append(Front(stack[w]), [path |-> Last(stack[w]).path, todo |-> todo])
  <2>2. Good(call[w], u) /\ u # <<>> /\ Last(u).path = Last(stack[w]).path
    BY <2>1, GoodTodo
  <2>3. u = t
    BY DEF With, Here, Top, todo
  <2> QED BY <2>2, <2>3 DEF Here, Top
<1> HIDE DEF t
<1>3. Frame(p) \in FrameSet /\ Frame(p).path = p /\ OfDir(Frame(p).path, Frame(p).todo)
  BY <1>1, FrameIs
<1>4. Good(call[w], s) /\ s # <<>>
  BY <1>1, <1>2, <1>3, GoodAppend
<1>5. result' = [result EXCEPT ![w] = result[w]] /\ stack' = [stack EXCEPT ![w] = s]
  BY DEF Enter, LocalInv, t
<1> QED BY <1>4, <1>5, TopFacts, LocalStep DEF Enter

LEMMA EndMkdirsLocal ==
  ASSUME LocalInv, call' = call, NEW w \in Procs, pc[w] \in {"mkdirs", "mkdirs2"}, EndMkdirs(w)
  PROVE  LocalInv' /\ Alone(w)
<1>1. pc[w] # "done" /\ call[w].op \in {"createDirectory", "moveFile"}
  BY DEF LocalInv, Belongs
<1>2. CASE Len(stack[w]) > 1
  <2>1. Pop(w, "mkdirs2")
    BY <1>2 DEF EndMkdirs
  <2>3. Len(stack[w]) # 1
    <3> DEFINE n == Len(stack[w])
    <3>1. n \in Nat /\ n > 1
      BY <1>1, <1>2, TopFacts
    <3> HIDE DEF n
    <3>2. n # 1
      BY <3>1
    <3> QED BY <3>2 DEF n
  <2>2. "mkdirs2" \in Labels /\ Belongs(call[w].op, "mkdirs2")
    BY <1>1 DEF Labels, Belongs
  <2> QED BY <1>1, <2>1, <2>2, <2>3, PopLocal
<1>3. CASE ~ (Len(stack[w]) > 1) /\ call[w].op = "moveFile"
  <2>1. Goto(w, "rename") /\ "rename" \in Labels /\ Belongs(call[w].op, "rename")
    BY <1>3 DEF EndMkdirs, Labels, Belongs
  <2> QED BY <1>1, <2>1, GotoLocal
<1>4. CASE ~ (Len(stack[w]) > 1) /\ call[w].op # "moveFile"
  <2>1. Finish(w, "void") /\ "void" \in Results
    BY <1>4 DEF EndMkdirs, Results
  <2> QED BY <2>1, FinishLocal
<1> QED BY <1>2, <1>3, <1>4

-----------------------------------------------------------------------------
(* The steps, one by one.                                                  *)

\* What a step of w does to the tree: directories are made where nothing is, above what
\* is to be made, a call that removes does so below its path, and only rename puts
\* something onto something.
Changes(w) ==
  \/ UNCHANGED fs
  \/ \E p \in Paths : /\ CanMake(p) /\ Put(p, Dir)
                      /\ call[w].op \notin Removers /\ Reaches(call[w], p)
  \/ \E p \in Paths : /\ CanRemove(p) /\ Put(p, None)
                      /\ call[w].op \in Removers /\ Under(call[w].path, p)
  \/ call[w].op = "moveFile" /\ Rename(w)

LEMMA MkdirFacts ==
  ASSUME LocalInv, call' = call, NEW w \in Procs, MkdirIsDir(w) \/ MkdirBase(w) \/ MkdirMake(w)
  PROVE  LocalInv' /\ Alone(w) /\ Changes(w) /\ pc[w] # "done"
<1>1. call[w].op = "mkdir" /\ pc[w] # "done"
  BY DEF MkdirIsDir, MkdirBase, MkdirMake, At, LocalInv, Belongs
<1>2. /\ {"mkdir", "base", "make"} \subseteq Labels /\ {"true", "false"} \subseteq Results
      /\ \A label \in {"mkdir", "base", "make"} : Belongs("mkdir", label)
      /\ "mkdir" \notin Removers
  BY DEF Labels, Belongs, Results, Removers
<1>3. /\ Here(w) \in Paths /\ Parent(Here(w)) \in Paths
      /\ Reaches(call[w], Here(w)) /\ call[w].op \notin Removers
  BY <1>1, <1>2, TopFacts
<1>4. CASE MkdirIsDir(w)
  <2>1. (Return(w, "true", "make") \/ Goto(w, "base")) /\ UNCHANGED fs
    BY <1>4 DEF MkdirIsDir
  <2> QED BY <1>1, <1>2, <2>1, ReturnLocal, GotoLocal DEF Changes
<1>5. CASE MkdirBase(w)
  <2>1. (Goto(w, "make") \/ Push(w, Parent(Here(w)), "mkdir")) /\ UNCHANGED fs
    BY <1>5 DEF MkdirBase
  <2> QED BY <1>1, <1>2, <1>3, <2>1, GotoLocal, PushLocal DEF Changes
<1>6. CASE MkdirMake(w)
  <2>1. \/ CanMake(Here(w)) /\ Put(Here(w), Dir) /\ Return(w, "true", "make")
        \/ Finish(w, "false") /\ UNCHANGED fs
    BY <1>6 DEF MkdirMake
  <2>2. Changes(w)
    BY <1>3, <2>1 DEF Changes
  <2> QED BY <1>1, <1>2, <2>1, <2>2, ReturnLocal, FinishLocal
<1> QED BY <1>4, <1>5, <1>6

LEMMA RmdirFacts ==
  ASSUME LocalInv, call' = call, NEW w \in Procs, Readdir(w) \/ RmdirEntry(w) \/ RmdirSelf(w)
  PROVE  LocalInv' /\ Alone(w) /\ Changes(w) /\ pc[w] # "done"
<1>1. call[w].op = "rmdir" /\ pc[w] # "done"
  BY DEF Readdir, RmdirEntry, RmdirSelf, At, LocalInv, Belongs
<1>2. /\ {"readdir", "rmdir"} \subseteq Labels /\ {"true", "throw"} \subseteq Results
      /\ \A label \in {"readdir", "rmdir"} : Belongs("rmdir", label)
      /\ "rmdir" \in Removers
  BY DEF Labels, Belongs, Results, Removers
<1>3. Here(w) \in Paths /\ Under(call[w].path, Here(w)) /\ OfDir(Here(w), <<>>)
  BY <1>1, <1>2, TopFacts, OfDirEmpty
<1>4. CASE Readdir(w)
  <2>1. UNCHANGED fs /\ (Finish(w, "throw") \/ \E list \in Listings(Here(w)) : SetTodo(w, list, "rmdir"))
    BY <1>4 DEF Readdir
  <2> QED BY <1>1, <1>2, <2>1, FinishLocal, SetTodoLocal, ListingOfDir DEF Changes
<1>5. CASE RmdirEntry(w)
  <2>1. Todo(w) # <<>>
    BY <1>5 DEF RmdirEntry
  <2>2. \/ Enter(w, Next1(w).path, "readdir") /\ UNCHANGED fs
        \/ CanRemove(Next1(w).path) /\ Put(Next1(w).path, None) /\ SetTodo(w, Tail(Todo(w)), "rmdir")
        \/ SetTodo(w, <<>>, "rmdir") /\ UNCHANGED fs
    BY <1>5 DEF RmdirEntry, Skip
  <2>3. /\ Next1(w).path \in Paths /\ OfDir(Here(w), Tail(Todo(w)))
        /\ Under(call[w].path, Next1(w).path)
    BY <1>1, <1>2, <2>1, NextFacts
  <2>4. Changes(w)
    BY <1>1, <1>2, <2>2, <2>3 DEF Changes
  <2> QED BY <1>1, <1>2, <1>3, <2>1, <2>2, <2>3, <2>4, EnterLocal, SetTodoLocal
<1>6. CASE RmdirSelf(w)
  <2>1. \/ CanRmdir(Here(w)) /\ Put(Here(w), None) /\ Return(w, "true", "rmdir")
        \/ Finish(w, "throw") /\ UNCHANGED fs
    BY <1>6 DEF RmdirSelf
  <2>2. Changes(w)
    BY <1>1, <1>2, <1>3, <2>1 DEF Changes, CanRemove
  <2> QED BY <1>1, <1>2, <2>1, <2>2, ReturnLocal, FinishLocal
<1> QED BY <1>4, <1>5, <1>6

LEMMA MkdirsFacts ==
  ASSUME LocalInv, call' = call, NEW w \in Procs, CreateDirectory(w) \/ Mkdirs(w) \/ MkdirsAgain(w)
  PROVE  LocalInv' /\ Alone(w) /\ Changes(w) /\ pc[w] # "done"
<1>1. call[w].op \in {"createDirectory", "moveFile"} /\ pc[w] # "done"
  BY DEF CreateDirectory, Mkdirs, MkdirsAgain, At, LocalInv, Belongs
<1>2. /\ {"mkdirs", "mkdirs2"} \subseteq Labels /\ "void" \in Results
      /\ Belongs(call[w].op, "mkdirs") /\ call[w].op \notin Removers
  BY <1>1 DEF Labels, Belongs, Results, Removers
<1>3. /\ Here(w) \in Paths /\ Parent(Here(w)) \in Paths
      /\ Reaches(call[w], Here(w)) /\ call[w].op \notin Removers
  BY <1>1, <1>2, TopFacts
<1>4. CASE CreateDirectory(w)
  <2>1. (Finish(w, "void") \/ Goto(w, "mkdirs")) /\ UNCHANGED fs
    BY <1>4 DEF CreateDirectory
  <2> QED BY <1>1, <1>2, <2>1, FinishLocal, GotoLocal DEF Changes
<1>5. CASE Mkdirs(w)
  <2>1. \/ CanMake(Here(w)) /\ Put(Here(w), Dir) /\ EndMkdirs(w)
        \/ EndMkdirs(w) /\ UNCHANGED fs
        \/ Push(w, Parent(Here(w)), "mkdirs") /\ UNCHANGED fs
    BY <1>5 DEF Mkdirs
  <2>2. Changes(w)
    BY <1>3, <2>1 DEF Changes
  <2>3. pc[w] \in {"mkdirs", "mkdirs2"}
    BY <1>5 DEF Mkdirs, At
  <2> QED BY <1>1, <1>2, <1>3, <2>1, <2>2, <2>3, EndMkdirsLocal, PushLocal
<1>6. CASE MkdirsAgain(w)
  <2>1. EndMkdirs(w) /\ ((CanMake(Here(w)) /\ Put(Here(w), Dir)) \/ UNCHANGED fs)
    BY <1>6 DEF MkdirsAgain
  <2>2. Changes(w)
    BY <1>3, <2>1 DEF Changes
  <2>3. pc[w] \in {"mkdirs", "mkdirs2"}
    BY <1>6 DEF MkdirsAgain, At
  <2> QED BY <1>1, <2>1, <2>2, <2>3, EndMkdirsLocal
<1> QED BY <1>4, <1>5, <1>6

LEMMA MoveFacts ==
  ASSUME LocalInv, call' = call, NEW w \in Procs, MoveIsFile(w) \/ MoveParent(w) \/ Rename(w)
  PROVE  LocalInv' /\ Alone(w) /\ Changes(w) /\ pc[w] # "done"
<1>1. call[w].op = "moveFile" /\ pc[w] # "done"
  BY DEF MoveIsFile, MoveParent, Rename, At, LocalInv, Belongs
<1>2. /\ {"parent", "rename", "mkdirs"} \subseteq Labels /\ {"true", "false"} \subseteq Results
      /\ \A label \in {"parent", "rename", "mkdirs"} : Belongs("moveFile", label)
      /\ "moveFile" \notin Removers
  BY DEF Labels, Belongs, Results, Removers
<1>3. call[w].path \in Paths /\ call[w].tar \in Paths
  BY <1>1, TreesAssumption DEF LocalInv, Removers
<1>4. CASE MoveIsFile(w)
  <2>1. (Goto(w, "parent") \/ Finish(w, "false")) /\ UNCHANGED fs
    BY <1>4 DEF MoveIsFile
  <2> QED BY <1>1, <1>2, <2>1, FinishLocal, GotoLocal DEF Changes
<1>5. CASE MoveParent(w)
  <2> DEFINE d == Parent(call[w].tar)  label == IF IsDir(d) THEN "rename" ELSE "mkdirs"
             s == Append(<<>>, Frame(d))
  <2>1. /\ stack' = [stack EXCEPT ![w] = s] /\ UNCHANGED fs
        /\ pc' = [pc EXCEPT ![w] = label] /\ result' = [result EXCEPT ![w] = result[w]]
    BY <1>5 DEF MoveParent, LocalInv
  <2>2. label \in {"rename", "mkdirs"}
    OBVIOUS
  <2> HIDE DEF label
  <2>3. Good(call[w], <<>>)
    BY EmptySeq DEF Good
  <2>4. d \in Paths
    BY <1>3, ParentInPaths
  <2>10. Frame(d).path = Parent(call[w].tar)
    BY DEF Frame
  <2> HIDE DEF d
  <2>7. Frame(d) \in FrameSet /\ OfDir(Frame(d).path, Frame(d).todo)
    BY <2>4, FrameIs
  <2> DEFINE f == Frame(d)  c == call[w]
  <2>8. /\ f \in FrameSet /\ OfDir(f.path, f.todo) /\ Good(c, <<>>)
        /\ Begins(c, f.path) /\ Reaches(c, f.path)
    <3>1. Begins(c, f.path)
      BY <1>1, <2>10 DEF Begins
    <3> QED BY <1>3, <2>3, <2>7, <3>1, BeginsReaches
  <2> HIDE DEF f, c
  <2>9. Good(c, Append(<<>>, f)) /\ Append(<<>>, f) # <<>>
    BY <2>8, GoodAppend
  <2>5. Good(call[w], s) /\ s # <<>>
    BY <2>9 DEF f, c
  <2>6. label \in Labels /\ Belongs(call[w].op, label) /\ label # "delete" /\ result[w] \in Results
    BY <1>1, <1>2, <2>2 DEF LocalInv
  <2> HIDE DEF s
  <2> QED BY <1>1, <2>1, <2>5, <2>6, LocalStep DEF Changes
<1>6. CASE Rename(w)
  <2>1. Finish(w, "true") \/ Finish(w, "false")
    BY <1>6 DEF Rename
  <2> QED BY <1>1, <1>2, <1>6, <2>1, FinishLocal DEF Changes
<1> QED BY <1>4, <1>5, <1>6

LEMMA DeleteFilesFacts ==
  ASSUME LocalInv, call' = call, NEW w \in Procs,
         ListFiles(w) \/ DeleteTest(w) \/ DeleteEntry(w) \/ DeleteSelf(w)
  PROVE  LocalInv' /\ Alone(w) /\ Changes(w) /\ pc[w] # "done"
<1>1. call[w].op = "deleteFiles" /\ pc[w] # "done"
  BY DEF ListFiles, DeleteTest, DeleteEntry, DeleteSelf, At, LocalInv, Belongs
<1>2. /\ {"listFiles", "test", "delete"} \subseteq Labels /\ {"void", "throw"} \subseteq Results
      /\ \A label \in {"listFiles", "test", "delete"} : Belongs("deleteFiles", label)
      /\ "deleteFiles" \in Removers
  BY DEF Labels, Belongs, Results, Removers
<1>3. Here(w) \in Paths /\ Under(call[w].path, Here(w))
  BY <1>1, <1>2, TopFacts
<1>4. CASE ListFiles(w)
  <2>1. /\ UNCHANGED fs
        /\ \/ Finish(w, "throw") \/ Return(w, "void", "test")
           \/ \E list \in Listings(Here(w)) : SetTodo(w, list, "test")
    BY <1>4 DEF ListFiles
  <2> QED BY <1>1, <1>2, <2>1, FinishLocal, ReturnLocal, SetTodoLocal, ListingOfDir DEF Changes
<1>5. CASE DeleteTest(w)
  <2>1. /\ Todo(w) # <<>> /\ UNCHANGED fs
        /\ \/ Goto(w, "delete") \/ Enter(w, Next1(w).path, "listFiles")
           \/ SetTodo(w, Tail(Todo(w)), "test")
    BY <1>5 DEF DeleteTest, Skip
  <2>2. OfDir(Here(w), Tail(Todo(w)))
    BY <1>1, <2>1, NextFacts
  <2> QED BY <1>1, <1>2, <2>1, <2>2, GotoLocal, EnterLocal, SetTodoLocal DEF Changes
<1>6. CASE DeleteEntry(w)
  <2>1. /\ SetTodo(w, Tail(Todo(w)), "test")
        /\ (CanRemove(Next1(w).path) /\ Put(Next1(w).path, None)) \/ UNCHANGED fs
    BY <1>6 DEF DeleteEntry, Skip
  <2>2. Todo(w) # <<>>
    BY <1>6 DEF DeleteEntry, At, LocalInv
  <2>3. /\ Next1(w).path \in Paths /\ OfDir(Here(w), Tail(Todo(w)))
        /\ Under(call[w].path, Next1(w).path)
    BY <1>1, <1>2, <2>2, NextFacts
  <2>4. Changes(w)
    BY <1>1, <1>2, <2>1, <2>3 DEF Changes
  <2> QED BY <1>1, <1>2, <2>1, <2>3, <2>4, SetTodoLocal
<1>7. CASE DeleteSelf(w)
  <2>1. /\ Return(w, "void", "test")
        /\ (CanRemove(Here(w)) /\ Put(Here(w), None)) \/ UNCHANGED fs
    BY <1>7 DEF DeleteSelf
  <2>2. Changes(w)
    BY <1>1, <1>2, <1>3, <2>1 DEF Changes
  <2> QED BY <1>1, <1>2, <2>1, <2>2, ReturnLocal
<1> QED BY <1>4, <1>5, <1>6, <1>7

LEMMA DeleteDirectoryFacts ==
  ASSUME LocalInv, call' = call, NEW w \in Procs,
         NotExists(w) \/ Visit(w) \/ VisitEntry(w) \/ PostVisit(w)
  PROVE  LocalInv' /\ Alone(w) /\ Changes(w) /\ pc[w] # "done"
<1>1. call[w].op = "deleteDirectory" /\ pc[w] # "done"
  BY DEF NotExists, Visit, VisitEntry, PostVisit, At, LocalInv, Belongs
<1>2. /\ {"walk", "entries"} \subseteq Labels /\ {"void", "throw"} \subseteq Results
      /\ \A label \in {"walk", "entries"} : Belongs("deleteDirectory", label)
      /\ "deleteDirectory" \in Removers
  BY DEF Labels, Belongs, Results, Removers
<1>3. Here(w) \in Paths /\ Under(call[w].path, Here(w))
  BY <1>1, <1>2, TopFacts
<1>4. CASE NotExists(w)
  <2>1. (Finish(w, "void") \/ Goto(w, "walk")) /\ UNCHANGED fs
    BY <1>4 DEF NotExists
  <2> QED BY <1>1, <1>2, <2>1, FinishLocal, GotoLocal DEF Changes
<1>5. CASE Visit(w)
  <2>1. \/ UNCHANGED fs /\ \E list \in Listings(Here(w)) : SetTodo(w, list, "entries")
        \/ CanRemove(Here(w)) /\ Put(Here(w), None) /\ Return(w, "void", "entries")
        \/ Finish(w, "throw") /\ UNCHANGED fs
    BY <1>5 DEF Visit, CanRemove
  <2>2. Changes(w)
    BY <1>1, <1>2, <1>3, <2>1 DEF Changes
  <2> QED BY <1>1, <1>2, <2>1, <2>2, FinishLocal, ReturnLocal, SetTodoLocal, ListingOfDir
<1>6. CASE VisitEntry(w)
  <2>1. Todo(w) # <<>> /\ Enter(w, Next1(w).path, "walk") /\ UNCHANGED fs
    BY <1>6 DEF VisitEntry
  <2> QED BY <1>1, <1>2, <2>1, EnterLocal DEF Changes
<1>7. CASE PostVisit(w)
  <2>1. \/ CanRmdir(Here(w)) /\ Put(Here(w), None) /\ Return(w, "void", "entries")
        \/ Finish(w, "throw") /\ UNCHANGED fs
    BY <1>7 DEF PostVisit
  <2>2. Changes(w)
    BY <1>1, <1>2, <1>3, <2>1 DEF Changes, CanRemove
  <2> QED BY <1>1, <1>2, <2>1, <2>2, FinishLocal, ReturnLocal
<1> QED BY <1>4, <1>5, <1>6, <1>7

LEMMA StepFacts ==
  ASSUME LocalInv, NEW w \in Procs, Step(w)
  PROVE  LocalInv' /\ Alone(w) /\ Changes(w) /\ pc[w] # "done" /\ call' = call /\ before' = before
<1>1. call' = call /\ before' = before
  BY DEF Step
<1>2. \/ MkdirIsDir(w) \/ MkdirBase(w) \/ MkdirMake(w)
      \/ Readdir(w) \/ RmdirEntry(w) \/ RmdirSelf(w)
      \/ CreateDirectory(w) \/ Mkdirs(w) \/ MkdirsAgain(w)
      \/ MoveIsFile(w) \/ MoveParent(w) \/ Rename(w)
      \/ ListFiles(w) \/ DeleteTest(w) \/ DeleteEntry(w) \/ DeleteSelf(w)
      \/ NotExists(w) \/ Visit(w) \/ VisitEntry(w) \/ PostVisit(w)
  BY DEF Step
<1> QED BY <1>1, <1>2, MkdirFacts, RmdirFacts, MkdirsFacts, MoveFacts, DeleteFilesFacts, DeleteDirectoryFacts

-----------------------------------------------------------------------------
(* The tree.                                                               *)

LEMMA ThingsDiffer ==
  /\ None \in Things /\ Dir \in Things /\ None # Dir
  /\ \A p : File(p) # None /\ File(p) # Dir
  /\ None.kind # "file" /\ Dir.kind # "file" /\ \A p : File(p).kind = "file"
  BY DEF Things, None, Dir, File

\* What is made is made in a directory.
LEMMA MakeKeepsTree ==
  ASSUME IsTree(fs), NEW d \in Paths, CanMake(d), Put(d, Dir)
  PROVE  IsTree(fs')
<1>1. fs' = [fs EXCEPT ![d] = Dir] /\ fs \in [Paths -> Things] /\ fs[d] = None /\ fs[Parent(d)] = Dir
  BY DEF Put, IsTree, CanMake, IsDir
<1>2. fs' \in [Paths -> Things]
  BY <1>1, ThingsDiffer
<1>3. \A p \in Paths : fs[p] = Dir => fs'[p] = Dir
  BY <1>1
<1>4. ASSUME NEW p \in Paths \ {<<>>}, fs'[p] # None PROVE fs'[Parent(p)] = Dir
  <2>1. Parent(p) \in Paths
    BY ParentInPaths
  <2>2. CASE p = d
    BY <1>1, <1>3, <2>1, <2>2
  <2>3. CASE p # d
    BY <1>1, <1>3, <1>4, <2>1, <2>3 DEF IsTree
  <2> QED BY <2>2, <2>3
<1> QED BY <1>2, <1>4 DEF IsTree

\* What is removed contained nothing.
LEMMA RemoveKeepsTree ==
  ASSUME IsTree(fs), NEW d \in Paths, CanRemove(d), Put(d, None)
  PROVE  IsTree(fs')
<1>1. fs' = [fs EXCEPT ![d] = None] /\ fs \in [Paths -> Things]
  BY DEF Put, IsTree
<1>2. fs' \in [Paths -> Things]
  BY <1>1, ThingsDiffer
<1>3. ASSUME NEW p \in Paths \ {<<>>}, fs'[p] # None PROVE fs'[Parent(p)] = Dir
  <2>1. Parent(p) \in Paths /\ p # d /\ fs[p] # None
    BY <1>1, <1>3, ParentInPaths
  <2>2. fs[Parent(p)] = Dir
    BY <2>1 DEF IsTree
  <2>3. Parent(p) # d
    <3> SUFFICES ASSUME Parent(p) = d PROVE FALSE
      OBVIOUS
    <3>1. Entries(d) = {}
      BY <2>2, ThingsDiffer DEF CanRemove, CanRmdir, IsFile
    <3>2. p \in Entries(d)
      BY <2>1 DEF Entries
    <3> QED BY <3>1, <3>2
  <2> QED BY <1>1, <2>1, <2>2, <2>3
<1> QED BY <1>2, <1>3 DEF IsTree

\* What is renamed has nothing below it, and neither has what it replaces.
LEMMA RenameKeepsTree ==
  ASSUME IsTree(fs), NEW src \in Paths, NEW tar \in Paths, CanRename(src, tar),
         \A p \in Paths : Under(src, p) => p = src,
         fs' = [fs EXCEPT ![src] = None, ![tar] = fs[src]]
  PROVE  IsTree(fs')
<1>1. /\ fs \in [Paths -> Things] /\ fs[Parent(tar)] = Dir /\ fs[src] # None
      /\ fs[tar] = Dir => fs[src] = Dir /\ Entries(tar) = {}
  <2>1. IsFile(src) => fs[src] # Dir
    BY ThingsDiffer DEF IsFile
  <2>2. IsFile(src) \/ fs[src] = Dir
    BY ThingsDiffer DEF IsTree, Things, CanRename, IsFile
  <2> QED BY <2>1, <2>2, ThingsDiffer DEF IsTree, IsDir, CanRename, CanRmdir
<1>2. CASE src = tar
  <2>1. fs' = fs
    BY <1>1, <1>2
  <2> QED BY <2>1
<1>3. CASE src # tar
  <2>1. /\ fs' \in [Paths -> Things] /\ fs'[src] = None /\ fs'[tar] = fs[src]
        /\ \A p \in Paths : p # src /\ p # tar => fs'[p] = fs[p]
    BY <1>1, <1>3, ThingsDiffer
  <2>2. ASSUME NEW p \in Paths \ {<<>>}, Parent(p) = src PROVE FALSE
    <3>1. Under(src, p) /\ Parent(p) # p
      BY <2>2, ParentUnder, ParentFacts
    <3> QED BY <2>2, <3>1
  <2>3. ASSUME NEW p \in Paths \ {<<>>}, fs'[p] # None PROVE fs'[Parent(p)] = Dir
    <3>1. Parent(p) \in Paths /\ Parent(p) # src /\ p # src
      BY <2>1, <2>2, <2>3, ParentInPaths
    <3>2. fs[Parent(p)] = Dir
      <4>1. CASE p = tar
        BY <1>1, <4>1
      <4>2. CASE p # tar
        BY <2>1, <2>3, <3>1, <4>2 DEF IsTree
      <4> QED BY <4>1, <4>2
    <3>3. CASE Parent(p) = tar
      <4>1. Entries(tar) = {} /\ fs[src] = Dir
        BY <1>1, <3>2, <3>3
      <4>2. p = tar \/ p \in Entries(tar)
        BY <2>1, <2>3, <3>1, <3>3 DEF Entries
      <4> QED BY <2>1, <3>3, <4>1, <4>2
    <3>4. CASE Parent(p) # tar
      BY <2>1, <3>1, <3>2, <3>4
    <3> QED BY <3>3, <3>4
  <2> QED BY <2>1, <2>3 DEF IsTree
<1> QED BY <1>2, <1>3

LEMMA StepKeepsTree ==
  ASSUME LocalInv, IsTree(fs), NEW w \in Procs, Changes(w)
  PROVE  IsTree(fs')
<1>1. CASE call[w].op = "moveFile" /\ Rename(w)
  <2>1. /\ call[w].path \in Paths /\ call[w].tar \in Paths
        /\ \A p \in Paths : Under(call[w].path, p) => p = call[w].path
    BY <1>1, TreesAssumption DEF LocalInv, Removers, Under
  <2>2. \/ UNCHANGED fs
        \/ /\ CanRename(call[w].path, call[w].tar)
           /\ fs' = [fs EXCEPT ![call[w].path] = None, ![call[w].tar] = fs[call[w].path]]
    BY <1>1 DEF Rename
  <2> QED BY <2>1, <2>2, RenameKeepsTree
<1> QED BY <1>1, MakeKeepsTree, RemoveKeepsTree DEF Changes

-----------------------------------------------------------------------------
(* A file that is moved.                                                   *)

\* w moves a file that is there at first, and no other call moves or removes at its
\* source or its target.
Undisturbed(w) ==
  /\ call[w].op = "moveFile" /\ before[call[w].path] = File(call[w].path)
  /\ \A v \in Procs \ {w} : \A p \in {call[w].path, call[w].tar} :
       /\ call[v].op = "moveFile" => p \notin {call[v].path, call[v].tar}
       /\ call[v].op \in Removers => ~Under(call[v].path, p)

\* Until the call ends its file is at the source, for only it takes it away.
MoveInv ==
  \A w \in Procs : Undisturbed(w) =>
    /\ pc[w] # "done" => fs[call[w].path] = File(call[w].path)
    /\ \E p \in {call[w].path, call[w].tar} : fs[p] = File(call[w].path)

FileTreeInv == LocalInv /\ IsTree(fs) /\ MoveInv

\* A step of w itself.
LEMMA MoverStep ==
  ASSUME FileTreeInv, NEW w \in Procs, Step(w), Undisturbed(w)
  PROVE  /\ pc'[w] # "done" => fs'[call[w].path] = File(call[w].path)
         /\ \E p \in {call[w].path, call[w].tar} : fs'[p] = File(call[w].path)
<1> DEFINE src == call[w].path  tar == call[w].tar
<1>1. /\ LocalInv /\ IsTree(fs) /\ Changes(w) /\ pc[w] # "done"
      /\ call[w].op = "moveFile" /\ fs[src] = File(src)
  BY StepFacts DEF FileTreeInv, MoveInv, Undisturbed
<1>2. src \in Paths /\ tar \in Paths /\ fs \in [Paths -> Things]
  BY <1>1, TreesAssumption DEF LocalInv, Removers, IsTree
<1>3. CASE UNCHANGED fs
  BY <1>1, <1>3
<1>4. CASE \E p \in Paths : CanMake(p) /\ Put(p, Dir)
  <2>1. PICK p \in Paths : CanMake(p) /\ Put(p, Dir)
    BY <1>4
  <2>2. p # src
    BY <1>1, <2>1, ThingsDiffer DEF CanMake
  <2> QED BY <1>1, <1>2, <2>1, <2>2 DEF Put
<1>5. CASE Rename(w)
  <2>1. CASE CanRename(src, tar)
    <3>1. fs' = [fs EXCEPT ![src] = None, ![tar] = fs[src]] /\ Finish(w, "true")
      BY <1>5, <2>1 DEF Rename
    <3>2. pc'[w] = "done"
      BY <1>1, <3>1 DEF Finish, LocalInv
    <3>3. fs'[tar] = File(src)
      BY <1>1, <1>2, <3>1
    <3> QED BY <3>2, <3>3
  <2>2. CASE ~CanRename(src, tar)
    BY <1>1, <1>5, <2>2 DEF Rename
  <2> QED BY <2>1, <2>2
<1>6. "moveFile" \notin Removers
  BY DEF Removers
<1> QED BY <1>1, <1>3, <1>4, <1>5, <1>6 DEF Changes

\* A step of another process changes neither the source nor the target of w, if there is
\* a file.
LEMMA OthersStep ==
  ASSUME FileTreeInv, NEW w \in Procs, NEW v \in Procs \ {w}, Step(v), Undisturbed(w),
         NEW p \in {call[w].path, call[w].tar}, fs[p] = File(call[w].path)
  PROVE  fs'[p] = File(call[w].path)
<1>1. /\ LocalInv /\ IsTree(fs) /\ Changes(v)
      /\ call[v].op = "moveFile" => p \notin {call[v].path, call[v].tar}
      /\ call[v].op \in Removers => ~Under(call[v].path, p)
  BY StepFacts DEF FileTreeInv, Undisturbed
<1>2. p \in Paths /\ fs \in [Paths -> Things]
  <2>1. call[w].op = "moveFile" /\ call \in Calls
    BY <1>1 DEF LocalInv, Undisturbed
  <2>2. call[w].path \in Paths /\ call[w].tar \in Paths
    BY <2>1, TreesAssumption DEF Removers
  <2> QED BY <1>1, <2>2 DEF IsTree
<1>3. CASE \E q \in Paths : CanMake(q) /\ Put(q, Dir)
  <2>1. PICK q \in Paths : CanMake(q) /\ Put(q, Dir)
    BY <1>3
  <2>2. p # q
    BY <2>1, ThingsDiffer DEF CanMake
  <2> QED BY <1>2, <2>1, <2>2 DEF Put
<1>4. CASE \E q \in Paths : /\ CanRemove(q) /\ Put(q, None)
                            /\ call[v].op \in Removers /\ Under(call[v].path, q)
  <2>1. PICK q \in Paths : Put(q, None) /\ call[v].op \in Removers /\ Under(call[v].path, q)
    BY <1>4
  <2>2. p # q
    BY <1>1, <2>1
  <2> QED BY <1>2, <2>1, <2>2 DEF Put
<1>5. CASE call[v].op = "moveFile" /\ Rename(v)
  <2>1. p # call[v].path /\ p # call[v].tar
    BY <1>1, <1>5
  <2> QED BY <1>2, <1>5, <2>1 DEF Rename
<1> QED BY <1>1, <1>3, <1>4, <1>5 DEF Changes

LEMMA FileTreeNextInv ==
  ASSUME FileTreeInv, [Next]_vars
  PROVE  FileTreeInv'
<1>1. CASE UNCHANGED vars
  BY <1>1 DEF vars, FileTreeInv, LocalInv, MoveInv, Undisturbed, Todo, Top, IsTree
<1>2. ASSUME NEW v \in Procs, Step(v) PROVE FileTreeInv'
  <2>1. LocalInv' /\ Alone(v) /\ call' = call /\ before' = before /\ IsTree(fs')
    BY <1>2, StepFacts, StepKeepsTree DEF FileTreeInv
  <2>2. ASSUME NEW w \in Procs, Undisturbed(w)
        PROVE  /\ pc'[w] # "done" => fs'[call[w].path] = File(call[w].path)
               /\ \E p \in {call[w].path, call[w].tar} : fs'[p] = File(call[w].path)
    <3>1. CASE v = w
      BY <1>2, <2>2, <3>1, MoverStep
    <3>2. CASE v # w
      <4>1. pc'[w] = pc[w]
        BY <2>1, <3>2 DEF Alone
      <4>2. /\ pc[w] # "done" => fs[call[w].path] = File(call[w].path)
            /\ \E p \in {call[w].path, call[w].tar} : fs[p] = File(call[w].path)
        BY <2>2 DEF FileTreeInv, MoveInv
      <4> QED BY <1>2, <2>2, <3>2, <4>1, <4>2, OthersStep
    <3> QED BY <3>1, <3>2
  <2>3. \A w \in Procs : Undisturbed(w)' => Undisturbed(w)
    BY <2>1 DEF Undisturbed
  <2>4. MoveInv'
    BY <2>1, <2>2, <2>3 DEF MoveInv
  <2> QED BY <2>1, <2>4 DEF FileTreeInv
<1> QED BY <1>1, <1>2 DEF Next

LEMMA FileTreeInitInv == Init => FileTreeInv
<1> SUFFICES ASSUME Init PROVE FileTreeInv
  OBVIOUS
<1>1. /\ call \in Calls /\ fs \in Trees /\ before = fs
      /\ pc = [w \in Procs |-> Entry(call[w].op)]
      /\ stack = [w \in Procs |-> <<Frame(call[w].path)>>]
      /\ result = [w \in Procs |-> "none"]
  BY DEF Init
<1>2. ASSUME NEW w \in Procs
      PROVE  /\ pc[w] \in Labels /\ Belongs(call[w].op, pc[w]) /\ pc[w] # "done" /\ pc[w] # "delete"
             /\ Good(call[w], stack[w]) /\ stack[w] # <<>> /\ result[w] \in Results
  <2> DEFINE c == call[w]  f == Frame(c.path)
  <2>1. c.path \in Paths /\ c.op \in {"mkdir", "createDirectory", "moveFile", "rmdir", "deleteFiles", "deleteDirectory"}
    BY <1>1, TreesAssumption DEF Removers
  <2>2. pc[w] = Entry(c.op) /\ stack[w] = <<f>> /\ result[w] = "none"
    BY <1>1
  <2> HIDE DEF c
  <2>3. pc[w] \in Labels /\ Belongs(c.op, pc[w]) /\ pc[w] # "done" /\ pc[w] # "delete"
    BY <2>1, <2>2 DEF Entry, Labels, Belongs
  <2>4. /\ f \in FrameSet /\ f.path = c.path /\ OfDir(f.path, f.todo)
        /\ Begins(c, f.path) /\ Reaches(c, f.path)
    <3>1. f \in FrameSet /\ f.path = c.path /\ OfDir(f.path, f.todo)
      BY <2>1, FrameIs
    <3>2. Begins(c, f.path) /\ (c.op = "moveFile" => c.tar \in Paths)
      BY <1>1, <3>1, CallFacts DEF Begins, c
    <3> QED BY <2>1, <3>1, <3>2, BeginsReaches
  <2> HIDE DEF f
  <2>5. Good(c, <<>>)
    BY EmptySeq DEF Good
  <2>6. Good(c, Append(<<>>, f)) /\ Append(<<>>, f) # <<>>
    BY <2>4, <2>5, GoodAppend
  <2>7. Append(<<>>, f) = stack[w]
    BY <2>2
  <2> QED BY <2>2, <2>3, <2>6, <2>7 DEF Results, c
<1>3. stack \in [Procs -> Seq(FrameSet)] /\ pc \in [Procs -> Labels] /\ result \in [Procs -> Results]
  <2>1. \A w \in Procs : stack[w] \in Seq(FrameSet)
    BY <1>2 DEF Good
  <2> QED BY <1>1, <1>2, <2>1
<1>4. LocalInv
  BY <1>1, <1>2, <1>3 DEF LocalInv
<1>5. IsTree(fs)
  BY <1>1, TreesAssumption
<1>6. MoveInv
  BY <1>1 DEF MoveInv, Undisturbed
<1> QED BY <1>4, <1>5, <1>6 DEF FileTreeInv

LEMMA FileTreeSpecInv == Spec => []FileTreeInv
  BY FileTreeInitInv, FileTreeNextInv, PTL DEF Spec

-----------------------------------------------------------------------------
(* What a step of w does to its own control.                               *)

LEMMA GotoIs ==
  ASSUME LocalInv, NEW w \in Procs, NEW label, Goto(w, label)
  PROVE  pc'[w] = label /\ stack'[w] = stack[w] /\ result'[w] = result[w]
  BY DEF Goto, LocalInv

LEMMA FinishIs ==
  ASSUME LocalInv, NEW w \in Procs, NEW r, Finish(w, r)
  PROVE  pc'[w] = "done" /\ stack'[w] = <<>> /\ result'[w] = r
  BY DEF Finish, LocalInv

LEMMA PushIs ==
  ASSUME LocalInv, NEW w \in Procs, NEW p, NEW label, Push(w, p, label)
  PROVE  pc'[w] = label /\ stack'[w] = Append(stack[w], Frame(p)) /\ result'[w] = result[w]
  BY DEF Push, LocalInv

LEMMA ReturnIs ==
  ASSUME LocalInv, NEW w \in Procs, NEW r, NEW label, Return(w, r, label)
  PROVE  IF Len(stack[w]) = 1 THEN pc'[w] = "done" /\ stack'[w] = <<>> /\ result'[w] = r
         ELSE pc'[w] = label /\ stack'[w] = Front(stack[w]) /\ result'[w] = result[w]
  BY FinishIs DEF Return, Pop, LocalInv

LEMMA SetTodoIs ==
  ASSUME LocalInv, NEW w \in Procs, NEW todo, NEW label, SetTodo(w, todo, label)
  PROVE  pc'[w] = label /\ stack'[w] = With(w, todo) /\ result'[w] = result[w]
  BY DEF SetTodo, LocalInv

LEMMA EnterIs ==
  ASSUME LocalInv, NEW w \in Procs, NEW p, NEW label, Enter(w, p, label)
  PROVE  /\ pc'[w] = label /\ result'[w] = result[w]
         /\ stack'[w] = Append(With(w, Tail(Todo(w))), Frame(p))
  BY DEF Enter, LocalInv

LEMMA PushedTop ==
  ASSUME NEW c, NEW s, Good(c, s), NEW f
  PROVE  Last(Append(s, f)) = f
<1>1. s \in Seq(FrameSet) /\ Len(s) \in Nat
  BY LenProperties DEF Good
<1>2. Len(Append(s, f)) = Len(s) + 1 /\ Append(s, f)[Len(s) + 1] = f
  BY <1>1
<1> QED BY <1>2 DEF Last

\* The lowest frame is where the recursion began.
LEMMA GoodBottom ==
  ASSUME NEW c, NEW s, Good(c, s), Len(s) = 1
  PROVE  Begins(c, Last(s).path)
<1>1. s # <<>>
  BY EmptySeq
<1> QED BY <1>1 DEF Good, Last

\* The frame below the last.
LEMMA GoodBelow ==
  ASSUME NEW c, NEW s, Good(c, s), s # <<>>, Len(s) # 1
  PROVE  LET r == Front(s)
         IN  /\ r # <<>> /\ Good(c, r) /\ Last(r).path \in Paths
             /\ Follows(c, Last(r).path, Last(s).path)
<1> DEFINE r == Front(s)  n == Len(s)
<1>1. s \in Seq(FrameSet) /\ Good(c, r)
  BY GoodFront DEF Good
<1>2. /\ r \in Seq(FrameSet) /\ Len(r) = n - 1 /\ n \in Nat \ {0} /\ Last(s) = s[n]
      /\ \A i \in 1 .. n - 1 : r[i] = s[i]
  BY <1>1, FrontFacts
<1>3. Len(r) # 0
  BY <1>2
<1>4. r # <<>> /\ Last(r) = r[Len(r)]
  BY <1>2, <1>3, EmptySeq DEF Last
<1> HIDE DEF r, n
<1>5. n \in 2 .. n /\ n - 1 \in 1 .. n - 1
  BY <1>2, <1>3
<1>6. Last(r) = s[n - 1]
  BY <1>2, <1>4, <1>5
<1>7. Follows(c, Last(r).path, Last(s).path)
  BY <1>2, <1>5, <1>6 DEF Good, n
<1> QED BY <1>1, <1>4, <1>7, GoodTop DEF r
-----------------------------------------------------------------------------
(* The steps of each function.                                             *)

LEMMA LabelOf ==
  ASSUME NEW w
  PROVE  /\ (MkdirIsDir(w) => pc[w] = "mkdir")      /\ (MkdirBase(w) => pc[w] = "base")
         /\ (MkdirMake(w) => pc[w] = "make")        /\ (Readdir(w) => pc[w] = "readdir")
         /\ (RmdirEntry(w) => pc[w] = "rmdir")      /\ (RmdirSelf(w) => pc[w] = "rmdir")
         /\ (CreateDirectory(w) => pc[w] = "exists") /\ (Mkdirs(w) => pc[w] = "mkdirs")
         /\ (MkdirsAgain(w) => pc[w] = "mkdirs2")   /\ (MoveIsFile(w) => pc[w] = "isFile")
         /\ (MoveParent(w) => pc[w] = "parent")     /\ (Rename(w) => pc[w] = "rename")
         /\ (ListFiles(w) => pc[w] = "listFiles")   /\ (DeleteTest(w) => pc[w] = "test")
         /\ (DeleteEntry(w) => pc[w] = "delete")    /\ (DeleteSelf(w) => pc[w] = "test")
         /\ (NotExists(w) => pc[w] = "notExists")   /\ (Visit(w) => pc[w] = "walk")
         /\ (VisitEntry(w) => pc[w] = "entries")    /\ (PostVisit(w) => pc[w] = "entries")
<1>1. /\ (MkdirIsDir(w) => pc[w] = "mkdir")      /\ (MkdirBase(w) => pc[w] = "base")
      /\ (MkdirMake(w) => pc[w] = "make")        /\ (Readdir(w) => pc[w] = "readdir")
      /\ (RmdirEntry(w) => pc[w] = "rmdir")      /\ (RmdirSelf(w) => pc[w] = "rmdir")
  BY DEF MkdirIsDir, MkdirBase, MkdirMake, Readdir, RmdirEntry, RmdirSelf, At
<1>2. /\ (CreateDirectory(w) => pc[w] = "exists") /\ (Mkdirs(w) => pc[w] = "mkdirs")
      /\ (MkdirsAgain(w) => pc[w] = "mkdirs2")   /\ (MoveIsFile(w) => pc[w] = "isFile")
      /\ (MoveParent(w) => pc[w] = "parent")     /\ (Rename(w) => pc[w] = "rename")
  BY DEF CreateDirectory, Mkdirs, MkdirsAgain, MoveIsFile, MoveParent, Rename, At
<1>3. /\ (ListFiles(w) => pc[w] = "listFiles")   /\ (DeleteTest(w) => pc[w] = "test")
      /\ (DeleteEntry(w) => pc[w] = "delete")    /\ (DeleteSelf(w) => pc[w] = "test")
      /\ (NotExists(w) => pc[w] = "notExists")   /\ (Visit(w) => pc[w] = "walk")
      /\ (VisitEntry(w) => pc[w] = "entries")    /\ (PostVisit(w) => pc[w] = "entries")
  BY DEF ListFiles, DeleteTest, DeleteEntry, DeleteSelf, NotExists, Visit, VisitEntry, PostVisit, At
<1> QED BY <1>1, <1>2, <1>3

LEMMA StepsOf ==
  ASSUME LocalInv, NEW w \in Procs, Step(w)
  PROVE  /\ call[w].op = "mkdir" => MkdirIsDir(w) \/ MkdirBase(w) \/ MkdirMake(w)
         /\ call[w].op = "createDirectory" => CreateDirectory(w) \/ Mkdirs(w) \/ MkdirsAgain(w)
         /\ call[w].op = "rmdir" => Readdir(w) \/ RmdirEntry(w) \/ RmdirSelf(w)
         /\ call[w].op = "deleteFiles" =>
              ListFiles(w) \/ DeleteTest(w) \/ DeleteEntry(w) \/ DeleteSelf(w)
         /\ call[w].op = "deleteDirectory" =>
              NotExists(w) \/ Visit(w) \/ VisitEntry(w) \/ PostVisit(w)
         /\ call[w].op = "moveFile" =>
              MoveIsFile(w) \/ MoveParent(w) \/ Mkdirs(w) \/ MkdirsAgain(w) \/ Rename(w)
<1>1. Belongs(call[w].op, pc[w]) /\ pc[w] # "done"
  BY StepFacts DEF LocalInv
<1>2. /\ call[w].op = "mkdir" => pc[w] \in {"mkdir", "base", "make"}
      /\ call[w].op = "createDirectory" => pc[w] \in {"exists", "mkdirs", "mkdirs2"}
      /\ call[w].op = "rmdir" => pc[w] \in {"readdir", "rmdir"}
      /\ call[w].op = "deleteFiles" => pc[w] \in {"listFiles", "test", "delete"}
      /\ call[w].op = "deleteDirectory" => pc[w] \in {"notExists", "walk", "entries"}
      /\ call[w].op = "moveFile" => pc[w] \in {"isFile", "parent", "rename", "mkdirs", "mkdirs2"}
  BY <1>1 DEF Belongs
<1>3. \/ MkdirIsDir(w) \/ MkdirBase(w) \/ MkdirMake(w)
      \/ Readdir(w) \/ RmdirEntry(w) \/ RmdirSelf(w)
      \/ CreateDirectory(w) \/ Mkdirs(w) \/ MkdirsAgain(w)
      \/ MoveIsFile(w) \/ MoveParent(w) \/ Rename(w)
      \/ ListFiles(w) \/ DeleteTest(w) \/ DeleteEntry(w) \/ DeleteSelf(w)
      \/ NotExists(w) \/ Visit(w) \/ VisitEntry(w) \/ PostVisit(w)
  BY DEF Step
<1>4. CASE call[w].op = "mkdir"
  BY <1>2, <1>3, <1>4, LabelOf
<1>5. CASE call[w].op = "createDirectory"
  BY <1>2, <1>3, <1>5, LabelOf
<1>6. CASE call[w].op = "rmdir"
  BY <1>2, <1>3, <1>6, LabelOf
<1>7. CASE call[w].op = "deleteFiles"
  BY <1>2, <1>3, <1>7, LabelOf
<1>8. CASE call[w].op = "deleteDirectory"
  BY <1>2, <1>3, <1>8, LabelOf
<1>9. CASE call[w].op = "moveFile"
  BY <1>2, <1>3, <1>9, LabelOf
<1> QED BY <1>4, <1>5, <1>6, <1>7, <1>8, <1>9

-----------------------------------------------------------------------------
(* What moveFile moves.                                                    *)

\* The frames of mkdirs are the directory of the target and what is above it.
Above(w, s) == \A i \in 1 .. Len(s) : Under(s[i].path, Parent(call[w].tar))
AboveInv ==
  \A w \in Procs : call[w].op = "moveFile" /\ pc[w] \in {"mkdirs", "mkdirs2"} => Above(w, stack[w])

\* After the test of w's source.
Moving(w) == call[w].op = "moveFile" /\ pc[w] \in {"parent", "mkdirs", "mkdirs2", "rename"}

SourceInv ==
  AboveInv /\ (~MakesAtSource => \A w \in Procs : Moving(w) => fs[call[w].path] # Dir)

\* A step of moveFile: where it makes directories, and that it comes past its test with
\* a file.
LEMMA MoverOwnStep ==
  ASSUME LocalInv, AboveInv, NEW v \in Procs, Step(v), call[v].op = "moveFile"
  PROVE  /\ pc'[v] \in {"mkdirs", "mkdirs2"} => Above(v, stack'[v])
         /\ \/ UNCHANGED fs
            \/ \E p \in Paths : CanMake(p) /\ Put(p, Dir) /\ Under(p, Parent(call[v].tar))
            \/ Rename(v) /\ pc[v] = "rename"
         /\ pc'[v] = "done" \/ pc[v] \in {"parent", "mkdirs", "mkdirs2", "rename"}
            \/ (UNCHANGED fs /\ IsFile(call[v].path))
<1> DEFINE d == Parent(call[v].tar)
<1>1. /\ pc[v] # "done" /\ call' = call /\ d \in Paths
      /\ MoveIsFile(v) \/ MoveParent(v) \/ Mkdirs(v) \/ MkdirsAgain(v) \/ Rename(v)
  BY StepFacts, StepsOf, CallFacts, ParentInPaths DEF LocalInv
<1>2. ASSUME Mkdirs(v) \/ MkdirsAgain(v)
      PROVE  /\ pc[v] \in {"mkdirs", "mkdirs2"} /\ Above(v, stack[v]) /\ Under(Here(v), d)
             /\ stack[v] \in Seq(FrameSet) /\ stack[v] # <<>> /\ Here(v) \in Paths
  <2>1. pc[v] \in {"mkdirs", "mkdirs2"} /\ Above(v, stack[v])
    BY <1>2, LabelOf DEF AboveInv
  <2>2. /\ stack[v] \in Seq(FrameSet) /\ stack[v] # <<>> /\ Here(v) \in Paths
        /\ Len(stack[v]) \in Nat \ {0}
    BY <1>1, TopFacts DEF LocalInv
  <2>3. Under(Here(v), d)
    BY <2>1, <2>2 DEF Above, Here, Top, Last
  <2> QED BY <2>1, <2>2, <2>3
<1>3. ASSUME Mkdirs(v) \/ MkdirsAgain(v), EndMkdirs(v)
      PROVE  pc'[v] \in {"mkdirs", "mkdirs2"} => Above(v, stack'[v])
  <2>1. CASE Pop(v, "mkdirs2")
    <3>1. stack'[v] = Front(stack[v])
      BY <2>1 DEF Pop, LocalInv
    <3>2. /\ Len(Front(stack[v])) = Len(stack[v]) - 1 /\ Len(stack[v]) \in Nat
          /\ \A i \in 1 .. Len(stack[v]) - 1 : Front(stack[v])[i] = stack[v][i]
      BY <1>2, <1>3, FrontFacts
    <3> QED BY <1>2, <1>3, <3>1, <3>2 DEF Above
  <2>2. CASE Goto(v, "rename") \/ Finish(v, "void")
    BY <2>2, GotoIs, FinishIs
  <2> QED BY <1>3, <2>1, <2>2 DEF EndMkdirs
<1>4. CASE MoveIsFile(v)
  <2>1. pc[v] = "isFile" /\ UNCHANGED fs
    BY <1>4 DEF MoveIsFile, At
  <2>2. (IsFile(call[v].path) /\ pc'[v] = "parent") \/ pc'[v] = "done"
    BY <1>4, GotoIs, FinishIs DEF MoveIsFile
  <2> QED BY <2>1, <2>2
<1>5. CASE MoveParent(v)
  <2>1. stack'[v] = <<Frame(d)>> /\ UNCHANGED fs /\ pc[v] = "parent"
    BY <1>5 DEF MoveParent, LocalInv, At
  <2>2. Above(v, <<Frame(d)>>)
    BY <1>1, UnderSelf DEF Above, Frame
  <2> QED BY <2>1, <2>2
<1>6. CASE Mkdirs(v)
  <2>1. \/ CanMake(Here(v)) /\ Put(Here(v), Dir) /\ EndMkdirs(v)
        \/ EndMkdirs(v) /\ UNCHANGED fs
        \/ Push(v, Parent(Here(v)), "mkdirs") /\ UNCHANGED fs
    BY <1>6 DEF Mkdirs
  <2>2. ASSUME Push(v, Parent(Here(v)), "mkdirs") PROVE Above(v, stack'[v])
    <3> DEFINE f == Frame(Parent(Here(v)))
    <3>1. stack'[v] = Append(stack[v], f) /\ f.path = Parent(Here(v))
      BY <2>2 DEF Push, LocalInv, Frame
    <3>2. Under(Parent(Here(v)), d)
      BY <1>1, <1>2, <1>6, ParentUnder, UnderTransitive
    <3> HIDE DEF f
    <3>3. /\ Len(stack[v]) \in Nat /\ Len(Append(stack[v], f)) = Len(stack[v]) + 1
          /\ Append(stack[v], f)[Len(stack[v]) + 1] = f
          /\ \A i \in 1 .. Len(stack[v]) : Append(stack[v], f)[i] = stack[v][i]
      BY <1>2, <1>6, LenProperties, AppendProperties
    <3> QED BY <1>2, <1>6, <3>1, <3>2, <3>3 DEF Above
  <2> QED BY <1>2, <1>3, <1>6, <2>1, <2>2
<1>7. CASE MkdirsAgain(v)
  <2>1. EndMkdirs(v) /\ ((CanMake(Here(v)) /\ Put(Here(v), Dir)) \/ UNCHANGED fs)
    BY <1>7 DEF MkdirsAgain
  <2> QED BY <1>2, <1>3, <1>7, <2>1
<1>8. CASE Rename(v)
  <2>1. pc[v] = "rename" /\ pc'[v] = "done"
    BY <1>8, LabelOf, FinishIs DEF Rename
  <2> QED BY <1>8, <2>1
<1> QED BY <1>1, <1>4, <1>5, <1>6, <1>7, <1>8

LEMMA SourceStep ==
  ASSUME FileTreeInv, SourceInv, NEW v \in Procs, Step(v)
  PROVE  SourceInv'
<1>1. /\ LocalInv /\ LocalInv' /\ IsTree(fs) /\ AboveInv /\ Alone(v) /\ Changes(v)
      /\ pc[v] # "done" /\ call' = call /\ call \in Calls /\ fs \in [Paths -> Things]
  BY StepFacts DEF FileTreeInv, SourceInv, LocalInv, IsTree
<1>2. AboveInv'
  <2> SUFFICES ASSUME NEW w \in Procs, call[w].op = "moveFile", pc'[w] \in {"mkdirs", "mkdirs2"}
               PROVE  Above(w, stack'[w])
    BY <1>1 DEF AboveInv, Above
  <2>1. CASE w = v
    BY <1>1, <2>1, MoverOwnStep
  <2>2. CASE w # v
    BY <1>1, <2>2 DEF Alone, AboveInv
  <2> QED BY <2>1, <2>2
<1>3. ASSUME ~MakesAtSource, NEW w \in Procs, call[w].op = "moveFile",
             pc'[w] \in {"parent", "mkdirs", "mkdirs2", "rename"}
      PROVE  fs'[call[w].path] # Dir
  <2> DEFINE src == call[w].path
  <2>1. src \in Paths /\ \A p \in Paths : Under(src, p) => p = src
    BY <1>1, <1>3, TreesAssumption DEF Removers, Under
  <2>2. fs[src] # Dir
    <3>1. CASE Moving(w)
      BY <1>3, <3>1 DEF SourceInv
    <3>2. CASE ~Moving(w)
      <4>1. w = v
        BY <1>1, <1>3, <3>2 DEF Alone, Moving
      <4>2. IsFile(src)
        BY <1>1, <1>3, <3>2, <4>1, MoverOwnStep DEF Moving
      <4> QED BY <4>2, ThingsDiffer DEF IsFile
    <3> QED BY <3>1, <3>2
  <2>3. CASE UNCHANGED fs
    BY <2>2, <2>3
  <2>4. CASE \E p \in Paths : /\ CanRemove(p) /\ Put(p, None)
                              /\ call[v].op \in Removers /\ Under(call[v].path, p)
    <3>1. PICK p \in Paths : Put(p, None)
      BY <2>4
    <3> QED BY <1>1, <2>1, <2>2, <3>1, ThingsDiffer DEF Put
  <2>5. CASE call[v].op = "moveFile"
    <3>1. CASE \E p \in Paths : CanMake(p) /\ Put(p, Dir) /\ Under(p, Parent(call[v].tar))
      <4>1. PICK p \in Paths : CanMake(p) /\ Put(p, Dir) /\ Under(p, Parent(call[v].tar))
        BY <3>1
      <4>2. p # src
        <5> SUFFICES ASSUME p = src PROVE FALSE
          OBVIOUS
        <5>1. call[v].tar \in Paths
          BY <1>1, <2>5, CallFacts
        <5>2. Under(src, call[v].tar) /\ Parent(call[v].tar) \in Paths
          BY <2>1, <4>1, <5>1, UnderParent, ParentInPaths
        <5>3. call[v].tar = src /\ Parent(call[v].tar) = src
          BY <2>1, <4>1, <5>1, <5>2
        <5>4. Parent(p) = p
          BY <5>3
        <5> QED BY <4>1, <5>4, ThingsDiffer DEF CanMake, IsDir
      <4> QED BY <1>1, <2>1, <2>2, <4>1, <4>2 DEF Put
    <3>2. CASE Rename(v) /\ pc[v] = "rename"
      <4>1. call[v].path \in Paths /\ fs[call[v].path] # Dir
        BY <1>1, <1>3, <2>5, <3>2, CallFacts DEF SourceInv, Moving
      <4> QED BY <1>1, <2>1, <2>2, <3>2, <4>1, ThingsDiffer DEF Rename
    <3> QED BY <1>1, <2>3, <2>5, <3>1, <3>2, MoverOwnStep
  <2>6. CASE call[v].op # "moveFile" /\ \E p \in Paths : /\ CanMake(p) /\ Put(p, Dir)
                      /\ call[v].op \notin Removers /\ Reaches(call[v], p)
    <3>1. PICK p \in Paths : CanMake(p) /\ Put(p, Dir) /\ Reaches(call[v], p)
      BY <2>6
    <3>2. call[v].op \in Makers /\ Under(p, call[v].path)
      BY <1>1, <2>6, <3>1, CallFacts DEF Reaches, Makers
    <3>3. p # src
      BY <1>3, <3>2 DEF MakesAtSource
    <3> QED BY <1>1, <2>1, <2>2, <3>1, <3>3 DEF Put
  <2> QED BY <1>1, <2>3, <2>4, <2>5, <2>6 DEF Changes
<1>4. ASSUME ~MakesAtSource, NEW w \in Procs, Moving(w)' PROVE fs'[call[w].path] # Dir
  BY <1>1, <1>3, <1>4 DEF Moving
<1>5. MakesAtSource' <=> MakesAtSource
  BY <1>1 DEF MakesAtSource
<1> QED BY <1>1, <1>2, <1>4, <1>5 DEF SourceInv

LEMMA SourceSpecInv == Spec => [](FileTreeInv /\ SourceInv)
<1>1. Init => SourceInv
  <2> SUFFICES ASSUME Init, NEW w \in Procs, call[w].op = "moveFile" PROVE pc[w] = "isFile"
    BY DEF SourceInv, AboveInv, Moving
  <2> QED BY DEF Init, Entry
<1>2. FileTreeInv /\ SourceInv /\ [Next]_vars => SourceInv'
  <2>1. CASE UNCHANGED vars
    BY <2>1 DEF vars, SourceInv, AboveInv, Above, Moving, MakesAtSource
  <2> QED BY <2>1, SourceStep DEF Next
<1> QED BY <1>1, <1>2, FileTreeSpecInv, PTL DEF Spec

-----------------------------------------------------------------------------
(* Calls that make directories.                                            *)

\* w makes a directory among calls that only make directories, and no file is in its
\* way.
Quiet(w) ==
  /\ Only(Makers) /\ call[w].op \in Makers
  /\ \A p \in Paths : Under(p, call[w].path) => before[p].kind # "file"

\* createDirectory comes back from the recursion to a directory that is there.
CreateInv ==
  \A w \in Procs : Quiet(w) =>
    /\ \A p \in Paths : Under(p, call[w].path) => fs[p] \in {None, Dir}
    /\ pc[w] = "exists" => Here(w) = call[w].path
    /\ pc[w] = "mkdirs2" => IsDir(Parent(Here(w)))
    /\ result[w] = "void" => IsDir(call[w].path)

\* Where there are only calls that make directories, what is there stays.
LEMMA MakersKeep ==
  ASSUME LocalInv, IsTree(fs), Only(Makers), NEW v \in Procs, Step(v)
  PROVE  \A p \in Paths : fs'[p] = fs[p] \/ (fs[p] = None /\ fs'[p] = Dir)
<1>1. Changes(v) /\ call[v].op \notin Removers /\ call[v].op # "moveFile" /\ fs \in [Paths -> Things]
  BY StepFacts DEF Only, Makers, Removers, IsTree
<1>2. CASE \E p \in Paths : CanMake(p) /\ Put(p, Dir)
  BY <1>1, <1>2 DEF CanMake, Put
<1> QED BY <1>1, <1>2 DEF Changes

LEMMA MakerFacts ==
  ASSUME LocalInv, NEW w \in Procs, Quiet(w), pc[w] # "done"
  PROVE  /\ call[w].path \in Paths /\ Here(w) \in Paths /\ Parent(Here(w)) \in Paths
         /\ Under(Here(w), call[w].path) /\ call[w].op \notin Removers
         /\ Under(Parent(Here(w)), call[w].path)
<1>1. call[w].op \notin Removers /\ call[w].op # "moveFile" /\ call[w].path \in Paths
  BY CallFacts DEF Quiet, Makers, Removers, LocalInv
<1>2. Here(w) \in Paths /\ Parent(Here(w)) \in Paths /\ Under(Here(w), call[w].path)
  BY <1>1, TopFacts DEF Reaches
<1> QED BY <1>1, <1>2, ParentUnder, UnderTransitive

\* The frame below the last is that of the entry of its directory.
LEMMA MakerBelow ==
  ASSUME LocalInv, NEW w \in Procs, Quiet(w), pc[w] # "done", Len(stack[w]) # 1
  PROVE  LET d == Last(Front(stack[w])).path
         IN  d \in Paths /\ Parent(d) = Here(w) /\ Under(d, call[w].path)
<1>1. Good(call[w], stack[w]) /\ stack[w] # <<>> /\ call[w].op \notin Removers /\ call[w].op # "moveFile"
  BY TopFacts, MakerFacts DEF Quiet, Makers
<1>2. LET r == Front(stack[w]) IN r # <<>> /\ Good(call[w], r) /\ Follows(call[w], Last(r).path, Last(stack[w]).path)
  BY <1>1, GoodBelow
<1>3. Last(Front(stack[w])).path \in Paths /\ Reaches(call[w], Last(Front(stack[w])).path)
  BY <1>2, GoodTop
<1> QED BY <1>1, <1>2, <1>3 DEF Follows, Reaches, Here, Top

LEMMA MakerBottom ==
  ASSUME LocalInv, NEW w \in Procs, Quiet(w), pc[w] # "done", Len(stack[w]) = 1
  PROVE  Here(w) = call[w].path
<1>1. Good(call[w], stack[w]) /\ call[w].op # "moveFile"
  BY TopFacts DEF Quiet, Makers
<1> QED BY <1>1, GoodBottom DEF Begins, Here, Top

LEMMA CreateEnds ==
  ASSUME LocalInv, NEW w \in Procs, Quiet(w), call[w].op = "createDirectory",
         pc[w] # "done", EndMkdirs(w), fs'[Here(w)] = Dir
  PROVE  /\ pc'[w] \in {"mkdirs2", "done"}
         /\ pc'[w] = "mkdirs2" => fs'[Parent(Last(stack'[w]).path)] = Dir
         /\ result'[w] = "void" => result[w] = "void" \/ fs'[call[w].path] = Dir
<1> DEFINE n == Len(stack[w])
<1>1. n \in Nat \ {0} /\ call[w].op # "moveFile"
  BY TopFacts
<1>4. IF n > 1 THEN Pop(w, "mkdirs2") ELSE Finish(w, "void")
  BY <1>1 DEF EndMkdirs
<1> HIDE DEF n
<1>5. n > 1 <=> n # 1
  BY <1>1
<1>2. CASE n > 1
  <2>1. Pop(w, "mkdirs2") /\ Len(stack[w]) # 1
    BY <1>2, <1>4, <1>5 DEF n
  <2>2. pc'[w] = "mkdirs2" /\ stack'[w] = Front(stack[w]) /\ result'[w] = result[w]
    BY <2>1 DEF Pop, LocalInv
  <2> QED BY <2>1, <2>2, MakerBelow
<1>3. CASE ~ (n > 1)
  <2>1. Finish(w, "void") /\ Len(stack[w]) = 1
    BY <1>3, <1>4, <1>5 DEF n
  <2> QED BY <2>1, FinishIs, MakerBottom
<1> QED BY <1>2, <1>3

LEMMA QuietStays ==
  ASSUME call' = call, before' = before, NEW w
  PROVE  /\ Quiet(w)' <=> Quiet(w)
         /\ SamePath' <=> SamePath
         /\ \A ops : Only(ops)' <=> Only(ops)
  BY DEF Quiet, Only, SamePath

\* A step of a call that makes a directory: of createDirectory, and of mkdir.
LEMMA CreateOwnStep ==
  ASSUME LocalInv, IsTree(fs), CreateInv, NEW w \in Procs, Quiet(w), Step(w)
  PROVE  /\ pc'[w] # "exists"
         /\ pc'[w] = "mkdirs2" => fs'[Parent(Last(stack'[w]).path)] = Dir
         /\ result'[w] = "void" => fs'[call[w].path] = Dir
<1>1. /\ LocalInv' /\ pc[w] # "done" /\ call' = call /\ call[w].op \in Makers /\ Only(Makers)
      /\ \A p \in Paths : fs'[p] = fs[p] \/ (fs[p] = None /\ fs'[p] = Dir)
  BY StepFacts, MakersKeep DEF Quiet
<1>2. /\ call[w].path \in Paths /\ Here(w) \in Paths /\ Parent(Here(w)) \in Paths
      /\ Under(Here(w), call[w].path)
  BY <1>1, MakerFacts
<1>3. /\ fs[Here(w)] \in {None, Dir} /\ fs[call[w].path] \in {None, Dir}
      /\ pc[w] = "exists" => Here(w) = call[w].path
      /\ pc[w] = "mkdirs2" => fs[Parent(Here(w))] = Dir
      /\ result[w] = "void" => fs[call[w].path] = Dir
  BY <1>2, UnderSelf DEF CreateInv, IsDir
<1>4. result[w] = "void" => fs'[call[w].path] = Dir
  BY <1>1, <1>2, <1>3
<1>5. CASE call[w].op = "mkdir"
  <2>1. pc'[w] # "exists" /\ pc'[w] # "mkdirs2"
    BY <1>1, <1>5 DEF LocalInv, Belongs
  <2>2. CASE MkdirIsDir(w)
    <3>1. Return(w, "true", "make") \/ Goto(w, "base")
      BY <2>2 DEF MkdirIsDir
    <3>2. result'[w] = "void" => result[w] = "void"
      BY <3>1, ReturnIs, GotoIs
    <3> QED BY <1>4, <2>1, <3>2
  <2>3. CASE MkdirBase(w)
    <3>1. Push(w, Parent(Here(w)), "mkdir") \/ Goto(w, "make")
      BY <2>3 DEF MkdirBase
    <3> QED BY <1>4, <2>1, <3>1, PushIs, GotoIs
  <2>4. CASE MkdirMake(w)
    <3>1. Return(w, "true", "make") \/ Finish(w, "false")
      BY <2>4 DEF MkdirMake
    <3>2. result'[w] = "void" => result[w] = "void"
      BY <3>1, ReturnIs, FinishIs
    <3> QED BY <1>4, <2>1, <3>2
  <2> QED BY <1>5, <2>2, <2>3, <2>4, StepsOf
<1>6. CASE call[w].op = "createDirectory"
  <2>1. CASE CreateDirectory(w)
    <3>1. \/ fs[Here(w)] # None /\ Finish(w, "void") /\ UNCHANGED fs
          \/ Goto(w, "mkdirs")
      BY <2>1 DEF CreateDirectory
    <3>2. Here(w) = call[w].path
      BY <1>3, <2>1, LabelOf
    <3> QED BY <1>3, <1>4, <3>1, <3>2, FinishIs, GotoIs
  <2>2. CASE Mkdirs(w)
    <3>1. \/ EndMkdirs(w) /\ fs'[Here(w)] = Dir
          \/ Push(w, Parent(Here(w)), "mkdirs")
      <4>1. CanMake(Here(w)) /\ Put(Here(w), Dir) => fs'[Here(w)] = Dir
        BY <1>2 DEF Put, IsTree
      <4> QED BY <1>3, <2>2, <4>1 DEF Mkdirs
    <3>2. CASE EndMkdirs(w) /\ fs'[Here(w)] = Dir
      BY <1>1, <1>4, <1>6, <3>2, CreateEnds
    <3>3. CASE Push(w, Parent(Here(w)), "mkdirs")
      BY <1>4, <3>3, PushIs
    <3> QED BY <3>1, <3>2, <3>3
  <2>3. CASE MkdirsAgain(w)
    <3>1. EndMkdirs(w) /\ IF CanMake(Here(w)) THEN Put(Here(w), Dir) ELSE UNCHANGED fs
      BY <2>3 DEF MkdirsAgain
    <3>2. fs[Parent(Here(w))] = Dir
      BY <1>3, <2>3, LabelOf
    <3>3. CASE CanMake(Here(w))
      <4>1. fs'[Here(w)] = Dir
        BY <1>2, <3>1, <3>3 DEF Put, IsTree
      <4> QED BY <1>1, <1>4, <1>6, <3>1, <4>1, CreateEnds
    <3>4. CASE ~CanMake(Here(w))
      <4>1. fs'[Here(w)] = Dir
        BY <1>3, <3>1, <3>2, <3>4 DEF CanMake, IsDir
      <4> QED BY <1>1, <1>4, <1>6, <3>1, <4>1, CreateEnds
    <3> QED BY <3>3, <3>4
  <2> QED BY <1>6, <2>1, <2>2, <2>3, StepsOf
<1> QED BY <1>1, <1>5, <1>6 DEF Makers

LEMMA CreateStep ==
  ASSUME LocalInv, IsTree(fs), CreateInv, NEW v \in Procs, Step(v)
  PROVE  CreateInv'
<1>1. /\ LocalInv' /\ Alone(v) /\ call' = call /\ before' = before
  BY StepFacts
<1>2. ASSUME NEW w \in Procs, Quiet(w)
      PROVE  /\ \A p \in Paths : Under(p, call[w].path) => fs'[p] \in {None, Dir}
             /\ pc'[w] = "exists" => Last(stack'[w]).path = call[w].path
             /\ pc'[w] = "mkdirs2" => fs'[Parent(Last(stack'[w]).path)] = Dir
             /\ result'[w] = "void" => fs'[call[w].path] = Dir
  <2>1. /\ Only(Makers) /\ call[w].path \in Paths
        /\ \A p \in Paths : fs'[p] = fs[p] \/ (fs[p] = None /\ fs'[p] = Dir)
    BY <1>2, MakersKeep, CallFacts DEF Quiet, LocalInv
  <2>2. /\ \A p \in Paths : Under(p, call[w].path) => fs[p] \in {None, Dir}
        /\ pc[w] = "exists" => Last(stack[w]).path = call[w].path
        /\ pc[w] = "mkdirs2" => fs[Parent(Last(stack[w]).path)] = Dir
        /\ result[w] = "void" => fs[call[w].path] = Dir
    BY <1>2 DEF CreateInv, IsDir, Here, Top
  <2>3. \A p \in Paths : Under(p, call[w].path) => fs'[p] \in {None, Dir}
    BY <2>1, <2>2
  <2>4. CASE w = v
    BY <1>2, <2>3, <2>4, CreateOwnStep
  <2>5. CASE w # v
    <3>1. pc'[w] = pc[w] /\ stack'[w] = stack[w] /\ result'[w] = result[w]
      BY <1>1, <2>5 DEF Alone
    <3>2. pc[w] = "mkdirs2" => Parent(Last(stack[w]).path) \in Paths
      BY <1>2, MakerFacts DEF Here, Top
    <3> QED BY <2>1, <2>2, <2>3, <3>1, <3>2
  <2> QED BY <2>4, <2>5
<1>3. \A w \in Procs : Quiet(w)' => Quiet(w)
  BY <1>1, QuietStays
<1> QED BY <1>1, <1>2, <1>3 DEF CreateInv, IsDir, Here, Top

\* While there is a root, mkdir recurses no further than to it.
RootInv ==
  \A w \in Procs : Quiet(w) /\ call[w].op = "mkdir" /\ IsDir(<<>>) =>
    \A i \in 1 .. Len(stack[w]) - 1 : stack[w][i].path # <<>>

\* A mkdir of p at a label, with the frame of h, may go on to its end: what it is to make
\* next is not in tree t yet.
InTime(p, h, label, t) ==
  /\ label # "done"
  /\ label = "mkdir" => \A q \in Paths : (Under(h, q) /\ q # h /\ Under(q, p)) => t[q] = None
  /\ label \in {"base", "make"} => t[h] = None

MkdirsOfOne == Only({"mkdir"}) /\ SamePath /\ \A w \in Procs : Quiet(w)

\* Of processes that make the same path there is one that is in time, until one has made
\* all of it.
MkdirInv ==
  MkdirsOfOne =>
    /\ \A w \in Procs : pc[w] = "make" => IsDir(Parent(Here(w)))
    /\ \A w \in Procs : result[w] = "true" => IsDir(call[w].path) /\ pc[w] = "done"
    /\ \E v \in Procs : result[v] = "true" \/ InTime(call[v].path, Here(v), pc[v], fs)

LEMMA RootParent ==
  ASSUME <<>> \in Paths
  PROVE  Parent(<<>>) = <<>>
  BY ParentFacts

LEMMA RootStep ==
  ASSUME LocalInv, IsTree(fs), RootInv, NEW v \in Procs, Step(v)
  PROVE  RootInv'
<1>1. /\ Alone(v) /\ call' = call /\ before' = before /\ pc[v] # "done"
  BY StepFacts
<1>2. ASSUME NEW w \in Procs, Quiet(w), call[w].op = "mkdir", fs'[<<>>] = Dir,
             NEW i \in 1 .. Len(stack'[w]) - 1
      PROVE  stack'[w][i].path # <<>>
  <2> SUFFICES ASSUME stack'[w][i].path = <<>> PROVE FALSE
    OBVIOUS
  <2>1. \A p \in Paths : fs'[p] = fs[p] \/ (fs[p] = None /\ fs'[p] = Dir)
    BY <1>2, MakersKeep DEF Quiet
  <2>2. <<>> \in Paths => fs[<<>>] = Dir
    <3> SUFFICES ASSUME <<>> \in Paths, fs[<<>>] # Dir PROVE FALSE
      OBVIOUS
    <3>1. fs[<<>>] = None /\ fs' # fs
      BY <1>2, <2>1
    <3>2. PICK p \in Paths : CanMake(p) /\ Put(p, Dir)
      <4>1. Changes(v) /\ call[v].op \notin Removers /\ call[v].op # "moveFile"
        BY <1>2, StepFacts DEF Quiet, Only, Makers, Removers
      <4> QED BY <3>1, <4>1 DEF Changes
    <3>3. p = <<>>
      BY <1>2, <3>1, <3>2, ThingsDiffer DEF Put, IsTree
    <3> QED BY <3>1, <3>2, <3>3, RootParent, ThingsDiffer DEF CanMake, IsDir
  <2>3. Good(call[w], stack[w]) /\ stack[w] \in Seq(FrameSet) /\ Len(stack[w]) \in Nat
    BY LenProperties DEF LocalInv, Good
  <2>4. \A j \in 1 .. Len(stack[w]) : stack[w][j].path \in Paths
    <3>1. ASSUME NEW j \in 1 .. Len(stack[w]) PROVE stack[w][j] \in FrameSet
      BY <2>3, <3>1, ElementOfSeq
    <3> QED BY <3>1 DEF FrameSet
  <2>5. <<>> \in Paths => \A j \in 1 .. Len(stack[w]) - 1 : stack[w][j].path # <<>>
    BY <1>2, <2>2 DEF RootInv, IsDir
  <2>6. CASE stack'[w] = stack[w] \/ stack'[w] = <<>>
    <3>1. stack'[w] = stack[w]
      <4>1. stack'[w] = <<>> => Len(stack'[w]) - 1 = -1
        BY EmptySeq
      <4>2. ~ (i \in 1 .. -1)
        OBVIOUS
      <4> QED BY <1>2, <2>6, <4>1, <4>2
    <3>2. i \in 1 .. Len(stack[w]) - 1 /\ i \in 1 .. Len(stack[w])
      BY <1>2, <2>3, <3>1
    <3> QED BY <2>4, <2>5, <3>1, <3>2
  <2>7. CASE w = v /\ stack[w] # <<>> /\ stack'[w] = Front(stack[w])
    <3>1. /\ Len(Front(stack[w])) = Len(stack[w]) - 1
          /\ \A j \in 1 .. Len(stack[w]) - 1 : Front(stack[w])[j] = stack[w][j]
      BY <2>3, <2>7, FrontFacts
    <3>2. i \in 1 .. Len(stack[w]) - 1 /\ i \in 1 .. Len(stack[w])
      BY <1>2, <2>3, <2>7, <3>1
    <3>3. stack[w][i].path = <<>>
      BY <2>7, <3>1, <3>2
    <3> QED BY <2>4, <2>5, <3>2, <3>3
  <2>8. CASE /\ w = v /\ stack[w] # <<>> /\ ~IsDir(Parent(Here(w)))
             /\ stack'[w] = Append(stack[w], Frame(Parent(Here(w))))
    <3> DEFINE n == Len(stack[w])
    <3>1. Here(w) \in Paths /\ Here(w) = stack[w][n].path
      BY <1>1, <2>8, TopFacts DEF Here, Top, Last
    <3>2. /\ Len(stack'[w]) = n + 1 /\ n \in Nat
          /\ \A j \in 1 .. n : stack'[w][j] = stack[w][j]
      BY <2>3, <2>8
    <3> HIDE DEF n
    <3>3. i \in 1 .. n
      BY <1>2, <3>2
    <3>4. i \in 1 .. n - 1 \/ i = n
      BY <3>2, <3>3
    <3>5. <<>> \in Paths /\ stack[w][i].path = <<>>
      BY <2>4, <3>2, <3>3 DEF n
    <3>6. i # n
      BY <2>2, <2>8, <3>1, <3>5, RootParent DEF IsDir
    <3> QED BY <2>5, <3>4, <3>5, <3>6 DEF n
  <2>9. CASE w # v
    BY <1>1, <2>6, <2>9 DEF Alone
  <2>10. CASE w = v
    <3>1. stack[w] # <<>> /\ (MkdirIsDir(w) \/ MkdirBase(w) \/ MkdirMake(w))
      BY <1>1, <1>2, <2>10, StepsOf, TopFacts
    <3>2. \/ \E label : Goto(w, label)
          \/ \E r, label : Return(w, r, label)
          \/ \E r : Finish(w, r)
          \/ ~IsDir(Parent(Here(w))) /\ Push(w, Parent(Here(w)), "mkdir")
      BY <3>1 DEF MkdirIsDir, MkdirBase, MkdirMake
    <3>3. \/ stack'[w] = stack[w] \/ stack'[w] = <<>> \/ stack'[w] = Front(stack[w])
          \/ ~IsDir(Parent(Here(w))) /\ stack'[w] = Append(stack[w], Frame(Parent(Here(w))))
      BY <3>2, GotoIs, ReturnIs, FinishIs, PushIs
    <3> QED BY <2>6, <2>7, <2>8, <2>10, <3>1, <3>3
  <2> QED BY <2>9, <2>10
<1>3. \A w \in Procs : Quiet(w)' => Quiet(w)
  BY <1>1, QuietStays
<1> QED BY <1>1, <1>2, <1>3 DEF RootInv, IsDir

\* A step of mkdir: it makes something or stays in time, and then is in time for the
\* next or has made all.
LEMMA MkdirOwnStep ==
  ASSUME LocalInv, IsTree(fs), CreateInv, RootInv, MkdirInv, MkdirsOfOne, NEW w \in Procs, Step(w)
  PROVE  /\ pc'[w] = "make" => fs'[Parent(Last(stack'[w]).path)] = Dir
         /\ result'[w] = "true" => fs'[call[w].path] = Dir /\ pc'[w] = "done"
         /\ fs' # fs \/ InTime(call[w].path, Here(w), pc[w], fs) =>
              result'[w] = "true" \/ InTime(call[w].path, Last(stack'[w]).path, pc'[w], fs')
<1> DEFINE p == call[w].path  h == Here(w)
<1>1. /\ pc[w] # "done" /\ call[w].op = "mkdir" /\ Quiet(w) /\ fs \in [Paths -> Things]
      /\ result[w] # "true"
      /\ pc[w] = "make" => fs[Parent(h)] = Dir
  BY StepFacts DEF MkdirsOfOne, Only, MkdirInv, IsDir, IsTree
<1>2. p \in Paths /\ h \in Paths /\ Parent(h) \in Paths /\ Under(h, p) /\ Under(Parent(h), p)
  BY <1>1, MakerFacts
<1>3. fs[h] \in {None, Dir}
  BY <1>1, <1>2 DEF CreateInv
<1>4. Len(stack[w]) = 1 => h = p
  BY <1>1, MakerBottom
<1> DEFINE d == Last(Front(stack[w])).path
<1>5. Len(stack[w]) # 1 => /\ d \in Paths /\ Parent(d) = h /\ Under(d, p)
                           /\ Under(h, d) /\ (d = h => h = <<>>)
  <2> SUFFICES ASSUME Len(stack[w]) # 1 PROVE /\ d \in Paths /\ Parent(d) = h /\ Under(d, p)
                                              /\ Under(h, d) /\ (d = h => h = <<>>)
    OBVIOUS
  <2>1. d \in Paths /\ Parent(d) = h /\ Under(d, p)
    BY <1>1, MakerBelow
  <2>2. d = h => h = <<>>
    BY <2>1, ParentFacts
  <2> QED BY <2>1, <2>2, ParentUnder
<1>6. CASE MkdirIsDir(w)
  <2>1. UNCHANGED fs /\ pc[w] = "mkdir"
    BY <1>6, LabelOf DEF MkdirIsDir
  <2>2. CASE fs[h] = Dir
    <3>1. Return(w, "true", "make")
      BY <1>6, <2>2 DEF MkdirIsDir, IsDir
    <3>2. CASE Len(stack[w]) = 1
      BY <1>4, <2>1, <2>2, <3>1, <3>2, ReturnIs
    <3>3. CASE Len(stack[w]) # 1
      <4>1. /\ pc'[w] = "make" /\ result'[w] # "true" /\ Last(stack'[w]).path = d
        BY <1>1, <3>1, <3>3, ReturnIs
      <4>2. d # h
        <5> SUFFICES ASSUME d = h PROVE FALSE
          OBVIOUS
        <5>1. IsDir(<<>>)
          BY <1>5, <2>2, <3>3 DEF IsDir
        <5>2. \A i \in 1 .. Len(stack[w]) - 1 : stack[w][i].path # <<>>
          BY <1>1, <5>1 DEF RootInv
        <5>3. /\ stack[w] \in Seq(FrameSet) /\ stack[w] # <<>>
          BY <1>1, TopFacts DEF Good
        <5>4. /\ Len(Front(stack[w])) = Len(stack[w]) - 1 /\ Len(stack[w]) \in Nat \ {0}
              /\ \A i \in 1 .. Len(stack[w]) - 1 : Front(stack[w])[i] = stack[w][i]
          BY <5>3, FrontFacts
        <5>5. Len(stack[w]) - 1 \in 1 .. Len(stack[w]) - 1
          <6> DEFINE n == Len(stack[w])
          <6>1. n \in Nat \ {0} /\ n # 1
            BY <3>3, <5>4
          <6> HIDE DEF n
          <6>2. n - 1 \in 1 .. n - 1
            BY <6>1
          <6> QED BY <6>2 DEF n
        <5>6. Last(Front(stack[w])) = stack[w][Len(stack[w]) - 1]
          BY <5>4, <5>5 DEF Last
        <5> QED BY <1>5, <3>3, <5>2, <5>5, <5>6
      <4>3. InTime(p, h, pc[w], fs) => fs[d] = None
        BY <1>5, <2>1, <3>3, <4>2 DEF InTime
      <4> QED BY <1>5, <2>1, <2>2, <3>3, <4>1, <4>3 DEF InTime
    <3> QED BY <3>2, <3>3
  <2>3. CASE fs[h] # Dir
    <3>1. Goto(w, "base")
      BY <1>6, <2>3 DEF MkdirIsDir, IsDir
    <3>2. pc'[w] = "base" /\ result'[w] # "true" /\ Last(stack'[w]).path = h
      BY <1>1, <3>1, GotoIs DEF Here, Top
    <3> QED BY <1>3, <2>1, <2>3, <3>2 DEF InTime
  <2> QED BY <2>2, <2>3
<1>7. CASE MkdirBase(w)
  <2>1. UNCHANGED fs /\ pc[w] = "base"
    BY <1>7, LabelOf DEF MkdirBase
  <2>2. CASE fs[Parent(h)] = Dir
    <3>1. Goto(w, "make")
      BY <1>7, <2>2 DEF MkdirBase, IsDir
    <3>2. pc'[w] = "make" /\ result'[w] # "true" /\ Last(stack'[w]).path = h
      BY <1>1, <3>1, GotoIs DEF Here, Top
    <3> QED BY <2>1, <2>2, <3>2 DEF InTime
  <2>3. CASE fs[Parent(h)] # Dir
    <3>1. Push(w, Parent(h), "mkdir")
      BY <1>7, <2>3 DEF MkdirBase, IsDir
    <3>2. pc'[w] = "mkdir" /\ result'[w] # "true" /\ Last(stack'[w]).path = Parent(h)
      <4>1. Last(Append(stack[w], Frame(Parent(h)))) = Frame(Parent(h))
        BY <1>1, TopFacts, PushedTop
      <4>2. Frame(Parent(h)).path = Parent(h)
        BY DEF Frame
      <4>3. pc'[w] = "mkdir" /\ stack'[w] = Append(stack[w], Frame(Parent(h))) /\ result'[w] = result[w]
        BY <3>1, PushIs
      <4> QED BY <1>1, <4>1, <4>2, <4>3
    <3>3. ASSUME NEW q \in Paths, Under(Parent(h), q), q # Parent(h), Under(q, p), fs[h] = None
          PROVE  fs[q] = None
      <4>1. CASE Under(h, q)
        BY <1>2, <3>3, <4>1, NothingBelow, ThingsDiffer
      <4>2. CASE Under(q, h) /\ q # h
        <5>1. Under(q, Parent(h))
          BY <1>2, <4>2, StrictlyUnder
        <5>2. Len(q) \in Nat /\ Len(Parent(h)) \in Nat /\ Len(q) <= Len(Parent(h)) /\ Len(Parent(h)) <= Len(q)
          BY <1>2, <3>3, <5>1, UnderIs, ParentFacts
        <5>3. q = Parent(h)
          BY <1>2, <3>3, <5>2, AboveOne
        <5> QED BY <3>3, <5>3
      <4> QED BY <1>2, <3>3, <4>1, <4>2, Comparable, UnderSelf
    <3>4. InTime(p, h, pc[w], fs) => fs[h] = None
      BY <2>1 DEF InTime
    <3> QED BY <2>1, <3>2, <3>3, <3>4 DEF InTime
  <2> QED BY <2>2, <2>3
<1>8. CASE MkdirMake(w)
  <2>1. pc[w] = "make" /\ fs[Parent(h)] = Dir
    BY <1>1, <1>8, LabelOf
  <2>2. CASE CanMake(h)
    <3>1. Put(h, Dir) /\ Return(w, "true", "make") /\ fs[h] = None
      BY <1>8, <2>2 DEF MkdirMake, CanMake
    <3>2. fs'[h] = Dir /\ \A q \in Paths : q # h => fs'[q] = fs[q]
      BY <1>1, <1>2, <3>1 DEF Put
    <3>3. CASE Len(stack[w]) = 1
      BY <1>4, <3>1, <3>2, <3>3, ReturnIs
    <3>4. CASE Len(stack[w]) # 1
      <4>1. pc'[w] = "make" /\ result'[w] # "true" /\ Last(stack'[w]).path = d
        BY <1>1, <3>1, <3>4, ReturnIs
      <4>2. d # h
        BY <1>5, <2>1, <3>1, <3>4, RootParent, ThingsDiffer
      <4>3. fs'[d] = None
        BY <1>2, <1>5, <3>1, <3>2, <3>4, <4>2, NothingBelow, ThingsDiffer
      <4> QED BY <1>5, <3>2, <3>4, <4>1, <4>3 DEF InTime
    <3> QED BY <3>3, <3>4
  <2>3. CASE ~CanMake(h)
    <3>1. Finish(w, "false") /\ UNCHANGED fs
      BY <1>8, <2>3 DEF MkdirMake
    <3>2. ~InTime(p, h, pc[w], fs)
      BY <2>1, <2>3 DEF InTime, CanMake, IsDir
    <3> QED BY <3>1, <3>2, FinishIs
  <2> QED BY <2>2, <2>3
<1> QED BY <1>1, <1>6, <1>7, <1>8, StepsOf

LEMMA MkdirStep ==
  ASSUME LocalInv, IsTree(fs), CreateInv, RootInv, MkdirInv, NEW u \in Procs, Step(u)
  PROVE  MkdirInv'
<1>1. /\ Alone(u) /\ call' = call /\ before' = before /\ pc[u] # "done"
  BY StepFacts
<1> SUFFICES ASSUME MkdirsOfOne'
             PROVE  /\ \A w \in Procs : pc'[w] = "make" => fs'[Parent(Last(stack'[w]).path)] = Dir
                    /\ \A w \in Procs : result'[w] = "true" => fs'[call[w].path] = Dir /\ pc'[w] = "done"
                    /\ \E v \in Procs : \/ result'[v] = "true"
                                        \/ InTime(call[v].path, Last(stack'[v]).path, pc'[v], fs')
  <2>1. \A v \in Procs : InTime(call[v].path, Here(v), pc[v], fs)'
                         <=> InTime(call[v].path, Last(stack'[v]).path, pc'[v], fs')
    BY <1>1 DEF InTime, Here, Top
  <2> QED BY <1>1, <2>1 DEF MkdirInv, IsDir, Here, Top
<1>2. MkdirsOfOne
  BY <1>1, QuietStays DEF MkdirsOfOne
<1>3. /\ \A w \in Procs : pc[w] = "make" => IsDir(Parent(Here(w)))
      /\ \A w \in Procs : result[w] = "true" => IsDir(call[w].path) /\ pc[w] = "done"
      /\ \E v \in Procs : result[v] = "true" \/ InTime(call[v].path, Here(v), pc[v], fs)
  BY <1>2 DEF MkdirInv
<1>4. \A p \in Paths : fs'[p] = fs[p] \/ (fs[p] = None /\ fs'[p] = Dir)
  BY <1>2, MakersKeep DEF MkdirsOfOne, Quiet
<1>5. /\ pc'[u] = "make" => fs'[Parent(Last(stack'[u]).path)] = Dir
      /\ result'[u] = "true" => fs'[call[u].path] = Dir /\ pc'[u] = "done"
      /\ fs' # fs \/ InTime(call[u].path, Here(u), pc[u], fs) =>
           result'[u] = "true" \/ InTime(call[u].path, Last(stack'[u]).path, pc'[u], fs')
  BY <1>2, MkdirOwnStep
<1>6. ASSUME NEW w \in Procs, w # u
      PROVE  /\ pc'[w] = pc[w] /\ stack'[w] = stack[w] /\ result'[w] = result[w]
             /\ call[w].path \in Paths /\ (pc[w] # "done" => Parent(Here(w)) \in Paths)
  <2>1. call[w].path \in Paths /\ (pc[w] # "done" => Parent(Here(w)) \in Paths)
    BY CallFacts, TopFacts DEF LocalInv
  <2> QED BY <1>1, <1>6, <2>1 DEF Alone
<1>7. ASSUME NEW w \in Procs, pc'[w] = "make" PROVE fs'[Parent(Last(stack'[w]).path)] = Dir
  BY <1>3, <1>4, <1>5, <1>6, <1>7 DEF IsDir, Here, Top
<1>8. ASSUME NEW w \in Procs, result'[w] = "true" PROVE fs'[call[w].path] = Dir /\ pc'[w] = "done"
  BY <1>3, <1>4, <1>5, <1>6, <1>8 DEF IsDir
<1>9. \E v \in Procs : \/ result'[v] = "true"
                       \/ InTime(call[v].path, Last(stack'[v]).path, pc'[v], fs')
  <2>1. PICK v \in Procs : result[v] = "true" \/ InTime(call[v].path, Here(v), pc[v], fs)
    BY <1>3
  <2>2. CASE fs' # fs \/ v = u
    <3>1. v = u => InTime(call[u].path, Here(u), pc[u], fs)
      BY <1>1, <1>3, <2>1
    <3> QED BY <1>5, <2>2, <3>1
  <2>3. CASE fs' = fs /\ v # u
    <3>1. pc'[v] = pc[v] /\ Last(stack'[v]).path = Here(v) /\ result'[v] = result[v]
      BY <1>6, <2>3 DEF Here, Top
    <3> QED BY <2>1, <2>3, <3>1
  <2> QED BY <2>2, <2>3
<1> QED BY <1>7, <1>8, <1>9

-----------------------------------------------------------------------------
(* Calls that remove the same directory.                                   *)

RmdirsOfOne == Only({"rmdir"}) /\ SamePath /\ \A w \in Procs : before[call[w].path] = Dir

\* The directory is there until one has removed it, which returns true then.
RmdirInv ==
  RmdirsOfOne =>
    /\ \A w \in Procs : /\ result[w] = "true" => pc[w] = "done"
                        /\ fs[call[w].path] \in {None, Dir}
                        /\ fs[call[w].path] = None <=> \E v \in Procs : result[v] = "true"
    /\ \A v, w \in Procs : result[v] = "true" /\ result[w] = "true" => v = w

\* What is in a directory below d is not d.
LEMMA NotBelow ==
  ASSUME NEW d \in Paths, NEW p \in Paths \ {<<>>}, Under(d, Parent(p))
  PROVE  p # d
<1>1. /\ Len(d) \in Nat /\ Len(Parent(p)) \in Nat /\ Len(p) \in Nat
      /\ Len(d) <= Len(Parent(p)) /\ Len(Parent(p)) = Len(p) - 1
  BY ParentInPaths, UnderIs, ParentFacts
<1>2. Len(d) # Len(p)
  BY <1>1
<1> QED BY <1>2

\* A call that removes works on its own path in the lowest frame, and only there.
LEMMA RemoverFrame ==
  ASSUME LocalInv, NEW w \in Procs, pc[w] # "done", call[w].op \in Removers
  PROVE  /\ call[w].path \in Paths /\ Here(w) \in Paths /\ Under(call[w].path, Here(w))
         /\ Here(w) = call[w].path <=> Len(stack[w]) = 1
<1>1. /\ call[w].path \in Paths /\ Here(w) \in Paths /\ Under(call[w].path, Here(w))
      /\ Good(call[w], stack[w]) /\ stack[w] # <<>> /\ call[w].op # "moveFile"
  BY CallFacts, TopFacts DEF LocalInv, Removers
<1>2. CASE Len(stack[w]) = 1
  BY <1>1, <1>2, GoodBottom DEF Begins, Here, Top
<1>3. CASE Len(stack[w]) # 1
  <2> DEFINE r == Front(stack[w])
  <2>1. /\ r # <<>> /\ Good(call[w], r) /\ Last(r).path \in Paths
        /\ Follows(call[w], Last(r).path, Last(stack[w]).path)
    BY <1>1, <1>3, GoodBelow
  <2>2. Reaches(call[w], Last(r).path)
    BY <2>1, GoodTop
  <2> HIDE DEF r
  <2>3. Here(w) # <<>> /\ Under(call[w].path, Parent(Here(w)))
    BY <2>1, <2>2 DEF Follows, Reaches, Here, Top
  <2> QED BY <1>1, <1>3, <2>3, NotBelow
<1> QED BY <1>1, <1>2, <1>3

LEMMA RmdirOwnStep ==
  ASSUME LocalInv, IsTree(fs), NEW w \in Procs, call[w].op = "rmdir", result[w] # "true", Step(w)
  PROVE  \/ /\ fs[call[w].path] = Dir /\ fs'[call[w].path] = None
            /\ result'[w] = "true" /\ pc'[w] = "done"
         \/ fs'[call[w].path] = fs[call[w].path] /\ result'[w] # "true"
<1> DEFINE P == call[w].path  h == Here(w)
<1>1. /\ pc[w] # "done" /\ call[w].op \in Removers /\ fs \in [Paths -> Things]
      /\ P \in Paths /\ h \in Paths /\ Under(P, h) /\ (h = P <=> Len(stack[w]) = 1)
  BY StepFacts, RemoverFrame DEF Removers, IsTree
<1>2. CASE Readdir(w)
  <2>1. UNCHANGED fs /\ (Finish(w, "throw") \/ \E list : SetTodo(w, list, "rmdir"))
    BY <1>2 DEF Readdir
  <2> QED BY <2>1, FinishIs, SetTodoIs
<1>3. CASE RmdirEntry(w)
  <2> DEFINE e == Next1(w).path
  <2>1. /\ Todo(w) # <<>>
        /\ \/ Enter(w, e, "readdir") /\ UNCHANGED fs
           \/ Put(e, None) /\ SetTodo(w, Tail(Todo(w)), "rmdir")
           \/ SetTodo(w, <<>>, "rmdir") /\ UNCHANGED fs
    BY <1>3 DEF RmdirEntry, Skip
  <2>2. e \in Paths \ {<<>>} /\ Parent(e) = h
    BY <1>1, <2>1, NextFacts
  <2>3. e # P
    BY <1>1, <2>2, NotBelow
  <2>4. fs'[P] = fs[P]
    BY <1>1, <2>1, <2>3 DEF Put
  <2>5. result'[w] # "true"
    BY <2>1, EnterIs, SetTodoIs
  <2> QED BY <2>4, <2>5
<1>4. CASE RmdirSelf(w)
  <2>1. \/ fs[h] = Dir /\ Put(h, None) /\ Return(w, "true", "rmdir")
        \/ Finish(w, "throw") /\ UNCHANGED fs
    BY <1>4 DEF RmdirSelf, CanRmdir, IsDir
  <2>2. CASE fs[h] = Dir /\ Put(h, None) /\ Return(w, "true", "rmdir")
    <3>1. fs' = [fs EXCEPT ![h] = None]
      BY <2>2 DEF Put
    <3>2. CASE Len(stack[w]) = 1
      <4>1. h = P
        BY <1>1, <3>2
      <4>2. fs[P] = Dir /\ fs'[P] = None
        BY <1>1, <2>2, <3>1, <4>1
      <4> QED BY <2>2, <3>2, <4>2, ReturnIs
    <3>3. CASE Len(stack[w]) # 1
      <4>1. h # P
        BY <1>1, <3>3
      <4>2. fs'[P] = fs[P]
        BY <1>1, <3>1, <4>1
      <4> QED BY <2>2, <3>3, <4>2, ReturnIs
    <3> QED BY <3>2, <3>3
  <2>3. CASE Finish(w, "throw") /\ UNCHANGED fs
    BY <2>3, FinishIs
  <2> QED BY <2>1, <2>2, <2>3
<1> QED BY <1>2, <1>3, <1>4, StepsOf

LEMMA RmdirStep ==
  ASSUME LocalInv, IsTree(fs), RmdirInv, NEW u \in Procs, Step(u)
  PROVE  RmdirInv'
<1>1. /\ Alone(u) /\ call' = call /\ before' = before /\ pc[u] # "done"
  BY StepFacts
<1> SUFFICES ASSUME RmdirsOfOne'
             PROVE  /\ \A w \in Procs :
                         /\ result'[w] = "true" => pc'[w] = "done"
                         /\ fs'[call[w].path] \in {None, Dir}
                         /\ fs'[call[w].path] = None <=> \E v \in Procs : result'[v] = "true"
                    /\ \A v, w \in Procs : result'[v] = "true" /\ result'[w] = "true" => v = w
  BY <1>1 DEF RmdirInv
<1>2. RmdirsOfOne
  BY <1>1 DEF RmdirsOfOne, Only, SamePath
<1>3. /\ \A w \in Procs : /\ result[w] = "true" => pc[w] = "done"
                          /\ fs[call[w].path] \in {None, Dir}
                          /\ fs[call[w].path] = None <=> \E v \in Procs : result[v] = "true"
      /\ \A v, w \in Procs : result[v] = "true" /\ result[w] = "true" => v = w
  BY <1>2 DEF RmdirInv
<1>4. \A w \in Procs : call[w].path = call[u].path /\ call[u].op = "rmdir"
  BY <1>2 DEF RmdirsOfOne, Only, SamePath
<1>5. \A w \in Procs : w # u => pc'[w] = pc[w] /\ result'[w] = result[w]
  BY <1>1 DEF Alone
<1>6. result[u] # "true"
  BY <1>1, <1>3
<1>7. CASE /\ fs[call[u].path] = Dir /\ fs'[call[u].path] = None
           /\ result'[u] = "true" /\ pc'[u] = "done"
  <2>1. \A v \in Procs : result[v] # "true"
    BY <1>3, <1>7, ThingsDiffer
  <2>2. \A v \in Procs : result'[v] = "true" => v = u
    BY <1>5, <2>1
  <2>3. \A v, w \in Procs : result'[v] = "true" /\ result'[w] = "true" => v = w
    BY <2>2
  <2> QED BY <1>4, <1>7, <2>2, <2>3
<1>8. CASE fs'[call[u].path] = fs[call[u].path] /\ result'[u] # "true"
  <2>1. \A v \in Procs : result'[v] = "true" <=> result[v] = "true"
    BY <1>5, <1>6, <1>8
  <2>2. \A v \in Procs : result'[v] = "true" => pc'[v] = "done"
    BY <1>3, <1>5, <1>8
  <2>3. \A v \in Procs : fs'[call[v].path] = fs[call[v].path]
    BY <1>4, <1>8
  <2>4. (\E v \in Procs : result'[v] = "true") <=> \E v \in Procs : result[v] = "true"
    BY <2>1
  <2> QED BY <1>3, <2>1, <2>2, <2>3, <2>4
<1> QED BY <1>4, <1>6, <1>7, <1>8, RmdirOwnStep

-----------------------------------------------------------------------------
(* Calls that remove what no one else has to do with.                      *)

Walking(w) == call[w].op \in Removers /\ before[call[w].path] = Dir /\ Apart(w)

\* Places where a frame has not listed its directory yet.
Fresh == {"readdir", "listFiles", "notExists", "walk"}

\* What is still to be seen: what the frames work on, what is below their entries to
\* come, and all below a directory that is not listed yet.
Covers(f, p) == f.path = p \/ \E j \in 1 .. Len(f.todo) : Under(f.todo[j].path, p)
Ahead(s, label, p) ==
  \/ \E i \in 1 .. Len(s) : Covers(s[i], p)
  \/ label \in Fresh /\ Under(Last(s).path, p)

\* What w leaves of what it has seen.
Leaves(w, p) == IF Kept(w, p) THEN Dir ELSE None

\* The entries to come are there, each once, and are not what the next frame works on.
Listed(f) ==
  /\ \A j \in 1 .. Len(f.todo) : /\ before[f.todo[j].path] # None
                                 /\ f.todo[j].dir <=> before[f.todo[j].path] = Dir
  /\ \A j, k \in 1 .. Len(f.todo) : f.todo[j].path = f.todo[k].path => j = k

Separate(s) ==
  \A i \in 1 .. Len(s) - 1 : \A j \in 1 .. Len(s[i].todo) : s[i].todo[j].path # s[i + 1].path

\* What a frame that has listed its entries went through: deleteFiles lists no directory
\* that is empty.
Entered(w, f) ==
  /\ before[f.path] = Dir
  /\ call[w].op = "deleteFiles" => \E q \in Paths \ {<<>>} : Parent(q) = f.path /\ before[q] # None

FramesOK(w, s) ==
  /\ Separate(s)
  /\ \A i \in 1 .. Len(s) : Listed(s[i])
  /\ \A i \in 1 .. Len(s) - 1 : Entered(w, s[i])

AtPlace(w, f, label) ==
  /\ label \notin Fresh => Entered(w, f)
  /\ label \in Fresh => f.todo = <<>> /\ before[f.path] # None
  /\ label \in Fresh \ {"walk"} => before[f.path] = Dir
  /\ label = "delete" => before[Head(f.todo).path] # Dir

\* What is to be seen is as it was at first, what is behind is as w leaves it.
Walk(w, s, label, t) ==
  /\ \A p \in Paths : Under(call[w].path, p) =>
       t[p] = IF Ahead(s, label, p) THEN before[p] ELSE Leaves(w, p)
  /\ FramesOK(w, s)
  /\ IF label = "done" THEN s = <<>> ELSE AtPlace(w, Last(s), label)

WalkInv ==
  \A w \in Procs : Walking(w) => result[w] # "throw" /\ Walk(w, stack[w], pc[w], fs)

\* The paths of the frames go down the tree.
LEMMA ChainDown ==
  ASSUME NEW c, NEW s, Good(c, s), c.op \in Removers, s # <<>>, NEW i \in 1 .. Len(s)
  PROVE  s[i].path \in Paths /\ Under(s[i].path, Last(s).path)
<1> DEFINE n == Len(s)  d == Last(s).path
           S == {k \in Nat : k < n /\ ~Under(s[n - k].path, d)}
<1>1. s \in Seq(FrameSet) /\ n \in Nat \ {0} /\ d \in Paths /\ Last(s) = s[n]
  BY GoodTop, FrontFacts DEF Good
<1>2. \A k \in 1 .. n : s[k].path \in Paths
  <2> SUFFICES ASSUME NEW k \in 1 .. n PROVE s[k].path \in Paths
    OBVIOUS
  <2>1. s[k] \in FrameSet
    BY <1>1, ElementOfSeq
  <2> QED BY <2>1 DEF FrameSet
<1>3. \A k \in 2 .. n : s[k].path # <<>> /\ Parent(s[k].path) = s[k - 1].path
  BY DEF Good, Follows
<1> HIDE DEF n, d
<1>4. S = {}
  <2> SUFFICES ASSUME S # {} PROVE FALSE
    OBVIOUS
  <2>1. S \in SUBSET Nat
    OBVIOUS
  <2>2. PICK k \in S : \A m \in S : k <= m
    BY <2>1, Least
  <2>3. k \in Nat /\ k < n /\ ~Under(s[n - k].path, d)
    BY <2>2
  <2>4. k # 0
    <3>1. Under(s[n].path, d) /\ n - 0 = n
      BY <1>1, UnderSelf DEF d
    <3> QED BY <2>3, <3>1
  <2>5. /\ k - 1 \in Nat /\ k - 1 < n /\ n - (k - 1) \in 2 .. n /\ n - (k - 1) \in 1 .. n
        /\ n - (k - 1) - 1 = n - k /\ n - k \in 1 .. n
    BY <1>1, <2>3, <2>4
  <2>6. ~ (k - 1 \in S)
    BY <2>2, <2>3, <2>5
  <2>7. Under(s[n - (k - 1)].path, d)
    BY <2>5, <2>6
  <2>8. Parent(s[n - (k - 1)].path) = s[n - k].path /\ s[n - (k - 1)].path \in Paths
    BY <1>2, <1>3, <2>5
  <2>9. Under(s[n - k].path, d)
    BY <1>1, <1>2, <2>5, <2>7, <2>8, ParentUnder, UnderTransitive
  <2> QED BY <2>3, <2>9
<1>5. n - i \in Nat /\ n - i < n /\ n - (n - i) = i /\ i \in 1 .. n
  BY <1>1 DEF n
<1>6. ~ (n - i \in S)
  BY <1>4
<1>7. Under(s[i].path, d)
  BY <1>5, <1>6
<1> QED BY <1>2, <1>5, <1>7 DEF d

LEMMA SameDepth ==
  ASSUME NEW a \in Paths \ {<<>>}, NEW b \in Paths \ {<<>>}, Parent(a) = Parent(b),
         NEW p \in Paths, Under(a, p), Under(b, p)
  PROVE  a = b
<1>1. Len(a) \in Nat /\ Len(b) \in Nat /\ Len(a) = Len(b)
  BY ParentFacts
<1> QED BY <1>1, AboveOne

\* What is below the last frame is ahead of no frame below it.
LEMMA CoversBelow ==
  ASSUME NEW c, NEW s, Good(c, s), c.op \in Removers, s # <<>>, Separate(s),
         NEW i \in 1 .. Len(s) - 1, NEW p \in Paths, Under(Last(s).path, p)
  PROVE  ~Covers(s[i], p)
<1> DEFINE a == s[i].path  b == s[i + 1].path
<1>1. Len(s) \in Nat \ {0} /\ Last(s).path \in Paths
  BY GoodTop
<1>2. i \in 1 .. Len(s) /\ i + 1 \in 1 .. Len(s) /\ i + 1 \in 2 .. Len(s) /\ i + 1 - 1 = i
  BY <1>1
<1>3. a \in Paths /\ b \in Paths /\ Under(b, Last(s).path)
  BY <1>2, ChainDown
<1>4. b # <<>> /\ Parent(b) = a
  BY <1>2 DEF Good, Follows
<1>5. Under(b, p)
  BY <1>1, <1>3, UnderTransitive
<1>6. a # p
  <2>1. Under(a, Parent(b))
    BY <1>3, <1>4, UnderSelf
  <2>2. Len(a) \in Nat /\ Len(b) \in Nat /\ Len(p) \in Nat /\ Len(a) = Len(b) - 1 /\ Len(b) <= Len(p)
    BY <1>3, <1>4, <1>5, ParentFacts, UnderIs
  <2>3. Len(a) # Len(p)
    BY <2>2
  <2> QED BY <2>3
<1>7. ASSUME NEW j \in 1 .. Len(s[i].todo), Under(s[i].todo[j].path, p) PROVE FALSE
  <2>1. OfDir(a, s[i].todo)
    BY <1>2 DEF Good
  <2>2. s[i].todo[j] \in EntrySet /\ Parent(s[i].todo[j].path) = a
    BY <2>1, ElementOfSeq DEF OfDir
  <2>3. s[i].todo[j].path \in Paths \ {<<>>}
    BY <2>2 DEF EntrySet
  <2>4. s[i].todo[j].path = b
    BY <1>3, <1>4, <1>5, <1>7, <2>2, <2>3, SameDepth
  <2> QED BY <2>4 DEF Separate
<1> QED BY <1>6, <1>7 DEF Covers

LEMMA ReplaceIs ==
  ASSUME NEW s \in Seq(FrameSet), s # <<>>, NEW f \in FrameSet, NEW t, t = Append(Front(s), f)
  PROVE  /\ t \in Seq(FrameSet) /\ t # <<>> /\ Len(t) = Len(s) /\ Len(s) \in Nat \ {0}
         /\ \A i \in 1 .. Len(s) - 1 : t[i] = s[i]
         /\ t[Len(s)] = f /\ Last(t) = f
<1> DEFINE r == Front(s)  n == Len(s)
<1>1. /\ r \in Seq(FrameSet) /\ Len(r) = n - 1 /\ n \in Nat \ {0}
      /\ \A i \in 1 .. n - 1 : r[i] = s[i]
  BY FrontFacts
<1>2. t = Append(r, f)
  OBVIOUS
<1> HIDE DEF r, n
<1>3. /\ t \in Seq(FrameSet) /\ t # <<>> /\ Len(t) = Len(r) + 1 /\ t[Len(r) + 1] = f
      /\ \A i \in 1 .. Len(r) : t[i] = r[i]
  BY <1>1, <1>2, AppendProperties
<1>4. Len(t) = n /\ Len(r) + 1 = n
  BY <1>1, <1>3
<1>5. t[n] = f /\ Last(t) = f
  BY <1>3, <1>4 DEF Last
<1> QED BY <1>1, <1>3, <1>4, <1>5 DEF n

LEMMA PushedIs ==
  ASSUME NEW s \in Seq(FrameSet), NEW f \in FrameSet, NEW t, t = Append(s, f)
  PROVE  /\ t \in Seq(FrameSet) /\ t # <<>> /\ Len(t) = Len(s) + 1 /\ Len(s) \in Nat
         /\ \A i \in 1 .. Len(s) : t[i] = s[i]
         /\ t[Len(s) + 1] = f /\ Last(t) = f
<1>1. /\ t \in Seq(FrameSet) /\ t # <<>> /\ Len(t) = Len(s) + 1 /\ t[Len(s) + 1] = f
      /\ \A i \in 1 .. Len(s) : t[i] = s[i]
  BY AppendProperties
<1> QED BY <1>1, LenProperties DEF Last

\* What the frames below the last cover, and what the last adds.
Lower(s, p) == \E i \in 1 .. Len(s) - 1 : Covers(s[i], p)

LEMMA AheadTop ==
  ASSUME NEW s \in Seq(FrameSet), s # <<>>, NEW label, NEW p
  PROVE  Ahead(s, label, p) <=> \/ Lower(s, p) \/ Covers(Last(s), p)
                                \/ label \in Fresh /\ Under(Last(s).path, p)
<1> DEFINE n == Len(s)
<1>1. n \in Nat \ {0} /\ Last(s) = s[n]
  BY FrontFacts
<1> HIDE DEF n
<1>2. \A i \in 1 .. n : i \in 1 .. n - 1 \/ i = n
  BY <1>1
<1>3. n \in 1 .. n /\ \A i \in 1 .. n - 1 : i \in 1 .. n
  BY <1>1
<1>4. (\E i \in 1 .. n : Covers(s[i], p)) <=> (\E i \in 1 .. n - 1 : Covers(s[i], p)) \/ Covers(s[n], p)
  BY <1>2, <1>3
<1> QED BY <1>1, <1>4 DEF Ahead, Lower, n

LEMMA LowerReplaced ==
  ASSUME NEW s \in Seq(FrameSet), s # <<>>, NEW f \in FrameSet, NEW p
  PROVE  Lower(Append(Front(s), f), p) <=> Lower(s, p)
<1> DEFINE t == Append(Front(s), f)
<1>0. t = Append(Front(s), f)
  OBVIOUS
<1> HIDE DEF t
<1>1. Len(t) = Len(s) /\ \A i \in 1 .. Len(s) - 1 : t[i] = s[i]
  BY <1>0, ReplaceIs
<1>2. Lower(t, p) <=> Lower(s, p)
  BY <1>1 DEF Lower
<1> QED BY <1>2 DEF t

LEMMA LowerPushed ==
  ASSUME NEW s \in Seq(FrameSet), s # <<>>, NEW f \in FrameSet, NEW p
  PROVE  Lower(Append(s, f), p) <=> Lower(s, p) \/ Covers(Last(s), p)
<1> DEFINE t == Append(s, f)  n == Len(s)
<1>0. t = Append(s, f)
  OBVIOUS
<1> HIDE DEF t
<1>6. Len(t) = n + 1 /\ \A i \in 1 .. n : t[i] = s[i]
  BY <1>0, PushedIs
<1>7. n \in Nat \ {0} /\ Last(s) = s[n]
  BY FrontFacts
<1>1. Len(t) = n + 1 /\ n \in Nat \ {0} /\ (\A i \in 1 .. n : t[i] = s[i]) /\ Last(s) = s[n]
  BY <1>6, <1>7
<1> HIDE DEF n
<1>2. Lower(t, p) <=> \E i \in 1 .. n : Covers(s[i], p)
  <2>1. Len(t) - 1 = n
    BY <1>1
  <2> QED BY <1>1, <2>1 DEF Lower
<1>3. \A i \in 1 .. n : i \in 1 .. n - 1 \/ i = n
  BY <1>1
<1>4. n \in 1 .. n /\ \A i \in 1 .. n - 1 : i \in 1 .. n
  BY <1>1
<1>5. Lower(t, p) <=> (\E i \in 1 .. n - 1 : Covers(s[i], p)) \/ Covers(s[n], p)
  BY <1>2, <1>3, <1>4
<1> QED BY <1>1, <1>5 DEF Lower, t, n

LEMMA ReplacedTop ==
  ASSUME NEW s \in Seq(FrameSet), s # <<>>, NEW f \in FrameSet
  PROVE  Append(Front(s), f) \in Seq(FrameSet) /\ Append(Front(s), f) # <<>> /\ Last(Append(Front(s), f)) = f
<1> DEFINE t == Append(Front(s), f)
<1>1. t = Append(Front(s), f)
  OBVIOUS
<1> HIDE DEF t
<1>2. t \in Seq(FrameSet) /\ t # <<>> /\ Last(t) = f
  BY <1>1, ReplaceIs
<1> QED BY <1>2 DEF t

LEMMA PushTop ==
  ASSUME NEW s \in Seq(FrameSet), NEW f \in FrameSet
  PROVE  Append(s, f) \in Seq(FrameSet) /\ Append(s, f) # <<>> /\ Last(Append(s, f)) = f
<1> DEFINE t == Append(s, f)
<1>1. t = Append(s, f)
  OBVIOUS
<1> HIDE DEF t
<1>2. t \in Seq(FrameSet) /\ t # <<>> /\ Last(t) = f
  BY <1>1, PushedIs
<1> QED BY <1>2 DEF t

LEMMA FramesReplaced ==
  ASSUME NEW w, NEW s \in Seq(FrameSet), s # <<>>, FramesOK(w, s),
         NEW f \in FrameSet, f.path = Last(s).path, Listed(f)
  PROVE  FramesOK(w, Append(Front(s), f))
<1> DEFINE t == Append(Front(s), f)  n == Len(s)
<1>1. /\ Len(t) = n /\ n \in Nat \ {0} /\ t[n] = f /\ Last(s) = s[n]
      /\ \A i \in 1 .. n - 1 : t[i] = s[i]
  BY ReplaceIs, FrontFacts
<1>2. /\ \A i \in 1 .. n : Listed(s[i])
      /\ \A i \in 1 .. n - 1 : Entered(w, s[i])
      /\ \A i \in 1 .. n - 1 : \A j \in 1 .. Len(s[i].todo) : s[i].todo[j].path # s[i + 1].path
  BY DEF FramesOK, Separate
<1> HIDE DEF t, n
<1>3. \A i \in 1 .. n : (i \in 1 .. n - 1) \/ i = n
  BY <1>1
<1>4. \A i \in 1 .. n : t[i].path = s[i].path
  BY <1>1, <1>3
<1>5. \A i \in 1 .. n - 1 : i + 1 \in 1 .. n
  BY <1>1
<1>6. \A i \in 1 .. n : Listed(t[i])
  BY <1>1, <1>2, <1>3
<1>7. \A i \in 1 .. n - 1 : Entered(w, t[i])
  BY <1>1, <1>2
<1>8. \A i \in 1 .. n - 1 : \A j \in 1 .. Len(t[i].todo) : t[i].todo[j].path # t[i + 1].path
  BY <1>1, <1>2, <1>4, <1>5
<1>9. FramesOK(w, t)
  BY <1>1, <1>6, <1>7, <1>8 DEF FramesOK, Separate
<1> QED BY <1>9 DEF t

LEMMA FramesPushed ==
  ASSUME NEW w, NEW s \in Seq(FrameSet), s # <<>>, FramesOK(w, s), Entered(w, Last(s)),
         NEW f \in FrameSet, Listed(f),
         \A j \in 1 .. Len(Last(s).todo) : Last(s).todo[j].path # f.path
  PROVE  FramesOK(w, Append(s, f))
<1> DEFINE t == Append(s, f)  n == Len(s)
<1>1. /\ Len(t) = n + 1 /\ n \in Nat \ {0} /\ t[n + 1] = f /\ Last(s) = s[n]
      /\ \A i \in 1 .. n : t[i] = s[i]
  BY PushedIs, FrontFacts
<1>2. /\ \A i \in 1 .. n : Listed(s[i])
      /\ \A i \in 1 .. n - 1 : Entered(w, s[i])
      /\ \A i \in 1 .. n - 1 : \A j \in 1 .. Len(s[i].todo) : s[i].todo[j].path # s[i + 1].path
  BY DEF FramesOK, Separate
<1> HIDE DEF t, n
<1>3. \A i \in 1 .. n + 1 : i \in 1 .. n \/ i = n + 1
  BY <1>1
<1>4. /\ \A i \in 1 .. n : i \in 1 .. n - 1 \/ i = n
      /\ \A i \in 1 .. n - 1 : i \in 1 .. n /\ i + 1 \in 1 .. n
  BY <1>1
<1>6. \A i \in 1 .. n + 1 : Listed(t[i])
  BY <1>1, <1>2, <1>3
<1>7. \A i \in 1 .. n : Entered(w, t[i])
  BY <1>1, <1>2, <1>4
<1>8. ASSUME NEW i \in 1 .. n, NEW j \in 1 .. Len(t[i].todo) PROVE t[i].todo[j].path # t[i + 1].path
  <2>1. CASE i \in 1 .. n - 1
    BY <1>1, <1>2, <1>4, <1>8, <2>1
  <2>2. CASE i = n
    BY <1>1, <1>8, <2>2
  <2> QED BY <1>4, <1>8, <2>1, <2>2
<1>9. FramesOK(w, t)
  <2>1. Len(t) - 1 = n /\ Len(t) = n + 1
    BY <1>1
  <2> QED BY <1>6, <1>7, <1>8, <2>1 DEF FramesOK, Separate
<1> QED BY <1>9 DEF t

LEMMA FramesPopped ==
  ASSUME NEW w, NEW s \in Seq(FrameSet), s # <<>>, FramesOK(w, s), Len(s) # 1
  PROVE  /\ FramesOK(w, Front(s)) /\ Front(s) \in Seq(FrameSet) /\ Front(s) # <<>>
         /\ Entered(w, Last(Front(s)))
         /\ \A p : (\E i \in 1 .. Len(Front(s)) : Covers(Front(s)[i], p)) <=> Lower(s, p)
<1> DEFINE t == Front(s)  n == Len(s)
<1>1. /\ t \in Seq(FrameSet) /\ Len(t) = n - 1 /\ n \in Nat \ {0} /\ n # 1
      /\ \A i \in 1 .. n - 1 : t[i] = s[i]
  BY FrontFacts
<1>2. /\ \A i \in 1 .. n : Listed(s[i])
      /\ \A i \in 1 .. n - 1 : Entered(w, s[i])
      /\ \A i \in 1 .. n - 1 : \A j \in 1 .. Len(s[i].todo) : s[i].todo[j].path # s[i + 1].path
  BY DEF FramesOK, Separate
<1>4. \A p : Lower(s, p) <=> \E i \in 1 .. n - 1 : Covers(s[i], p)
  BY DEF Lower
<1> HIDE DEF t, n
<1>5. n - 1 \in 1 .. n - 1 /\ \A i \in 1 .. n - 1 : i \in 1 .. n
  BY <1>1
<1>6. \A i \in 1 .. n - 1 - 1 : i \in 1 .. n - 1 /\ i + 1 \in 1 .. n - 1
  BY <1>1
<1>7. FramesOK(w, t)
  <2>1. \A i \in 1 .. n - 1 : Listed(t[i])
    BY <1>1, <1>2, <1>5
  <2>2. \A i \in 1 .. n - 1 - 1 : Entered(w, t[i])
    BY <1>1, <1>2, <1>6
  <2>3. \A i \in 1 .. n - 1 - 1 : \A j \in 1 .. Len(t[i].todo) : t[i].todo[j].path # t[i + 1].path
    BY <1>1, <1>2, <1>6
  <2> QED BY <1>1, <2>1, <2>2, <2>3 DEF FramesOK, Separate
<1>8. t # <<>> /\ Last(t) = s[n - 1]
  <2>1. t # <<>>
    BY <1>1, <1>5, EmptySeq
  <2> QED BY <1>1, <1>5, <2>1 DEF Last
<1>9. Entered(w, Last(t))
  BY <1>2, <1>5, <1>8
<1>10. \A p : (\E i \in 1 .. Len(t) : Covers(t[i], p)) <=> Lower(s, p)
  BY <1>1, <1>4
<1> QED BY <1>1, <1>7, <1>8, <1>9, <1>10 DEF t

\* The entries to come without the next one.
LEMMA TailListed ==
  ASSUME NEW d, NEW todo, OfDir(d, todo), todo # <<>>, NEW f, Listed(f), f.todo = todo,
         NEW g, g.todo = Tail(todo)
  PROVE  /\ Listed(g)
         /\ \A j \in 1 .. Len(g.todo) : g.todo[j].path # Head(todo).path
         /\ before[Head(todo).path] # None /\ (Head(todo).dir <=> before[Head(todo).path] = Dir)
         /\ \A p : (\E j \in 1 .. Len(todo) : Under(todo[j].path, p)) <=>
                   Under(Head(todo).path, p) \/ \E j \in 1 .. Len(g.todo) : Under(g.todo[j].path, p)
<1> DEFINE n == Len(todo)  u == Tail(todo)
<1>1. todo \in Seq(EntrySet) /\ n \in Nat \ {0} /\ Head(todo) = todo[1]
  BY EmptySeq, LenProperties DEF OfDir
<1>2. Len(u) = n - 1 /\ \A j \in 1 .. n - 1 : u[j] = todo[j + 1]
  BY <1>1, HeadTailProperties
<1>3. /\ \A j \in 1 .. n : /\ before[todo[j].path] # None
                           /\ todo[j].dir <=> before[todo[j].path] = Dir
      /\ \A j, k \in 1 .. n : todo[j].path = todo[k].path => j = k
  BY DEF Listed
<1> HIDE DEF n, u
<1>4. \A j \in 1 .. n - 1 : j + 1 \in 1 .. n /\ j + 1 # 1
  BY <1>1
<1>5. 1 \in 1 .. n /\ \A j \in 1 .. n : j = 1 \/ (j - 1 \in 1 .. n - 1 /\ j - 1 + 1 = j)
  BY <1>1
<1>6. g.todo = u /\ Len(u) = n - 1
  BY <1>2 DEF u
<1>7. \A j, k \in 1 .. n - 1 : j + 1 = k + 1 => j = k
  BY <1>1
<1>8. Listed(g)
  BY <1>2, <1>3, <1>4, <1>6, <1>7 DEF Listed
<1>9. \A j \in 1 .. Len(g.todo) : g.todo[j].path # Head(todo).path
  BY <1>1, <1>2, <1>3, <1>4, <1>5, <1>6
<1>10. ASSUME NEW p
       PROVE  (\E j \in 1 .. n : Under(todo[j].path, p)) <=>
              Under(Head(todo).path, p) \/ \E j \in 1 .. Len(g.todo) : Under(g.todo[j].path, p)
  <2>1. ASSUME NEW j \in 1 .. n, Under(todo[j].path, p)
        PROVE  Under(Head(todo).path, p) \/ \E k \in 1 .. Len(g.todo) : Under(g.todo[k].path, p)
    <3>1. CASE j = 1
      BY <1>1, <2>1, <3>1
    <3>2. CASE j # 1
      <4>1. j - 1 \in 1 .. n - 1 /\ u[j - 1] = todo[j]
        BY <1>2, <1>5, <2>1, <3>2
      <4> QED BY <1>6, <2>1, <4>1
    <3> QED BY <3>1, <3>2
  <2>2. Under(Head(todo).path, p) => \E j \in 1 .. n : Under(todo[j].path, p)
    BY <1>1, <1>5
  <2>3. ASSUME NEW j \in 1 .. Len(g.todo), Under(g.todo[j].path, p)
        PROVE  \E k \in 1 .. n : Under(todo[k].path, p)
    <3>1. j + 1 \in 1 .. n /\ u[j] = todo[j + 1]
      BY <1>2, <1>4, <1>6, <2>3
    <3> QED BY <1>6, <2>3, <3>1
  <2> QED BY <2>1, <2>2, <2>3
<1> QED BY <1>1, <1>3, <1>5, <1>8, <1>9, <1>10 DEF n

\* deleteFiles leaves directories only, and the other calls leave nothing.
LEMMA LeavesNothing ==
  ASSUME IsTree(before), NEW w, NEW p \in Paths, call[w].op # "deleteFiles" \/ before[p] # Dir
  PROVE  Leaves(w, p) = None
<1> SUFFICES ASSUME Kept(w, p) PROVE FALSE
  BY DEF Leaves
<1>1. PICK e \in Paths : Under(p, e) /\ before[e] = Dir /\ before[p] # Dir
  BY DEF Kept
<1> QED BY <1>1, NothingBelow, ThingsDiffer

\* What a call has to do with, and the frame it works on.
LEMMA WalkTop ==
  ASSUME NEW w, call[w].path \in Paths, call[w].op \in Removers, NEW s, Good(call[w], s), s # <<>>
  PROVE  /\ s \in Seq(FrameSet) /\ Last(s) \in FrameSet /\ Last(s).path \in Paths
         /\ OfDir(Last(s).path, Last(s).todo)
         /\ \A p \in Paths : Under(Last(s).path, p) => Under(call[w].path, p)
<1>1. /\ s \in Seq(FrameSet) /\ Last(s) \in FrameSet /\ Last(s).path \in Paths
      /\ OfDir(Last(s).path, Last(s).todo) /\ Under(call[w].path, Last(s).path)
  BY GoodTop DEF Good, Reaches
<1> QED BY <1>1, UnderTransitive

\* The function ends for the directory of the last frame, of which all is removed.
LEMMA WalkReturn ==
  ASSUME NEW w, call[w].path \in Paths, call[w].op \in Removers, NEW s, Good(call[w], s), s # <<>>,
         NEW label, label # "done", NEW t, Walk(w, s, label, t), Last(s).todo = <<>>,
         Len(s) = 1 => Last(s).path = call[w].path, NEW u,
         \A p \in Paths : IF Under(Last(s).path, p) THEN u[p] = Leaves(w, p) ELSE u[p] = t[p],
         NEW l, l \notin Fresh \cup {"done", "delete"}
  PROVE  IF Len(s) = 1 THEN Walk(w, <<>>, "done", u) ELSE Walk(w, Front(s), l, u)
<1> DEFINE d == Last(s).path
<1>1. s \in Seq(FrameSet) /\ d \in Paths /\ \A p \in Paths : Under(d, p) => Under(call[w].path, p)
  BY WalkTop
<1>2. FramesOK(w, s) /\ \A p \in Paths : Under(call[w].path, p) =>
         t[p] = IF Ahead(s, label, p) THEN before[p] ELSE Leaves(w, p)
  BY DEF Walk
<1>3. CASE Len(s) = 1
  <2>1. Len(<<>>) = 0
    BY EmptySeq
  <2>2. FramesOK(w, <<>>)
    BY <2>1 DEF FramesOK, Separate
  <2>3. \A p : ~Ahead(<<>>, "done", p)
    BY <2>1 DEF Ahead, Fresh
  <2>4. \A p \in Paths : Under(call[w].path, p) => u[p] = Leaves(w, p)
    BY <1>3
  <2> QED BY <1>3, <2>2, <2>3, <2>4 DEF Walk
<1>4. CASE Len(s) # 1
  <2> DEFINE r == Front(s)
  <2>1. /\ FramesOK(w, r) /\ r \in Seq(FrameSet) /\ r # <<>> /\ Entered(w, Last(r))
        /\ \A p : (\E i \in 1 .. Len(r) : Covers(r[i], p)) <=> Lower(s, p)
    BY <1>1, <1>2, <1>4, FramesPopped
  <2>2. Len(<<>>) = 0 /\ ~ \E j \in 1 .. 0 : TRUE
    BY EmptySeq
  <2>3. \A p \in Paths : Ahead(r, l, p) <=> Lower(s, p)
    BY <2>1 DEF Ahead
  <2>4. \A p \in Paths : Under(d, p) => ~Lower(s, p)
    BY <1>2, CoversBelow DEF Lower, FramesOK
  <2>5. ASSUME NEW p \in Paths, ~Under(d, p) PROVE Ahead(s, label, p) <=> Lower(s, p)
    <3>1. ~Covers(Last(s), p)
      <4>1. d # p
        BY <1>1, <2>5, UnderSelf
      <4> QED BY <2>2, <4>1 DEF Covers
    <3> QED BY <1>1, <2>5, <3>1, AheadTop
  <2> HIDE DEF r, d
  <2>6. ASSUME NEW p \in Paths, Under(call[w].path, p)
        PROVE  u[p] = IF Ahead(r, l, p) THEN before[p] ELSE Leaves(w, p)
    <3>1. CASE Under(d, p)
      BY <2>3, <2>4, <2>6, <3>1 DEF d
    <3>2. CASE ~Under(d, p)
      BY <1>2, <2>3, <2>5, <2>6, <3>2 DEF d
    <3> QED BY <3>1, <3>2
  <2>7. AtPlace(w, Last(r), l)
    BY <2>1 DEF AtPlace
  <2>8. Walk(w, r, l, u)
    BY <2>1, <2>6, <2>7 DEF Walk
  <2> QED BY <1>4, <2>8 DEF r
<1> QED BY <1>3, <1>4

\* The next entry is behind.
LEMMA WalkSkip ==
  ASSUME NEW w, call[w].path \in Paths, call[w].op \in Removers, NEW s, Good(call[w], s), s # <<>>,
         NEW label, label \notin Fresh \cup {"done"}, NEW t, Walk(w, s, label, t),
         Last(s).todo # <<>>, NEW u,
         \A p \in Paths : IF Under(Head(Last(s).todo).path, p) THEN u[p] = Leaves(w, p) ELSE u[p] = t[p],
         NEW l, l \notin Fresh \cup {"done", "delete"}
  PROVE  Walk(w, Append(Front(s), [path |-> Last(s).path, todo |-> Tail(Last(s).todo)]), l, u)
<1> DEFINE f == Last(s)  e == Head(f.todo).path  g == [path |-> f.path, todo |-> Tail(f.todo)]
           r == Append(Front(s), g)
<1>1. /\ s \in Seq(FrameSet) /\ f \in FrameSet /\ f.path \in Paths /\ OfDir(f.path, f.todo)
      /\ \A p \in Paths : Under(f.path, p) => Under(call[w].path, p)
  BY WalkTop
<1>2. /\ FramesOK(w, s) /\ AtPlace(w, f, label)
      /\ \A p \in Paths : Under(call[w].path, p) =>
           t[p] = IF Ahead(s, label, p) THEN before[p] ELSE Leaves(w, p)
  BY DEF Walk
<1>3. /\ Head(f.todo) \in EntrySet /\ Parent(e) = f.path /\ OfDir(f.path, Tail(f.todo))
  BY <1>1, OfDirHeadTail
<1>4. e \in Paths \ {<<>>} /\ g \in FrameSet /\ g.path = f.path /\ g.todo = Tail(f.todo)
  BY <1>1, <1>3 DEF EntrySet, FrameSet, OfDir
<1>5. Listed(f)
  <2>1. Len(s) \in 1 .. Len(s) /\ f = s[Len(s)]
    BY <1>1, FrontFacts
  <2> QED BY <1>2, <2>1 DEF FramesOK
<1>6. /\ Listed(g) /\ \A j \in 1 .. Len(g.todo) : g.todo[j].path # e
      /\ \A p : (\E j \in 1 .. Len(f.todo) : Under(f.todo[j].path, p)) <=>
                Under(e, p) \/ \E j \in 1 .. Len(g.todo) : Under(g.todo[j].path, p)
  <2> DEFINE todo == f.todo
  <2>1. OfDir(f.path, todo) /\ todo # <<>> /\ f.todo = todo /\ g.todo = Tail(todo) /\ e = Head(todo).path
    BY <1>1, <1>4
  <2> HIDE DEF f, e, g, todo
  <2>2. /\ Listed(g) /\ (\A j \in 1 .. Len(g.todo) : g.todo[j].path # Head(todo).path)
        /\ before[Head(todo).path] # None
        /\ \A p : (\E j \in 1 .. Len(todo) : Under(todo[j].path, p)) <=>
                  Under(Head(todo).path, p) \/ \E j \in 1 .. Len(g.todo) : Under(g.todo[j].path, p)
    BY <1>5, <2>1, TailListed
  <2> QED BY <2>1, <2>2 DEF todo
<1>7. Entered(w, f) /\ Entered(w, g)
  BY <1>2, <1>4 DEF AtPlace, Entered
<1> HIDE DEF f, e, g
<1>8. FramesOK(w, r) /\ r \in Seq(FrameSet) /\ r # <<>> /\ Last(r) = g /\ \A p : Lower(r, p) <=> Lower(s, p)
  <2>1. /\ s \in Seq(FrameSet) /\ s # <<>> /\ g \in FrameSet /\ g.path = Last(s).path /\ Listed(g)
        /\ FramesOK(w, s)
    BY <1>1, <1>2, <1>4, <1>6 DEF f
  <2>2. FramesOK(w, r)
    BY <2>1, FramesReplaced
  <2>4. r \in Seq(FrameSet) /\ r # <<>> /\ Last(r) = g
    BY <2>1, ReplacedTop
  <2>5. \A p : Lower(r, p) <=> Lower(s, p)
    BY <2>1, LowerReplaced
  <2> QED BY <2>2, <2>4, <2>5
<1> HIDE DEF r
<1>9. \A p \in Paths : Ahead(r, l, p) <=> Lower(s, p) \/ Covers(g, p)
  BY <1>8, AheadTop
<1>10. \A p \in Paths : Ahead(s, label, p) <=> Lower(s, p) \/ Covers(f, p)
  BY <1>1, AheadTop DEF f
<1>11. \A p \in Paths : Covers(f, p) <=> Covers(g, p) \/ Under(e, p)
  BY <1>4, <1>6 DEF Covers
<1>12. ASSUME NEW p \in Paths, Under(e, p) PROVE ~Lower(s, p) /\ ~Covers(g, p) /\ Under(f.path, p)
  <2>1. Under(f.path, e) /\ Under(f.path, p)
    BY <1>1, <1>3, <1>4, <1>12, ParentUnder, UnderTransitive
  <2>2. ~Lower(s, p)
    BY <1>2, <2>1, CoversBelow DEF Lower, FramesOK, f
  <2>3. f.path # p
    <3>1. f.path # e
      BY <1>1, <1>3, <1>4, NotBelow, UnderSelf
    <3>2. Len(f.path) \in Nat /\ Len(e) \in Nat /\ Len(p) \in Nat /\ Len(f.path) = Len(e) - 1 /\ Len(e) <= Len(p)
      BY <1>1, <1>3, <1>4, <1>12, ParentFacts, UnderIs
    <3>3. Len(f.path) # Len(p)
      BY <3>2
    <3> QED BY <3>3
  <2>4. ASSUME NEW j \in 1 .. Len(g.todo), Under(g.todo[j].path, p) PROVE FALSE
    <3>1. g.todo \in Seq(EntrySet) /\ Parent(g.todo[j].path) = f.path
      BY <1>3, <1>4, <2>4 DEF OfDir
    <3>2. g.todo[j] \in EntrySet
      BY <2>4, <3>1, ElementOfSeq
    <3>3. g.todo[j].path = e
      BY <1>3, <1>4, <1>12, <2>4, <3>1, <3>2, SameDepth DEF EntrySet
    <3> QED BY <1>6, <2>4, <3>3
  <2> QED BY <1>4, <2>1, <2>2, <2>3, <2>4 DEF Covers
<1>13. ASSUME NEW p \in Paths, Under(call[w].path, p)
       PROVE  u[p] = IF Ahead(r, l, p) THEN before[p] ELSE Leaves(w, p)
  <2>1. CASE Under(e, p)
    BY <1>9, <1>12, <2>1 DEF e, f
  <2>2. CASE ~Under(e, p)
    <3>1. u[p] = t[p]
      BY <2>2 DEF e, f
    <3> QED BY <1>2, <1>9, <1>10, <1>11, <1>13, <2>2, <3>1
  <2> QED BY <2>1, <2>2
<1>14. AtPlace(w, Last(r), l)
  BY <1>7, <1>8 DEF AtPlace
<1>15. Walk(w, r, l, u)
  BY <1>8, <1>13, <1>14 DEF Walk
<1> QED BY <1>15 DEF r, g, f

\* The function goes on in the next entry.
LEMMA WalkEnter ==
  ASSUME NEW w, call[w].path \in Paths, call[w].op \in Removers, NEW s, Good(call[w], s), s # <<>>,
         NEW label, label \notin Fresh \cup {"done"}, NEW t, Walk(w, s, label, t),
         Last(s).todo # <<>>, NEW l \in Fresh, l # "walk" => before[Head(Last(s).todo).path] = Dir
  PROVE  Walk(w, Append(Append(Front(s), [path |-> Last(s).path, todo |-> Tail(Last(s).todo)]),
                        Frame(Head(Last(s).todo).path)), l, t)
<1> DEFINE f == Last(s)  e == Head(f.todo).path  g == [path |-> f.path, todo |-> Tail(f.todo)]
           r == Append(Front(s), g)  q == Append(r, Frame(e))
<1>1. /\ s \in Seq(FrameSet) /\ f \in FrameSet /\ f.path \in Paths /\ OfDir(f.path, f.todo)
  BY WalkTop
<1>2. /\ FramesOK(w, s) /\ AtPlace(w, f, label)
      /\ \A p \in Paths : Under(call[w].path, p) =>
           t[p] = IF Ahead(s, label, p) THEN before[p] ELSE Leaves(w, p)
  BY DEF Walk
<1>3. /\ Head(f.todo) \in EntrySet /\ Parent(e) = f.path /\ OfDir(f.path, Tail(f.todo))
  BY <1>1, OfDirHeadTail
<1>4. e \in Paths \ {<<>>} /\ g \in FrameSet /\ g.path = f.path /\ g.todo = Tail(f.todo)
  BY <1>1, <1>3 DEF EntrySet, FrameSet, OfDir
<1>5. Listed(f)
  <2>1. Len(s) \in 1 .. Len(s) /\ f = s[Len(s)]
    BY <1>1, FrontFacts
  <2> QED BY <1>2, <2>1 DEF FramesOK
<1>6. /\ Listed(g) /\ (\A j \in 1 .. Len(g.todo) : g.todo[j].path # e) /\ before[e] # None
      /\ \A p : (\E j \in 1 .. Len(f.todo) : Under(f.todo[j].path, p)) <=>
                Under(e, p) \/ \E j \in 1 .. Len(g.todo) : Under(g.todo[j].path, p)
  <2> DEFINE todo == f.todo
  <2>1. OfDir(f.path, todo) /\ todo # <<>> /\ f.todo = todo /\ g.todo = Tail(todo) /\ e = Head(todo).path
    BY <1>1, <1>4
  <2> HIDE DEF f, e, g, todo
  <2>2. /\ Listed(g) /\ (\A j \in 1 .. Len(g.todo) : g.todo[j].path # Head(todo).path)
        /\ before[Head(todo).path] # None
        /\ \A p : (\E j \in 1 .. Len(todo) : Under(todo[j].path, p)) <=>
                  Under(Head(todo).path, p) \/ \E j \in 1 .. Len(g.todo) : Under(g.todo[j].path, p)
    BY <1>5, <2>1, TailListed
  <2> QED BY <2>1, <2>2 DEF todo
<1>7. Entered(w, f) /\ Entered(w, g)
  BY <1>2, <1>4 DEF AtPlace, Entered
<1>16. l # "walk" => before[e] = Dir
  OBVIOUS
<1> HIDE DEF f, e, g
<1>8. FramesOK(w, r) /\ r \in Seq(FrameSet) /\ r # <<>> /\ Last(r) = g /\ \A p : Lower(r, p) <=> Lower(s, p)
  <2>1. /\ s \in Seq(FrameSet) /\ s # <<>> /\ g \in FrameSet /\ g.path = Last(s).path /\ Listed(g)
        /\ FramesOK(w, s)
    BY <1>1, <1>2, <1>4, <1>6 DEF f
  <2>2. FramesOK(w, r)
    BY <2>1, FramesReplaced
  <2>4. r \in Seq(FrameSet) /\ r # <<>> /\ Last(r) = g
    BY <2>1, ReplacedTop
  <2>5. \A p : Lower(r, p) <=> Lower(s, p)
    BY <2>1, LowerReplaced
  <2> QED BY <2>2, <2>4, <2>5
<1> HIDE DEF r
<1>9. Frame(e) \in FrameSet /\ Frame(e).path = e /\ Frame(e).todo = <<>>
  BY <1>4, FrameIs DEF Frame
<1>10. Len(<<>>) = 0 /\ ~ \E j \in 1 .. 0 : TRUE
  BY EmptySeq
<1>11. Listed(Frame(e)) /\ \A p : Covers(Frame(e), p) <=> e = p
  BY <1>9, <1>10 DEF Listed, Covers
<1>12. /\ FramesOK(w, q) /\ q \in Seq(FrameSet) /\ q # <<>> /\ Last(q) = Frame(e)
       /\ \A p : Lower(q, p) <=> Lower(s, p) \/ Covers(g, p)
  <2> DEFINE h == Frame(e)
  <2>1. /\ r \in Seq(FrameSet) /\ r # <<>> /\ FramesOK(w, r) /\ Last(r) = g /\ Entered(w, g)
        /\ h \in FrameSet /\ Listed(h) /\ h.path = e /\ q = Append(r, h)
        /\ \A j \in 1 .. Len(g.todo) : g.todo[j].path # h.path
    BY <1>6, <1>7, <1>8, <1>9, <1>11
  <2> HIDE DEF h
  <2>2. FramesOK(w, q)
    BY <2>1, FramesPushed DEF h
  <2>3. q \in Seq(FrameSet) /\ q # <<>> /\ Last(q) = h
    BY <2>1, PushTop DEF h
  <2>4. \A p : Lower(q, p) <=> Lower(r, p) \/ Covers(g, p)
    BY <2>1, LowerPushed DEF h
  <2> QED BY <1>8, <2>2, <2>3, <2>4 DEF h
<1> HIDE DEF q
<1>13. \A p \in Paths : Ahead(q, l, p) <=> Lower(s, p) \/ Covers(g, p) \/ Under(e, p)
  BY <1>4, <1>9, <1>11, <1>12, AheadTop, UnderSelf
<1>14. \A p \in Paths : Ahead(s, label, p) <=> Lower(s, p) \/ Covers(f, p)
  BY <1>1, AheadTop DEF f
<1>15. \A p \in Paths : Covers(f, p) <=> Covers(g, p) \/ Under(e, p)
  BY <1>4, <1>6 DEF Covers
<1>17. AtPlace(w, Last(q), l)
  BY <1>6, <1>9, <1>12, <1>16 DEF AtPlace, Fresh
<1>18. l # "done"
  BY DEF Fresh
<1>19. Walk(w, q, l, t)
  BY <1>2, <1>12, <1>13, <1>14, <1>15, <1>17, <1>18 DEF Walk
<1> QED BY <1>19 DEF q, r, g, f, e

\* A listing names every entry once.
LEMMA ListingFacts ==
  ASSUME NEW d, NEW list \in Listings(d)
  PROVE  /\ \A j \in 1 .. Len(list) : /\ fs[list[j].path] # None
                                      /\ list[j].dir <=> fs[list[j].path] = Dir
         /\ \A j, k \in 1 .. Len(list) : list[j].path = list[k].path => j = k
         /\ \A q \in Entries(d) : \E j \in 1 .. Len(list) : list[j].path = q
<1> DEFINE n == Cardinality(Entries(d))
<1>1. n \in Nat /\ IsFiniteSet(Entries(d))
  BY EntriesFinite
<1>2. PICK order \in [1 .. n -> Entries(d)] :
        /\ list = [i \in DOMAIN order |-> [path |-> order[i], dir |-> IsDir(order[i])]]
        /\ \A i, j \in 1 .. n : i # j => order[i] # order[j]
  BY DEF Listings, SetToSeqs
<1>3. order \in Surjection(1 .. n, Entries(d))
  <2>1. order \in Injection(1 .. n, Entries(d))
    BY <1>2 DEF Injection, IsInjective
  <2>2. Cardinality(1 .. n) = n
    BY <1>1, FS_Interval
  <2> QED BY <1>1, <2>1, <2>2, FS_Injection
<1>4. \A q \in Entries(d) : \E j \in 1 .. n : order[j] = q
  BY <1>3 DEF Surjection
<1> HIDE DEF n
<1>5. \A i \in 1 .. n : list[i].path = order[i] /\ (list[i].dir <=> fs[order[i]] = Dir)
  BY <1>2 DEF IsDir
<1>6. \A i \in 1 .. n : order[i] \in Paths \ {<<>>} /\ fs[order[i]] # None
  BY <1>2 DEF Entries
<1>7. Len(list) = n
  <2>1. DOMAIN list = 1 .. n
    BY <1>2
  <2>2. list \in Seq(EntrySet)
    BY ListingOfDir DEF OfDir
  <2>3. Len(list) \in Nat /\ DOMAIN list = 1 .. Len(list)
    BY <2>2, LenProperties
  <2> QED BY <1>1, <2>1, <2>3
<1> QED BY <1>2, <1>4, <1>5, <1>6, <1>7

\* The last frame has listed its directory.
LEMMA WalkList ==
  ASSUME NEW w, call[w].path \in Paths, call[w].op \in Removers, NEW s, Good(call[w], s), s # <<>>,
         IsTree(fs), IsTree(before), NEW label \in Fresh, Walk(w, s, label, fs),
         before[Last(s).path] = Dir, NEW list \in Listings(Last(s).path),
         call[w].op = "deleteFiles" => Entries(Last(s).path) # {},
         NEW l, l \notin Fresh \cup {"done", "delete"}
  PROVE  Walk(w, Append(Front(s), [path |-> Last(s).path, todo |-> list]), l, fs)
<1> DEFINE f == Last(s)  g == [path |-> f.path, todo |-> list]  r == Append(Front(s), g)
<1>1. /\ s \in Seq(FrameSet) /\ f \in FrameSet /\ f.path \in Paths /\ OfDir(f.path, list)
      /\ \A p \in Paths : Under(f.path, p) => Under(call[w].path, p)
  BY WalkTop, ListingOfDir
<1>2. /\ FramesOK(w, s) /\ f.todo = <<>>
      /\ \A p \in Paths : Under(call[w].path, p) =>
           fs[p] = IF Ahead(s, label, p) THEN before[p] ELSE Leaves(w, p)
  BY DEF Walk, AtPlace, Fresh
<1>3. g \in FrameSet /\ g.path = f.path /\ g.todo = list
  BY <1>1 DEF FrameSet, OfDir
<1>4. ASSUME NEW p \in Paths, Under(f.path, p) PROVE fs[p] = before[p]
  BY <1>1, <1>2, <1>4 DEF Ahead
<1>5. \A j \in 1 .. Len(list) : list[j].path \in Paths /\ Under(f.path, list[j].path)
  <2> SUFFICES ASSUME NEW j \in 1 .. Len(list)
               PROVE  list[j].path \in Paths /\ Under(f.path, list[j].path)
    OBVIOUS
  <2>1. list[j] \in EntrySet /\ Parent(list[j].path) = f.path
    BY <1>1, ElementOfSeq DEF OfDir
  <2> QED BY <2>1, ParentUnder DEF EntrySet
<1>6. Listed(g)
  BY <1>3, <1>4, <1>5, ListingFacts DEF Listed
<1>7. Entered(w, g)
  <2>1. ASSUME call[w].op = "deleteFiles"
        PROVE  \E q \in Paths \ {<<>>} : Parent(q) = f.path /\ before[q] # None
    <3>1. PICK q \in Paths \ {<<>>} : Parent(q) = f.path /\ fs[q] # None
      BY <2>1 DEF Entries
    <3>2. before[q] = fs[q]
      BY <1>4, <3>1, ParentUnder
    <3> QED BY <3>1, <3>2
  <2> QED BY <1>3, <2>1 DEF Entered
<1> HIDE DEF f, g
<1>8. FramesOK(w, r) /\ r \in Seq(FrameSet) /\ r # <<>> /\ Last(r) = g /\ \A p : Lower(r, p) <=> Lower(s, p)
  <2>1. /\ s \in Seq(FrameSet) /\ s # <<>> /\ g \in FrameSet /\ g.path = Last(s).path /\ Listed(g)
        /\ FramesOK(w, s)
    BY <1>1, <1>2, <1>3, <1>6 DEF f
  <2>2. FramesOK(w, r)
    BY <2>1, FramesReplaced
  <2>4. r \in Seq(FrameSet) /\ r # <<>> /\ Last(r) = g
    BY <2>1, ReplacedTop
  <2>5. \A p : Lower(r, p) <=> Lower(s, p)
    BY <2>1, LowerReplaced
  <2> QED BY <2>2, <2>4, <2>5
<1> HIDE DEF r
<1>9. \A p \in Paths : Ahead(r, l, p) <=> Lower(s, p) \/ Covers(g, p)
  BY <1>8, AheadTop
<1>10. \A p \in Paths : Ahead(s, label, p) <=> Lower(s, p) \/ Under(f.path, p)
  <2>1. Len(<<>>) = 0 /\ ~ \E j \in 1 .. 0 : TRUE
    BY EmptySeq
  <2>2. \A p : Covers(f, p) <=> f.path = p
    BY <1>2, <2>1 DEF Covers
  <2> QED BY <1>1, <2>2, AheadTop, UnderSelf DEF f
<1>11. ASSUME NEW p \in Paths, Covers(g, p) PROVE Under(f.path, p)
  BY <1>1, <1>3, <1>5, <1>11, UnderSelf, UnderTransitive DEF Covers
<1>12. ASSUME NEW p \in Paths, Under(f.path, p), ~Covers(g, p)
       PROVE  before[p] = None /\ Leaves(w, p) = None
  <2>1. f.path # p /\ \A j \in 1 .. Len(list) : ~Under(list[j].path, p)
    BY <1>3, <1>12 DEF Covers
  <2>2. PICK q \in Paths \ {<<>>} : Parent(q) = f.path /\ Under(q, p)
    BY <1>1, <1>12, <2>1, EntryTowards
  <2>3. q \notin Entries(f.path)
    BY <2>1, <2>2, ListingFacts DEF f
  <2>4. fs[q] = None
    BY <2>2, <2>3 DEF Entries
  <2>5. fs[p] = None
    BY <2>2, <2>4, NothingBelow, ThingsDiffer
  <2>6. before[p] = None
    BY <1>4, <1>12, <2>5
  <2> QED BY <2>6, LeavesNothing, ThingsDiffer
<1>13. ASSUME NEW p \in Paths, Under(call[w].path, p)
       PROVE  fs[p] = IF Ahead(r, l, p) THEN before[p] ELSE Leaves(w, p)
  <2>1. CASE Under(f.path, p) /\ ~Covers(g, p)
    BY <1>4, <1>12, <2>1
  <2>2. CASE ~Under(f.path, p)
    BY <1>2, <1>9, <1>10, <1>11, <1>13, <2>2
  <2>3. CASE Covers(g, p)
    BY <1>4, <1>9, <1>11, <2>3
  <2> QED BY <2>1, <2>2, <2>3
<1>14. AtPlace(w, Last(r), l)
  BY <1>7, <1>8 DEF AtPlace
<1>15. Walk(w, r, l, fs)
  BY <1>8, <1>13, <1>14 DEF Walk
<1> QED BY <1>15 DEF r, g, f

\* No other call changes what w has to do with.
LEMMA ApartStep ==
  ASSUME LocalInv, IsTree(fs), NEW w \in Procs, Apart(w), NEW v \in Procs \ {w}, Step(v),
         NEW p \in Paths, Under(call[w].path, p)
  PROVE  fs'[p] = fs[p]
<1> DEFINE d == call[w].path
<1>1. /\ Changes(v) /\ fs \in [Paths -> Things] /\ d \in Paths /\ call[v].path \in Paths
      /\ call[v].op = "moveFile" => call[v].tar \in Paths
  BY StepFacts, CallFacts DEF IsTree, LocalInv
<1>2. /\ ~Under(d, call[v].path) /\ ~Under(call[v].path, d)
      /\ call[v].op = "moveFile" => ~Under(d, call[v].tar)
  BY DEF Apart
<1> HIDE DEF d
<1>3. Under(d, p)
  BY DEF d
<1>4. CASE \E q \in Paths : CanMake(q) /\ Put(q, Dir) /\ call[v].op \notin Removers /\ Reaches(call[v], q)
  <2>1. PICK q \in Paths : Put(q, Dir) /\ call[v].op \notin Removers /\ Reaches(call[v], q)
    BY <1>4
  <2>2. p # q
    BY <1>1, <1>2, <1>3, <2>1, UnderTransitive DEF Reaches
  <2> QED BY <1>1, <2>1, <2>2 DEF Put
<1>5. CASE \E q \in Paths : CanRemove(q) /\ Put(q, None) /\ call[v].op \in Removers /\ Under(call[v].path, q)
  <2>1. PICK q \in Paths : Put(q, None) /\ Under(call[v].path, q)
    BY <1>5
  <2>2. p # q
    BY <1>1, <1>2, <1>3, <2>1, Comparable
  <2> QED BY <1>1, <2>1, <2>2 DEF Put
<1>6. CASE call[v].op = "moveFile" /\ Rename(v)
  <2>1. p # call[v].path /\ p # call[v].tar
    BY <1>2, <1>3, <1>6
  <2>2. \/ UNCHANGED fs
        \/ fs' = [fs EXCEPT ![call[v].path] = None, ![call[v].tar] = fs[call[v].path]]
    BY <1>6 DEF Rename
  <2> QED BY <1>1, <2>1, <2>2
<1> QED BY <1>1, <1>4, <1>5, <1>6 DEF Changes

\* w is at work; and what its step is to show.
OnWalk(w) ==
  LocalInv /\ IsTree(fs) /\ IsTree(before) /\ WalkInv /\ w \in Procs /\ Walking(w) /\ pc[w] # "done"

Walked(w) == result'[w] # "throw" /\ Walk(w, stack'[w], pc'[w], fs')

LEMMA OnWalkFacts ==
  ASSUME NEW w, OnWalk(w)
  PROVE  /\ w \in Procs /\ call[w].path \in Paths /\ call[w].op \in Removers
         /\ Good(call[w], stack[w]) /\ stack[w] # <<>> /\ Walk(w, stack[w], pc[w], fs)
         /\ result[w] # "throw" /\ pc[w] # "done"
         /\ Len(stack[w]) = 1 => Here(w) = call[w].path
         /\ Here(w) \in Paths /\ fs \in [Paths -> Things] /\ before \in [Paths -> Things]
         /\ \A p \in Paths : Under(Here(w), p) => Under(call[w].path, p)
<1>1. LocalInv /\ w \in Procs /\ pc[w] # "done" /\ call[w].op \in Removers
  BY DEF OnWalk, Walking
<1>2. Good(call[w], stack[w]) /\ stack[w] # <<>>
  BY <1>1, TopFacts
<1>3. /\ call[w].path \in Paths /\ Here(w) \in Paths /\ Under(call[w].path, Here(w))
      /\ Here(w) = call[w].path <=> Len(stack[w]) = 1
  BY <1>1, RemoverFrame
<1>4. \A p \in Paths : Under(Here(w), p) => Under(call[w].path, p)
  BY <1>3, UnderTransitive
<1>5. result[w] # "throw" /\ Walk(w, stack[w], pc[w], fs)
  BY DEF OnWalk, WalkInv
<1>6. fs \in [Paths -> Things] /\ before \in [Paths -> Things]
  BY DEF OnWalk, IsTree
<1> QED BY <1>1, <1>2, <1>3, <1>4, <1>5, <1>6

LEMMA WalkedReturn ==
  ASSUME NEW w, OnWalk(w), Todo(w) = <<>>, NEW r, r # "throw", NEW l, l \notin Fresh \cup {"done", "delete"},
         Return(w, r, l), \A p \in Paths : IF Under(Here(w), p) THEN fs'[p] = Leaves(w, p) ELSE fs'[p] = fs[p]
  PROVE  Walked(w)
<1>1. IF Len(stack[w]) = 1 THEN pc'[w] = "done" /\ stack'[w] = <<>> /\ result'[w] = r
      ELSE pc'[w] = l /\ stack'[w] = Front(stack[w]) /\ result'[w] = result[w]
  BY OnWalkFacts, ReturnIs DEF OnWalk
<1> DEFINE s == stack[w]  u == fs'
<1>2. /\ call[w].path \in Paths /\ call[w].op \in Removers /\ Good(call[w], s) /\ s # <<>>
      /\ pc[w] # "done" /\ Walk(w, s, pc[w], fs) /\ Last(s).todo = <<>>
      /\ Len(s) = 1 => Last(s).path = call[w].path
      /\ \A p \in Paths : IF Under(Last(s).path, p) THEN u[p] = Leaves(w, p) ELSE u[p] = fs[p]
  BY OnWalkFacts DEF Todo, Here, Top
<1> HIDE DEF s, u
<1>3. IF Len(s) = 1 THEN Walk(w, <<>>, "done", u) ELSE Walk(w, Front(s), l, u)
  BY <1>2, WalkReturn
<1> QED BY <1>1, <1>3, OnWalkFacts DEF Walked, s, u

LEMMA WalkedSkip ==
  ASSUME NEW w, OnWalk(w), pc[w] \notin Fresh, Todo(w) # <<>>, NEW l, l \notin Fresh \cup {"done", "delete"},
         SetTodo(w, Tail(Todo(w)), l),
         \A p \in Paths : IF Under(Next1(w).path, p) THEN fs'[p] = Leaves(w, p) ELSE fs'[p] = fs[p]
  PROVE  Walked(w)
<1>1. pc'[w] = l /\ stack'[w] = With(w, Tail(Todo(w))) /\ result'[w] = result[w]
  BY OnWalkFacts, SetTodoIs DEF OnWalk
<1> DEFINE s == stack[w]  u == fs'
<1>2. /\ call[w].path \in Paths /\ call[w].op \in Removers /\ Good(call[w], s) /\ s # <<>>
      /\ pc[w] \notin Fresh \cup {"done"} /\ Walk(w, s, pc[w], fs) /\ Last(s).todo # <<>>
      /\ \A p \in Paths : IF Under(Head(Last(s).todo).path, p) THEN u[p] = Leaves(w, p) ELSE u[p] = fs[p]
  BY OnWalkFacts DEF Todo, Next1, Top
<1>4. stack'[w] = Append(Front(s), [path |-> Last(s).path, todo |-> Tail(Last(s).todo)])
  BY <1>1 DEF With, Todo, Here, Top
<1> HIDE DEF s, u
<1>3. Walk(w, Append(Front(s), [path |-> Last(s).path, todo |-> Tail(Last(s).todo)]), l, u)
  BY <1>2, WalkSkip
<1> QED BY <1>1, <1>3, <1>4, OnWalkFacts DEF Walked, u

LEMMA WalkedEnter ==
  ASSUME NEW w, OnWalk(w), pc[w] \notin Fresh, Todo(w) # <<>>, NEW l \in Fresh,
         l # "walk" => before[Next1(w).path] = Dir, Enter(w, Next1(w).path, l), UNCHANGED fs
  PROVE  Walked(w)
<1>1. /\ pc'[w] = l /\ result'[w] = result[w]
      /\ stack'[w] = Append(With(w, Tail(Todo(w))), Frame(Next1(w).path))
  BY OnWalkFacts, EnterIs DEF OnWalk
<1> DEFINE s == stack[w]
<1>2. /\ call[w].path \in Paths /\ call[w].op \in Removers /\ Good(call[w], s) /\ s # <<>>
      /\ pc[w] \notin Fresh \cup {"done"} /\ Walk(w, s, pc[w], fs) /\ Last(s).todo # <<>>
      /\ l # "walk" => before[Head(Last(s).todo).path] = Dir
  BY OnWalkFacts DEF Todo, Next1, Top
<1>4. stack'[w] = Append(Append(Front(s), [path |-> Last(s).path, todo |-> Tail(Last(s).todo)]),
                         Frame(Head(Last(s).todo).path))
  BY <1>1 DEF With, Todo, Next1, Here, Top
<1> HIDE DEF s
<1>3. Walk(w, Append(Append(Front(s), [path |-> Last(s).path, todo |-> Tail(Last(s).todo)]),
                     Frame(Head(Last(s).todo).path)), l, fs)
  BY <1>2, WalkEnter
<1> QED BY <1>1, <1>3, <1>4, OnWalkFacts DEF Walked

LEMMA WalkedList ==
  ASSUME NEW w, OnWalk(w), pc[w] \in Fresh, before[Here(w)] = Dir, NEW list \in Listings(Here(w)),
         call[w].op = "deleteFiles" => Entries(Here(w)) # {},
         NEW l, l \notin Fresh \cup {"done", "delete"}, SetTodo(w, list, l), UNCHANGED fs
  PROVE  Walked(w)
<1>1. pc'[w] = l /\ stack'[w] = With(w, list) /\ result'[w] = result[w]
  BY OnWalkFacts, SetTodoIs DEF OnWalk
<1> DEFINE s == stack[w]
<1>2. /\ call[w].path \in Paths /\ call[w].op \in Removers /\ Good(call[w], s) /\ s # <<>>
      /\ IsTree(fs) /\ IsTree(before) /\ Walk(w, s, pc[w], fs) /\ before[Last(s).path] = Dir
      /\ list \in Listings(Last(s).path)
      /\ call[w].op = "deleteFiles" => Entries(Last(s).path) # {}
  BY OnWalkFacts DEF OnWalk, Here, Top
<1>4. stack'[w] = Append(Front(s), [path |-> Last(s).path, todo |-> list])
  BY <1>1 DEF With, Here, Top
<1> HIDE DEF s
<1>3. Walk(w, Append(Front(s), [path |-> Last(s).path, todo |-> list]), l, fs)
  BY <1>2, WalkList
<1> QED BY <1>1, <1>3, <1>4, OnWalkFacts DEF Walked

\* Before a directory is listed all in it is as it was.
LEMMA FreshFacts ==
  ASSUME NEW w, OnWalk(w), pc[w] \in Fresh
  PROVE  /\ Todo(w) = <<>> /\ before[Here(w)] # None /\ (pc[w] # "walk" => before[Here(w)] = Dir)
         /\ \A p \in Paths : Under(Here(w), p) => fs[p] = before[p]
         /\ fs[Here(w)] = before[Here(w)]
<1>1. Walk(w, stack[w], pc[w], fs) /\ pc[w] # "done"
  BY OnWalkFacts
<1>2. AtPlace(w, Top(w), pc[w])
  BY <1>1 DEF Walk, Top
<1>3. Todo(w) = <<>> /\ before[Here(w)] # None /\ (pc[w] # "walk" => before[Here(w)] = Dir)
  BY <1>2 DEF AtPlace, Todo, Here
<1>4. \A p \in Paths : Under(Here(w), p) => fs[p] = before[p]
  BY <1>1, OnWalkFacts DEF Walk, Ahead, Here, Top
<1> QED BY <1>3, <1>4, OnWalkFacts, UnderSelf

\* Before the next entry is worked on all in it is as it was.
LEMMA NextEntryFacts ==
  ASSUME NEW w, OnWalk(w), pc[w] \notin Fresh, Todo(w) # <<>>
  PROVE  /\ Next1(w).path \in Paths \ {<<>>} /\ before[Next1(w).path] # None
         /\ Next1(w).dir <=> before[Next1(w).path] = Dir
         /\ \A p \in Paths : Under(Next1(w).path, p) => fs[p] = before[p]
         /\ fs[Next1(w).path] = before[Next1(w).path]
         /\ pc[w] = "delete" => before[Next1(w).path] # Dir
<1> DEFINE e == Next1(w).path
<1>1. /\ Walk(w, stack[w], pc[w], fs) /\ pc[w] # "done" /\ Good(call[w], stack[w]) /\ stack[w] # <<>>
      /\ LocalInv /\ w \in Procs /\ call[w].op \in Removers
  BY OnWalkFacts DEF OnWalk
<1>2. /\ e \in Paths \ {<<>>} /\ Parent(e) = Here(w) /\ Under(call[w].path, e)
      /\ call[w].path \in Paths
  BY <1>1, NextFacts, OnWalkFacts
<1>3. stack[w] \in Seq(FrameSet) /\ OfDir(Here(w), Todo(w))
  BY <1>1, TopFacts DEF Good
<1>4. Len(stack[w]) \in 1 .. Len(stack[w]) /\ Top(w) = stack[w][Len(stack[w])]
  <2> DEFINE n == Len(stack[w])
  <2>1. n \in Nat \ {0}
    BY <1>1, <1>3, FrontFacts
  <2>2. Top(w) = stack[w][n]
    BY <1>1, <1>3, FrontFacts DEF Top
  <2> HIDE DEF n
  <2>3. n \in 1 .. n
    BY <2>1
  <2> QED BY <2>2, <2>3 DEF n
<1>5. Todo(w) \in Seq(EntrySet) /\ 1 \in 1 .. Len(Todo(w)) /\ Next1(w) = Todo(w)[1]
  <2>1. Todo(w) \in Seq(EntrySet)
    BY <1>3 DEF OfDir
  <2>2. Len(Todo(w)) \in Nat \ {0} /\ Head(Todo(w)) = Todo(w)[1]
    BY <2>1, EmptySeq, LenProperties
  <2> QED BY <2>1, <2>2 DEF Next1
<1>6. Listed(Top(w))
  BY <1>1, <1>4 DEF Walk, FramesOK
<1>7. before[e] # None /\ (Next1(w).dir <=> before[e] = Dir)
  BY <1>5, <1>6 DEF Listed, Todo
<1>8. ASSUME NEW p \in Paths, Under(e, p) PROVE fs[p] = before[p]
  <2>1. Covers(Top(w), p)
    BY <1>5, <1>8 DEF Covers, Todo
  <2>2. Ahead(stack[w], pc[w], p)
    BY <1>4, <2>1 DEF Ahead
  <2>3. Under(call[w].path, p)
    BY <1>2, <1>8, UnderTransitive
  <2> QED BY <1>1, <2>2, <2>3 DEF Walk
<1>9. AtPlace(w, Top(w), pc[w])
  BY <1>1 DEF Walk, Top
<1>10. pc[w] = "delete" => before[e] # Dir
  BY <1>9 DEF AtPlace, Next1, Todo
<1> QED BY <1>2, <1>7, <1>8, <1>10, UnderSelf

\* When all entries are worked on the directory is there, and in it what w leaves.
LEMMA LastFacts ==
  ASSUME NEW w, OnWalk(w), pc[w] \notin Fresh, Todo(w) = <<>>
  PROVE  /\ fs[Here(w)] = Dir /\ Entered(w, Top(w))
         /\ \A p \in Paths : Under(Here(w), p) /\ p # Here(w) => fs[p] = Leaves(w, p)
<1>1. /\ Walk(w, stack[w], pc[w], fs) /\ pc[w] # "done" /\ Good(call[w], stack[w]) /\ stack[w] # <<>>
      /\ call[w].op \in Removers /\ stack[w] \in Seq(FrameSet) /\ Here(w) \in Paths
      /\ \A p \in Paths : Under(Here(w), p) => Under(call[w].path, p)
  BY OnWalkFacts DEF Good
<1>2. Entered(w, Top(w)) /\ before[Here(w)] = Dir /\ FramesOK(w, stack[w])
  BY <1>1 DEF Walk, AtPlace, Top, Entered, Here
<1>3. Len(<<>>) = 0 /\ ~ \E j \in 1 .. 0 : TRUE
  BY EmptySeq
<1>4. \A p : Covers(Top(w), p) <=> Here(w) = p
  BY <1>3 DEF Covers, Here, Todo
<1>5. \A p \in Paths : Ahead(stack[w], pc[w], p) <=> Lower(stack[w], p) \/ Here(w) = p
  BY <1>1, <1>4, AheadTop DEF Top
<1>6. \A p \in Paths : Under(Here(w), p) => ~Lower(stack[w], p)
  BY <1>1, <1>2, CoversBelow DEF Lower, FramesOK, Here, Top
<1>7. \A p \in Paths : Under(Here(w), p) => fs[p] = IF Here(w) = p THEN before[p] ELSE Leaves(w, p)
  BY <1>1, <1>5, <1>6 DEF Walk
<1> QED BY <1>1, <1>2, <1>7, UnderSelf

\* What is removed takes with it nothing that is left.
LEMMA RemovedEntry ==
  ASSUME NEW w, OnWalk(w), NEW p \in Paths, before[p] # None, before[p] # Dir, fs[p] = before[p],
         Put(p, None)
  PROVE  /\ IsFile(p) /\ CanRemove(p)
         /\ \A q \in Paths : IF Under(p, q) THEN fs'[q] = Leaves(w, q) ELSE fs'[q] = fs[q]
<1>1. /\ fs \in [Paths -> Things] /\ IsTree(fs) /\ IsTree(before) /\ fs[p] # Dir
      /\ fs' = [fs EXCEPT ![p] = None]
  BY OnWalkFacts DEF OnWalk, Put
<1>2. IsFile(p) /\ CanRemove(p)
  <2>1. fs[p] \in Things /\ fs[p] # None /\ fs[p] # Dir
    BY <1>1
  <2>2. fs[p].kind = "file"
    BY <2>1, ThingsDiffer DEF Things
  <2> QED BY <2>2 DEF IsFile, CanRemove
<1>3. ASSUME NEW q \in Paths, Under(p, q) PROVE fs'[q] = Leaves(w, q)
  <2>1. fs'[q] = None
    <3>1. CASE q = p
      BY <1>1, <3>1
    <3>2. CASE q # p
      BY <1>1, <1>3, <3>2, NothingBelow
    <3> QED BY <3>1, <3>2
  <2>2. before[q] # Dir
    <3>1. CASE q = p
      BY <3>1
    <3>2. CASE q # p
      BY <1>1, <1>3, <3>2, NothingBelow, ThingsDiffer
    <3> QED BY <3>1, <3>2
  <2> QED BY <1>1, <2>1, <2>2, LeavesNothing
<1>4. ASSUME NEW q \in Paths, ~Under(p, q) PROVE fs'[q] = fs[q]
  BY <1>1, <1>4, UnderSelf
<1> QED BY <1>2, <1>3, <1>4

\* A file can be removed.
LEMMA FileRemovable ==
  ASSUME NEW w, OnWalk(w), NEW p \in Paths, before[p] # None, before[p] # Dir, fs[p] = before[p]
  PROVE  IsFile(p) /\ CanRemove(p)
<1>1. fs[p] \in Things /\ fs[p] # None /\ fs[p] # Dir
  BY OnWalkFacts
<1>2. fs[p].kind = "file"
  BY <1>1, ThingsDiffer DEF Things
<1> QED BY <1>2 DEF IsFile, CanRemove

\* The directory that rmdir and deleteDirectory come back to is empty.
LEMMA LastRemovable ==
  ASSUME NEW w, OnWalk(w), pc[w] \notin Fresh, Todo(w) = <<>>, call[w].op # "deleteFiles"
  PROVE  /\ CanRmdir(Here(w))
         /\ Put(Here(w), None) =>
              \A p \in Paths : IF Under(Here(w), p) THEN fs'[p] = Leaves(w, p) ELSE fs'[p] = fs[p]
<1>1. /\ fs[Here(w)] = Dir /\ Here(w) \in Paths /\ IsTree(before) /\ fs \in [Paths -> Things]
      /\ \A p \in Paths : Under(Here(w), p) /\ p # Here(w) => fs[p] = Leaves(w, p)
  BY LastFacts, OnWalkFacts DEF OnWalk
<1>2. \A p \in Paths : Leaves(w, p) = None
  BY <1>1, LeavesNothing
<1>3. Entries(Here(w)) = {}
  <2> SUFFICES ASSUME NEW q \in Entries(Here(w)) PROVE FALSE
    OBVIOUS
  <2>1. q \in Paths \ {<<>>} /\ Parent(q) = Here(w) /\ fs[q] # None
    BY DEF Entries
  <2>2. Under(Here(w), q) /\ q # Here(w)
    BY <1>1, <2>1, ParentUnder, NotBelow, UnderSelf
  <2> QED BY <1>1, <1>2, <2>1, <2>2
<1>4. CanRmdir(Here(w))
  BY <1>1, <1>3 DEF CanRmdir, IsDir
<1>5. ASSUME Put(Here(w), None), NEW p \in Paths
      PROVE  IF Under(Here(w), p) THEN fs'[p] = Leaves(w, p) ELSE fs'[p] = fs[p]
  <2>1. fs' = [fs EXCEPT ![Here(w)] = None]
    BY <1>5 DEF Put
  <2>2. CASE p = Here(w)
    BY <1>1, <1>2, <2>1, <2>2, UnderSelf
  <2>3. CASE p # Here(w)
    BY <1>1, <2>1, <2>3
  <2> QED BY <2>2, <2>3
<1> QED BY <1>4, <1>5

\* The steps of rmdir.
LEMMA RmdirWalks ==
  ASSUME NEW w, OnWalk(w), call[w].op = "rmdir", Step(w)
  PROVE  Walked(w)
<1>1. /\ LocalInv /\ w \in Procs /\ {"readdir"} \subseteq Fresh /\ "rmdir" \notin Fresh \cup {"done", "delete"}
  BY DEF OnWalk, Fresh
<1>2. CASE Readdir(w)
  <2>1. pc[w] = "readdir" /\ pc[w] \in Fresh
    BY <1>1, <1>2, LabelOf
  <2>2. before[Here(w)] = Dir /\ fs[Here(w)] = Dir
    BY <2>1, FreshFacts
  <2>3. UNCHANGED fs /\ \E list \in Listings(Here(w)) : SetTodo(w, list, "rmdir")
    BY <1>2, <2>2 DEF Readdir, IsDir
  <2> QED BY <1>1, <2>1, <2>2, <2>3, WalkedList
<1>3. CASE RmdirEntry(w)
  <2> DEFINE e == Next1(w).path
  <2>1. pc[w] \notin Fresh /\ Todo(w) # <<>>
    BY <1>1, <1>3, LabelOf DEF RmdirEntry
  <2>2. /\ e \in Paths /\ before[e] # None /\ (Next1(w).dir <=> before[e] = Dir) /\ fs[e] = before[e]
    BY <2>1, NextEntryFacts
  <2>3. CASE before[e] = Dir
    <3>1. Enter(w, e, "readdir") /\ UNCHANGED fs
      BY <1>3, <2>2, <2>3 DEF RmdirEntry
    <3> QED BY <1>1, <2>1, <2>3, <3>1, WalkedEnter
  <2>4. CASE before[e] # Dir
    <3>1. CanRemove(e)
      BY <2>2, <2>4, FileRemovable
    <3>2. Put(e, None) /\ SetTodo(w, Tail(Todo(w)), "rmdir")
      BY <1>3, <2>2, <2>4, <3>1 DEF RmdirEntry, Skip
    <3>3. \A p \in Paths : IF Under(e, p) THEN fs'[p] = Leaves(w, p) ELSE fs'[p] = fs[p]
      BY <2>2, <2>4, <3>2, RemovedEntry
    <3> QED BY <1>1, <2>1, <3>2, <3>3, WalkedSkip
  <2> QED BY <2>3, <2>4
<1>4. CASE RmdirSelf(w)
  <2>1. pc[w] \notin Fresh /\ Todo(w) = <<>>
    BY <1>1, <1>4, LabelOf DEF RmdirSelf
  <2>2. CanRmdir(Here(w))
    BY <2>1, LastRemovable
  <2>3. Put(Here(w), None) /\ Return(w, "true", "rmdir")
    BY <1>4, <2>2 DEF RmdirSelf
  <2>4. \A p \in Paths : IF Under(Here(w), p) THEN fs'[p] = Leaves(w, p) ELSE fs'[p] = fs[p]
    BY <2>1, <2>3, LastRemovable
  <2> QED BY <1>1, <2>1, <2>3, <2>4, WalkedReturn
<1> QED BY <1>1, <1>2, <1>3, <1>4, StepsOf

\* The steps of deleteDirectory.
LEMMA DeleteDirectoryWalks ==
  ASSUME NEW w, OnWalk(w), call[w].op = "deleteDirectory", Step(w)
  PROVE  Walked(w)
<1>1. /\ LocalInv /\ w \in Procs /\ {"notExists", "walk"} \subseteq Fresh
      /\ "entries" \notin Fresh \cup {"done", "delete"} /\ "done" \notin Fresh
      /\ IsTree(before) /\ fs \in [Paths -> Things]
  BY OnWalkFacts DEF OnWalk, Fresh
<1>2. CASE NotExists(w)
  <2>1. pc[w] = "notExists" /\ pc[w] \in Fresh
    BY <1>1, <1>2, LabelOf
  <2>2. fs[Here(w)] # None
    BY <2>1, FreshFacts
  <2>3. UNCHANGED fs /\ Goto(w, "walk")
    BY <1>2, <2>2 DEF NotExists
  <2>4. pc'[w] = "walk" /\ stack'[w] = stack[w] /\ result'[w] = result[w]
    BY <1>1, <2>3, GotoIs
  <2>5. Walk(w, stack[w], "notExists", fs) /\ result[w] # "throw"
    BY <2>1, OnWalkFacts
  <2>6. Walk(w, stack[w], "walk", fs)
    BY <2>5 DEF Walk, AtPlace, Ahead, Fresh
  <2> QED BY <2>3, <2>4, <2>5, <2>6 DEF Walked
<1>3. CASE Visit(w)
  <2>1. pc[w] = "walk" /\ pc[w] \in Fresh
    BY <1>1, <1>3, LabelOf
  <2>2. /\ before[Here(w)] # None /\ fs[Here(w)] = before[Here(w)] /\ Here(w) \in Paths
        /\ Todo(w) = <<>>
    BY <2>1, FreshFacts, OnWalkFacts
  <2>3. CASE before[Here(w)] = Dir
    <3>1. UNCHANGED fs /\ \E list \in Listings(Here(w)) : SetTodo(w, list, "entries")
      BY <1>3, <2>2, <2>3, ThingsDiffer DEF Visit, IsDir, IsFile
    <3> QED BY <1>1, <2>1, <2>3, <3>1, WalkedList
  <2>4. CASE before[Here(w)] # Dir
    <3>1. Put(Here(w), None) /\ Return(w, "void", "entries")
      BY <1>3, <2>2, <2>4 DEF Visit, IsDir
    <3>2. \A p \in Paths : IF Under(Here(w), p) THEN fs'[p] = Leaves(w, p) ELSE fs'[p] = fs[p]
      BY <2>2, <2>4, <3>1, RemovedEntry
    <3> QED BY <1>1, <2>2, <3>1, <3>2, WalkedReturn
  <2> QED BY <2>3, <2>4
<1>4. CASE VisitEntry(w)
  <2>1. pc[w] \notin Fresh /\ Todo(w) # <<>>
    <3>1. pc[w] = "entries" /\ Todo(w) # <<>>
      BY <1>4, LabelOf DEF VisitEntry
    <3> QED BY <1>1, <3>1
  <2>2. Enter(w, Next1(w).path, "walk") /\ UNCHANGED fs
    BY <1>4 DEF VisitEntry
  <2> QED BY <1>1, <2>1, <2>2, WalkedEnter
<1>5. CASE PostVisit(w)
  <2>1. pc[w] \notin Fresh /\ Todo(w) = <<>>
    <3>1. pc[w] = "entries" /\ Todo(w) = <<>>
      BY <1>5, LabelOf DEF PostVisit
    <3> QED BY <1>1, <3>1
  <2>2. CanRmdir(Here(w))
    BY <2>1, LastRemovable
  <2>3. Put(Here(w), None) /\ Return(w, "void", "entries")
    BY <1>5, <2>2 DEF PostVisit
  <2>4. \A p \in Paths : IF Under(Here(w), p) THEN fs'[p] = Leaves(w, p) ELSE fs'[p] = fs[p]
    BY <2>1, <2>3, LastRemovable
  <2> QED BY <1>1, <2>1, <2>3, <2>4, WalkedReturn
<1> QED BY <1>1, <1>2, <1>3, <1>4, <1>5, StepsOf

\* deleteFiles leaves a directory that contains nothing.
LEMMA LeftAsItWas ==
  ASSUME NEW w, OnWalk(w), pc[w] = "listFiles", call[w].op = "deleteFiles", Entries(Here(w)) = {},
         NEW p \in Paths, Under(Here(w), p)
  PROVE  fs[p] = Leaves(w, p)
<1>1. /\ pc[w] \in Fresh /\ Here(w) \in Paths /\ IsTree(fs) /\ IsTree(before)
  BY OnWalkFacts DEF Fresh, OnWalk
<1>2. /\ before[Here(w)] = Dir
      /\ \A q \in Paths : Under(Here(w), q) => fs[q] = before[q]
  BY <1>1, FreshFacts
<1>3. ASSUME NEW q \in Paths, Under(Here(w), q), q # Here(w) PROVE before[q] = None
  <2>1. PICK x \in Paths \ {<<>>} : Parent(x) = Here(w) /\ Under(x, q)
    BY <1>1, <1>3, EntryTowards
  <2>2. fs[x] = None
    BY <2>1 DEF Entries
  <2>3. fs[q] = None
    BY <1>1, <2>1, <2>2, NothingBelow, ThingsDiffer
  <2> QED BY <1>2, <1>3, <2>3
<1>4. CASE p = Here(w)
  <2>1. Kept(w, Here(w))
    BY <1>1, <1>2, <1>3, UnderSelf DEF Kept
  <2> QED BY <1>2, <1>4, <2>1 DEF Leaves
<1>5. CASE p # Here(w)
  <2>1. before[p] = None /\ fs[p] = None
    BY <1>2, <1>3, <1>5
  <2> QED BY <1>1, <2>1, LeavesNothing, ThingsDiffer
<1> QED BY <1>4, <1>5

\* A directory in which deleteFiles has left something stays, and no other.
LEMMA LastOfDeleteFiles ==
  ASSUME NEW w, OnWalk(w), pc[w] \notin Fresh, Todo(w) = <<>>, call[w].op = "deleteFiles",
         IF CanRemove(Here(w)) THEN Put(Here(w), None) ELSE UNCHANGED fs, NEW p \in Paths
  PROVE  IF Under(Here(w), p) THEN fs'[p] = Leaves(w, p) ELSE fs'[p] = fs[p]
<1> DEFINE d == Here(w)
<1>1. /\ fs[d] = Dir /\ d \in Paths /\ IsTree(before) /\ fs \in [Paths -> Things] /\ Entered(w, Top(w))
      /\ \A q \in Paths : Under(d, q) /\ q # d => fs[q] = Leaves(w, q)
  BY LastFacts, OnWalkFacts DEF OnWalk
<1>2. CanRemove(d) <=> Entries(d) = {}
  BY <1>1, ThingsDiffer DEF CanRemove, CanRmdir, IsFile, IsDir
<1>3. PICK x \in Paths \ {<<>>} : Parent(x) = d /\ before[x] # None
  BY <1>1 DEF Entered, Here
<1>4. ASSUME NEW q \in Paths \ {<<>>}, Parent(q) = d PROVE Under(d, q) /\ q # d
  BY <1>1, <1>4, ParentUnder, NotBelow, UnderSelf
<1>5. Entries(d) = {} => Leaves(w, d) = None
  <2> SUFFICES ASSUME Entries(d) = {}, Kept(w, d) PROVE FALSE
    BY DEF Leaves
  <2>1. PICK e \in Paths : /\ Under(d, e) /\ before[e] = Dir
                           /\ \A q \in Paths : Under(e, q) /\ q # e => before[q] = None
    BY DEF Kept
  <2>2. e # d
    BY <1>3, <1>4, <2>1
  <2>3. PICK q \in Paths \ {<<>>} : Parent(q) = d /\ Under(q, e)
    BY <1>1, <2>1, <2>2, EntryTowards
  <2>4. Kept(w, q)
    BY <2>1, <2>3 DEF Kept
  <2>5. fs[q] = Dir
    BY <1>1, <1>4, <2>3, <2>4 DEF Leaves
  <2> QED BY <2>3, <2>5, ThingsDiffer DEF Entries
<1>6. Entries(d) # {} => Leaves(w, d) = Dir
  <2> SUFFICES ASSUME NEW q \in Entries(d) PROVE Leaves(w, d) = Dir
    OBVIOUS
  <2>1. q \in Paths \ {<<>>} /\ Parent(q) = d /\ fs[q] # None
    BY DEF Entries
  <2>2. Kept(w, q)
    BY <1>1, <1>4, <2>1 DEF Leaves
  <2>3. Kept(w, d)
    BY <1>1, <1>4, <2>1, <2>2, UnderTransitive DEF Kept
  <2> QED BY <2>3 DEF Leaves
<1>7. CASE p = d
  <2>1. fs'[d] = Leaves(w, d)
    BY <1>1, <1>2, <1>5, <1>6 DEF Put
  <2> QED BY <1>1, <1>7, <2>1, UnderSelf
<1>8. CASE p # d
  <2>1. fs'[p] = fs[p]
    BY <1>1, <1>8 DEF Put
  <2> QED BY <1>1, <1>8, <2>1
<1> QED BY <1>7, <1>8

\* The steps of deleteFiles.
LEMMA DeleteFilesWalks ==
  ASSUME NEW w, OnWalk(w), call[w].op = "deleteFiles", Step(w)
  PROVE  Walked(w)
<1>1. /\ LocalInv /\ w \in Procs /\ {"listFiles"} \subseteq Fresh /\ "delete" \notin Fresh
      /\ "test" \notin Fresh \cup {"done", "delete"} /\ fs \in [Paths -> Things]
  BY OnWalkFacts DEF OnWalk, Fresh
<1>2. CASE ListFiles(w)
  <2>1. pc[w] = "listFiles" /\ pc[w] \in Fresh
    BY <1>1, <1>2, LabelOf
  <2>2. before[Here(w)] = Dir /\ fs[Here(w)] = Dir /\ Todo(w) = <<>>
    BY <2>1, FreshFacts
  <2>3. CASE Entries(Here(w)) = {}
    <3>1. UNCHANGED fs /\ Return(w, "void", "test")
      BY <1>2, <2>2, <2>3 DEF ListFiles, IsDir
    <3>2. \A p \in Paths : IF Under(Here(w), p) THEN fs'[p] = Leaves(w, p) ELSE fs'[p] = fs[p]
      BY <2>1, <2>3, <3>1, LeftAsItWas
    <3> QED BY <1>1, <2>2, <3>1, <3>2, WalkedReturn
  <2>4. CASE Entries(Here(w)) # {}
    <3>1. UNCHANGED fs /\ \E list \in Listings(Here(w)) : SetTodo(w, list, "test")
      BY <1>2, <2>2, <2>4 DEF ListFiles, IsDir
    <3> QED BY <1>1, <2>1, <2>2, <2>4, <3>1, WalkedList
  <2> QED BY <2>3, <2>4
<1>3. CASE DeleteTest(w)
  <2> DEFINE e == Next1(w).path
  <2>1. pc[w] = "test" /\ pc[w] \notin Fresh /\ Todo(w) # <<>> /\ UNCHANGED fs
    BY <1>1, <1>3, LabelOf DEF DeleteTest
  <2>2. /\ e \in Paths /\ before[e] # None /\ fs[e] = before[e]
    BY <2>1, NextEntryFacts
  <2>3. CASE before[e] = Dir
    <3>1. Enter(w, e, "listFiles")
      BY <1>3, <2>2, <2>3, ThingsDiffer DEF DeleteTest, IsFile, IsDir
    <3> QED BY <1>1, <2>1, <2>3, <3>1, WalkedEnter
  <2>4. CASE before[e] # Dir
    <3>1. Goto(w, "delete")
      BY <1>3, <2>2, <2>4, FileRemovable DEF DeleteTest
    <3>2. pc'[w] = "delete" /\ stack'[w] = stack[w] /\ result'[w] = result[w]
      BY <1>1, <3>1, GotoIs
    <3>3. Walk(w, stack[w], "test", fs) /\ result[w] # "throw"
      BY <2>1, OnWalkFacts
    <3>4. before[Head(Last(stack[w]).todo).path] # Dir
      BY <2>4 DEF Next1, Todo, Top
    <3>5. Walk(w, stack[w], "delete", fs)
      BY <3>3, <3>4 DEF Walk, AtPlace, Ahead, Fresh
    <3> QED BY <2>1, <3>2, <3>3, <3>5 DEF Walked
  <2> QED BY <2>3, <2>4
<1>4. CASE DeleteEntry(w)
  <2> DEFINE e == Next1(w).path
  <2>1. pc[w] = "delete" /\ pc[w] \notin Fresh /\ Todo(w) # <<>>
    BY <1>1, <1>4, LabelOf DEF LocalInv
  <2>2. /\ e \in Paths /\ before[e] # None /\ before[e] # Dir /\ fs[e] = before[e]
    BY <2>1, NextEntryFacts
  <2>3. Put(e, None) /\ SetTodo(w, Tail(Todo(w)), "test")
    BY <1>4, <2>2, FileRemovable DEF DeleteEntry, Skip
  <2>4. \A p \in Paths : IF Under(e, p) THEN fs'[p] = Leaves(w, p) ELSE fs'[p] = fs[p]
    BY <2>2, <2>3, RemovedEntry
  <2> QED BY <1>1, <2>1, <2>3, <2>4, WalkedSkip
<1>5. CASE DeleteSelf(w)
  <2>1. pc[w] \notin Fresh /\ Todo(w) = <<>>
    <3>1. pc[w] = "test" /\ Todo(w) = <<>>
      BY <1>5, LabelOf DEF DeleteSelf
    <3> QED BY <1>1, <3>1
  <2>2. /\ IF CanRemove(Here(w)) THEN Put(Here(w), None) ELSE UNCHANGED fs
        /\ Return(w, "void", "test")
    BY <1>5 DEF DeleteSelf
  <2>3. \A p \in Paths : IF Under(Here(w), p) THEN fs'[p] = Leaves(w, p) ELSE fs'[p] = fs[p]
    BY <2>1, <2>2, LastOfDeleteFiles, <1>5
  <2> QED BY <1>1, <2>1, <2>2, <2>3, WalkedReturn
<1> QED BY <1>1, <1>2, <1>3, <1>4, <1>5, StepsOf

LEMMA WalkStep ==
  ASSUME LocalInv, IsTree(fs), IsTree(before), WalkInv, NEW v \in Procs, Step(v)
  PROVE  WalkInv'
<1>1. /\ Alone(v) /\ call' = call /\ before' = before /\ pc[v] # "done"
  BY StepFacts
<1>2. ASSUME NEW w \in Procs, Walking(w) PROVE Walked(w)
  <2>1. CASE w = v
    <3>1. OnWalk(w)
      BY <1>1, <1>2, <2>1 DEF OnWalk
    <3>2. call[w].op \in {"rmdir", "deleteFiles", "deleteDirectory"}
      BY <1>2 DEF Walking, Removers
    <3> QED BY <2>1, <3>1, <3>2, RmdirWalks, DeleteFilesWalks, DeleteDirectoryWalks
  <2>2. CASE w # v
    <3>1. pc'[w] = pc[w] /\ stack'[w] = stack[w] /\ result'[w] = result[w]
      BY <1>1, <2>2 DEF Alone
    <3>2. \A p \in Paths : Under(call[w].path, p) => fs'[p] = fs[p]
      BY <1>2, <2>2, ApartStep DEF Walking
    <3>3. result[w] # "throw" /\ Walk(w, stack[w], pc[w], fs)
      BY <1>2 DEF WalkInv
    <3>4. Walk(w, stack[w], pc[w], fs')
      BY <3>2, <3>3 DEF Walk
    <3> QED BY <3>1, <3>3, <3>4 DEF Walked
  <2> QED BY <2>1, <2>2
<1>3. \A w \in Procs : Walking(w)' => Walking(w)
  BY <1>1 DEF Walking, Apart
<1>4. ASSUME NEW w \in Procs, Walked(w) PROVE (result[w] # "throw" /\ Walk(w, stack[w], pc[w], fs))'
  BY <1>1, <1>4 DEF Walked, Walk, FramesOK, Separate, Listed, Entered, AtPlace, Ahead, Covers, Leaves, Kept
<1> QED BY <1>2, <1>3, <1>4 DEF WalkInv

-----------------------------------------------------------------------------
(* What the calls do, all together.                                        *)

CallsInv == IsTree(before) /\ CreateInv /\ RootInv /\ MkdirInv /\ RmdirInv /\ WalkInv

LEMMA CallsNextInv ==
  ASSUME FileTreeInv, CallsInv, [Next]_vars
  PROVE  CallsInv'
<1>1. LocalInv /\ IsTree(fs)
  BY DEF FileTreeInv
<1>2. CASE UNCHANGED vars
  <2>1. IsTree(before)' /\ CreateInv' /\ RootInv'
    BY <1>2 DEF vars, CallsInv, IsTree, CreateInv, RootInv, Quiet, Only, IsDir, Here, Top
  <2>2. MkdirInv' /\ RmdirInv'
    BY <1>2 DEF vars, CallsInv, MkdirInv, MkdirsOfOne, InTime, RmdirInv, RmdirsOfOne, Quiet, Only, SamePath,
                IsDir, Here, Top
  <2>3. WalkInv'
    <3>1. call' = call /\ before' = before /\ fs' = fs /\ pc' = pc /\ stack' = stack /\ result' = result
      BY <1>2 DEF vars
    <3>2. \A w \in Procs : Walking(w)' => Walking(w)
      BY <3>1 DEF Walking, Apart
    <3>3. \A w \in Procs : Walking(w) => Walk(w, stack[w], pc[w], fs) /\ result[w] # "throw"
      BY DEF CallsInv, WalkInv
    <3>4. ASSUME NEW w \in Procs, Walking(w) PROVE Walked(w)
      BY <3>1, <3>3, <3>4 DEF Walked
    <3>5. ASSUME NEW w \in Procs, Walked(w) PROVE (result[w] # "throw" /\ Walk(w, stack[w], pc[w], fs))'
      BY <3>1, <3>5 DEF Walked, Walk, FramesOK, Separate, Listed, Entered, AtPlace, Ahead, Covers, Leaves, Kept
    <3> QED BY <3>2, <3>4, <3>5 DEF WalkInv
  <2> QED BY <2>1, <2>2, <2>3 DEF CallsInv
<1>3. ASSUME NEW v \in Procs, Step(v) PROVE CallsInv'
  <2>1. IsTree(before)'
    BY <1>1, <1>3, StepFacts DEF CallsInv, IsTree
  <2> QED BY <1>1, <1>3, <2>1, CreateStep, RootStep, MkdirStep, RmdirStep, WalkStep DEF CallsInv
<1> QED BY <1>2, <1>3 DEF Next

LEMMA CallsInitInv == Init => CallsInv
<1> SUFFICES ASSUME Init PROVE CallsInv
  OBVIOUS
<1>1. /\ call \in Calls /\ fs \in Trees /\ before = fs /\ IsTree(fs) /\ IsTree(before)
      /\ pc = [w \in Procs |-> Entry(call[w].op)]
      /\ stack = [w \in Procs |-> <<Frame(call[w].path)>>]
      /\ result = [w \in Procs |-> "none"]
  BY TreesAssumption DEF Init
<1>2. \A w \in Procs : /\ result[w] = "none" /\ pc[w] = Entry(call[w].op)
                       /\ stack[w] = <<Frame(call[w].path)>> /\ call[w].path \in Paths
  BY <1>1, CallFacts
<1>3. \A w \in Procs : Len(stack[w]) = 1 /\ stack[w][1] = Frame(call[w].path)
  BY <1>2
<1>4. \A w \in Procs : Top(w) = Frame(call[w].path) /\ Here(w) = call[w].path
  BY <1>3 DEF Top, Here, Last, Frame
<1>5. CreateInv
  <2>1. ASSUME NEW w \in Procs, Quiet(w)
        PROVE  /\ \A p \in Paths : Under(p, call[w].path) => fs[p] \in {None, Dir}
               /\ pc[w] # "mkdirs2"
    <3>1. pc[w] # "mkdirs2"
      BY <1>2, <2>1 DEF Entry, Quiet, Makers
    <3>2. ASSUME NEW p \in Paths, Under(p, call[w].path) PROVE fs[p] \in {None, Dir}
      <4>1. fs[p] \in Things /\ fs[p].kind # "file"
        BY <1>1, <2>1, <3>2 DEF Quiet, IsTree
      <4> QED BY <4>1, ThingsDiffer DEF Things
    <3> QED BY <3>1, <3>2
  <2> QED BY <1>2, <1>4, <2>1 DEF CreateInv
<1>6. RootInv
  <2>1. ASSUME NEW w \in Procs, NEW i \in 1 .. Len(stack[w]) - 1 PROVE FALSE
    <3>1. Len(stack[w]) = 1
      BY <1>3
    <3>2. i \in 1 .. 0
      BY <2>1, <3>1
    <3> QED BY <3>2
  <2> QED BY <2>1 DEF RootInv
<1>7. MkdirInv
  <2> SUFFICES ASSUME MkdirsOfOne
               PROVE  /\ \A w \in Procs : pc[w] # "make"
                      /\ \E v \in Procs : InTime(call[v].path, Here(v), pc[v], fs)
    BY <1>2 DEF MkdirInv
  <2>1. \A w \in Procs : pc[w] = "mkdir"
    BY <1>2 DEF MkdirsOfOne, Only, Entry
  <2>2. PICK v \in Procs : TRUE
    BY ProcsAssumption
  <2>3. ASSUME NEW q \in Paths, Under(call[v].path, q), Under(q, call[v].path) PROVE q = call[v].path
    <3>1. Len(q) \in Nat /\ Len(call[v].path) \in Nat /\ Len(q) <= Len(call[v].path)
          /\ Len(call[v].path) <= Len(q)
      BY <1>2, <2>3, UnderIs, ParentFacts
    <3> QED BY <1>2, <2>3, <3>1, AboveOne
  <2>4. InTime(call[v].path, Here(v), pc[v], fs)
    BY <1>4, <2>1, <2>3 DEF InTime
  <2> QED BY <2>1, <2>4
<1>8. RmdirInv
  BY <1>1, <1>2, ThingsDiffer DEF RmdirInv, RmdirsOfOne
<1>9. WalkInv
  <2> SUFFICES ASSUME NEW w \in Procs, Walking(w) PROVE Walk(w, stack[w], pc[w], fs)
    BY <1>2 DEF WalkInv
  <2> DEFINE s == stack[w]  f == Frame(call[w].path)
  <2>1. pc[w] \in Fresh \ {"walk"} /\ pc[w] # "done" /\ pc[w] # "delete"
    BY <1>2 DEF Walking, Removers, Entry, Fresh
  <2>2. Last(s) = f /\ Len(s) = 1 /\ s[1] = f /\ f.path = call[w].path /\ f.todo = <<>>
    BY <1>3 DEF Last, Frame
  <2> HIDE DEF s, f
  <2>3. Len(<<>>) = 0
    BY EmptySeq
  <2>4. Listed(f)
    BY <2>2, <2>3 DEF Listed
  <2>5. FramesOK(w, s)
    BY <2>2, <2>4 DEF FramesOK, Separate
  <2>6. AtPlace(w, f, pc[w])
    BY <2>1, <2>2, ThingsDiffer DEF AtPlace, Walking
  <2>7. \A p \in Paths : Under(call[w].path, p) => Ahead(s, pc[w], p)
    BY <2>1, <2>2 DEF Ahead
  <2>8. Walk(w, s, pc[w], fs)
    BY <1>1, <2>1, <2>2, <2>5, <2>6, <2>7 DEF Walk
  <2> QED BY <2>8 DEF s
<1> QED BY <1>1, <1>5, <1>6, <1>7, <1>8, <1>9 DEF CallsInv

LEMMA CallsSpecInv == Spec => [](FileTreeInv /\ CallsInv)
<1>1. Init => CallsInv
  BY CallsInitInv
<1>2. FileTreeInv /\ CallsInv /\ [Next]_vars => CallsInv'
  BY CallsNextInv
<1> QED BY <1>1, <1>2, FileTreeSpecInv, PTL DEF Spec
-----------------------------------------------------------------------------
(* The theorems.                                                           *)

\* TypeOK: whatever system calls interleave, what there is is in a directory, and each
\* frame of a recursion is next to the one before it (path.cc:75-104,
\* FileUtil.java:144-291).
THEOREM TreeTheorem == Spec => []TypeOK
<1>1. ASSUME FileTreeInv PROVE TypeOK
  <2>1. ASSUME NEW w \in Procs, NEW i \in DOMAIN stack[w]
        PROVE  /\ stack[w][i].path \in Paths
               /\ i > 1 => Parent(stack[w][i].path) = stack[w][i - 1].path
                           \/ Parent(stack[w][i - 1].path) = stack[w][i].path
    <3>1. Good(call[w], stack[w]) /\ stack[w] \in Seq(FrameSet)
      BY <1>1 DEF FileTreeInv, LocalInv
    <3>2. Len(stack[w]) \in Nat /\ i \in 1 .. Len(stack[w]) /\ stack[w][i] \in FrameSet
      BY <3>1, LenProperties, ElementOfSeq
    <3>3. i > 1 => i \in 2 .. Len(stack[w])
      BY <3>2
    <3>4. i > 1 => Follows(call[w], stack[w][i - 1].path, stack[w][i].path)
      BY <3>1, <3>3 DEF Good
    <3> QED BY <3>2, <3>4 DEF Follows, FrameSet
  <2> QED BY <1>1, <2>1 DEF FileTreeInv, LocalInv, TypeOK
<1> QED BY <1>1, FileTreeSpecInv, PTL

\* MovedFileKept: a file that moveFile moves is always at its source or its target, unless
\* another call removes or moves there; and what it moves is a file still, unless a call
\* makes a directory where files are moved from (FileUtil.java:170-184).
THEOREM MovedTheorem == Spec => []MovedFileKept
<1>1. FileTreeInv => FileSomewhere
  <2> SUFFICES ASSUME FileTreeInv, NEW w \in Procs, call[w].op = "moveFile",
                      before[call[w].path] = File(call[w].path)
               PROVE  \/ \E p \in {call[w].path, call[w].tar} : fs[p] = File(call[w].path)
                      \/ \E v \in Procs \ {w} : \E p \in {call[w].path, call[w].tar} :
                           IF call[v].op = "moveFile" THEN p \in {call[v].path, call[v].tar}
                           ELSE call[v].op \notin Makers /\ Under(call[v].path, p)
    BY DEF FileSomewhere
  <2>1. CASE Undisturbed(w)
    BY <2>1 DEF FileTreeInv, MoveInv
  <2>2. CASE ~Undisturbed(w)
    BY <2>2 DEF Undisturbed, Removers, Makers
  <2> QED BY <2>1, <2>2
<1>2. SourceInv => SourceStaysFile
  BY DEF SourceInv, SourceStaysFile, Moving, IsDir
<1> QED BY <1>1, <1>2, SourceSpecInv, PTL DEF MovedFileKept

\* CallsSucceed: of calls that make one directory one says so, of calls that remove one at
\* most one; createDirectory makes its directory, and removals nobody disturbs remove all
\* (path.cc:70-104, FileUtil.java:144-149, 252-291).
THEOREM CallsTheorem == Spec => []CallsSucceed
<1>1. FileTreeInv /\ CallsInv => CallsSucceed
  <2> SUFFICES ASSUME FileTreeInv, CallsInv PROVE CallsSucceed
    OBVIOUS
  <2>1. SomeMkdirSucceeds
    <3> SUFFICES ASSUME Only({"mkdir"}), SamePath, Ended,
                        \A w \in Procs, p \in Paths : Under(p, call[w].path) => before[p] \in {None, Dir}
                 PROVE  \E w \in Procs : result[w] = "true" /\ IsDir(call[w].path)
      BY DEF SomeMkdirSucceeds
    <3>1. ASSUME NEW w \in Procs PROVE Quiet(w)
      <4>1. Only(Makers) /\ call[w].op \in Makers
        BY DEF Only, Makers
      <4>2. \A p \in Paths : Under(p, call[w].path) => before[p].kind # "file"
        BY <3>1 DEF None, Dir
      <4> QED BY <4>1, <4>2 DEF Quiet
    <3>2. MkdirsOfOne
      BY <3>1 DEF MkdirsOfOne
    <3>3. PICK v \in Procs : result[v] = "true" \/ InTime(call[v].path, Here(v), pc[v], fs)
      BY <3>2 DEF CallsInv, MkdirInv
    <3>4. result[v] = "true"
      BY <3>3 DEF Ended, InTime
    <3> QED BY <3>2, <3>4 DEF CallsInv, MkdirInv
  <2>2. OneRmdirSucceeds
    BY DEF OneRmdirSucceeds, CallsInv, RmdirInv, RmdirsOfOne
  <2>3. CreateDirectoryCreates
    <3> SUFFICES ASSUME NEW w \in Procs, Only(Makers), call[w].op = "createDirectory", result[w] = "void",
                        \A p \in Paths : Under(p, call[w].path) => before[p].kind # "file"
                 PROVE  IsDir(call[w].path)
      BY DEF CreateDirectoryCreates
    <3>1. Quiet(w)
      BY DEF Quiet, Makers
    <3> QED BY <3>1 DEF CallsInv, CreateInv
  <2>4. RemovesAll
    <3> SUFFICES ASSUME NEW w \in Procs, call[w].op \in Removers, before[call[w].path] = Dir, Apart(w),
                        pc[w] = "done"
                 PROVE  /\ result[w] # "throw"
                        /\ \A p \in Paths : Under(call[w].path, p) => fs[p] = IF Kept(w, p) THEN Dir ELSE None
      BY DEF RemovesAll
    <3>1. result[w] # "throw" /\ Walk(w, stack[w], "done", fs)
      BY DEF CallsInv, WalkInv, Walking
    <3>2. stack[w] = <<>>
      BY <3>1 DEF Walk
    <3>3. \A p \in Paths : ~Ahead(<<>>, "done", p)
      <4>1. Len(<<>>) = 0 /\ "done" \notin Fresh
        BY EmptySeq DEF Fresh
      <4> QED BY <4>1 DEF Ahead
    <3> QED BY <3>1, <3>2, <3>3 DEF Walk, Leaves
  <2> QED BY <2>1, <2>2, <2>3, <2>4 DEF CallsSucceed
<1> QED BY <1>1, CallsSpecInv, PTL
=============================================================================
