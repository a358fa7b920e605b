--------------------------- MODULE GoSamplesProofs ---------------------------
(***************************************************************************)
(* The samples of GoSamples for any number of rounds and any capacity: the *)
(* channels work as Go's, nobody sends on a closed channel, and each test  *)
(* has seen all when it returns.                                           *)
(***************************************************************************)
EXTENDS GoSamples, FiniteSetTheorems, SequenceTheorems, NaturalsInduction, TLAPS

Locals == [at : Nat, v : Int, ok : BOOLEAN]

\* The channels of contexts are only ever closed.
NeverSent == {"done", "parent", "child"}
CommCases == {c \in [dir : {"send", "recv"}, ch : Channels, v : Int, next : Locals] :
                c.dir = "send" => c.ch \notin NeverSent}

\* A statement of a goroutine among those of gs.  No communication both sends to a channel and
\* receives from it.
StatementOK(st, gs) ==
  \/ /\ st.op = "comm" /\ st.arg \subseteq CommCases /\ st.next \in Locals \cup {Block}
     /\ \A c, d \in st.arg : c.ch = d.ch => c.dir = d.dir
  \/ st.op = "close" /\ st.arg \subseteq Channels /\ st.next \in Locals
  \/ st.op = "go" /\ st.arg \subseteq gs /\ st.next \in Locals
  \/ st.op \in {"wait", "wgDone"} /\ st.next \in Locals
  \/ st.op = "stop"

\* The goroutines that main starts.
Crew ==
  CASE sample = "ChannelWithGoroutine" -> {"g1", "g2", "g3", "g4"}
    [] sample \in {"ChannelRaceInSelect", "CancelContextM"} -> {"g1", "g2", "g3"}
    [] sample \in {"SelectDefault", "SelectFor"} -> {"g1", "g2"}
    [] OTHER -> {"g1"}

-----------------------------------------------------------------------------
(* The programs.                                                           *)

\* The states of a goroutine are closed under its steps.
LEMMA StatesOK ==
  ASSUME NEW s \in Locals, NEW k \in Nat
  PROVE  At(s, k) \in Locals /\ Inc(s) \in Locals /\ Inc(s) = [s EXCEPT !.at = s.at + 1]
  BY DEF Locals, At, Inc

\* The statements of the samples are statements as StatementOK wants them: this lemma and the next six.
LEMMA SendOK ==
  ASSUME NEW ch \in Channels \ NeverSent, NEW v \in Int, NEW n \in Locals, NEW gs
  PROVE  StatementOK(Send(ch, v, n), gs)
<1>1. SndCase(ch, v, n) \in CommCases
  BY DEF SndCase, CommCases
<1> QED BY <1>1 DEF Send, Select, SelectDefault, Stmt, StatementOK

LEMMA ReceiveOK ==
  ASSUME NEW ch \in Channels, NEW n \in Locals, NEW gs
  PROVE  StatementOK(Receive(ch, n), gs)
<1>1. RcvCase(ch, n) \in CommCases
  BY DEF RcvCase, CommCases
<1> QED BY <1>1 DEF Receive, Select, SelectDefault, Stmt, StatementOK

LEMMA SelectOK ==
  ASSUME NEW cases, \A c \in cases : c \in CommCases, NEW n \in Locals, NEW gs,
         \A c, d \in cases : c.ch = d.ch => c.dir = d.dir
  PROVE  StatementOK(SelectDefault(cases, n), gs) /\ StatementOK(Select(cases), gs)
  BY DEF Select, SelectDefault, Stmt, StatementOK

LEMMA PairOK ==
  ASSUME NEW c \in CommCases, NEW d \in CommCases, c.ch # d.ch, NEW n \in Locals, NEW gs
  PROVE  StatementOK(SelectDefault({c, d}, n), gs) /\ StatementOK(Select({c, d}), gs)
  BY SelectOK

LEMMA OneOK ==
  ASSUME NEW c \in CommCases, NEW n \in Locals, NEW gs
  PROVE  StatementOK(SelectDefault({c}, n), gs)
  BY DEF SelectDefault, Stmt, StatementOK

LEMMA CasesOK ==
  ASSUME NEW ch \in Channels, NEW v \in Int, NEW n \in Locals
  PROVE  /\ ch \notin NeverSent => SndCase(ch, v, n) \in CommCases
         /\ SndCase(ch, v, n).ch = ch /\ SndCase(ch, v, n).dir = "send"
         /\ RcvCase(ch, n) \in CommCases /\ RcvCase(ch, n).ch = ch /\ RcvCase(ch, n).dir = "recv"
  BY DEF SndCase, RcvCase, CommCases

LEMMA OthersOK ==
  ASSUME NEW n \in Locals, NEW gs, NEW chs \in SUBSET Channels, NEW hs \in SUBSET gs
  PROVE  /\ StatementOK(Close(chs, n), gs) /\ StatementOK(GoAll(hs, n), gs) /\ StatementOK(Wait(n), gs)
         /\ StatementOK(Done(n), gs) /\ StatementOK(Stop, gs)
  BY DEF Close, GoAll, Wait, Done, Stop, Stmt, StatementOK

\* Every statement of the tests of channel_test.go is one, and starts only goroutines of the sample.
LEMMA ChannelProgramsOK ==
  ASSUME NEW s \in Locals, NEW gs, NEW g
  PROVE  /\ "g1" \in gs /\ g \in {"main", "g1"} => StatementOK(ChannelSize(g, s), gs)
         /\ "g1" \in gs => /\ StatementOK(ChannelPop(g, s), gs)
                           /\ StatementOK(ChannelPopForRange(g, s), gs)
                           /\ StatementOK(ChannelForSelect(g, s), gs)
                           /\ StatementOK(ChannelRangeAndHidenSize(g, s), gs)
                           /\ StatementOK(ChannelClose(g, s), gs)
         /\ {"g1", "g2", "g3", "g4"} \subseteq gs => StatementOK(ChannelWithGoroutine(g, s), gs)
         /\ {"g1", "g2", "g3"} \subseteq gs => StatementOK(ChannelRaceInSelect(g, s), gs)
<1>1. /\ {"ch", "ch1", "ch2", "done"} \subseteq Channels /\ s.at \in Nat /\ s.at \in Int /\ Many \in Nat
      /\ At(s, 0) \in Locals /\ At(s, 2) \in Locals /\ Inc(s) \in Locals /\ 1 \in Int
      /\ {"ch", "ch1", "ch2"} \subseteq Channels \ NeverSent
  BY ManyAssumption, StatesOK DEF Channels, Contexts, NeverSent, Locals
<1>2. "g1" \in gs /\ g \in {"main", "g1"} => StatementOK(ChannelSize(g, s), gs)
  BY <1>1, SendOK, ReceiveOK, OthersOK DEF ChannelSize
<1>3. "g1" \in gs => StatementOK(ChannelPop(g, s), gs)
  BY <1>1, SendOK, ReceiveOK, OthersOK DEF ChannelPop
<1>4. "g1" \in gs => StatementOK(ChannelPopForRange(g, s), gs)
  BY <1>1, SendOK, ReceiveOK, OthersOK DEF ChannelPopForRange
<1>5. "g1" \in gs => StatementOK(ChannelForSelect(g, s), gs)
  <2>1. StatementOK(Select({RcvCase("ch1", s), RcvCase("ch2", s)}), gs)
    <3>1. /\ RcvCase("ch1", s) \in CommCases /\ RcvCase("ch1", s).ch = "ch1"
          /\ RcvCase("ch2", s) \in CommCases /\ RcvCase("ch2", s).ch = "ch2"
      BY <1>1, CasesOK
    <3> QED BY <1>1, <3>1, PairOK
  <2> QED BY <1>1, <2>1, SendOK, OthersOK DEF ChannelForSelect
<1>6. "g1" \in gs => StatementOK(ChannelRangeAndHidenSize(g, s), gs)
  <2>1. StatementOK(RangeReader(s), gs)
    BY <1>1, ReceiveOK, OthersOK DEF RangeReader
  <2> QED BY <1>1, <2>1, SendOK, OthersOK DEF ChannelRangeAndHidenSize
<1>7. "g1" \in gs => StatementOK(ChannelClose(g, s), gs)
  BY <1>1, SendOK, ReceiveOK, OthersOK DEF ChannelClose
<1>8. {"g1", "g2", "g3", "g4"} \subseteq gs => StatementOK(ChannelWithGoroutine(g, s), gs)
  BY <1>1, SendOK, ReceiveOK, OthersOK DEF ChannelWithGoroutine
<1>9. {"g1", "g2", "g3"} \subseteq gs => StatementOK(ChannelRaceInSelect(g, s), gs)
  <2>1. StatementOK(Select({RcvCase("ch1", Inc(s)), RcvCase("ch2", Inc(s))}), gs)
    <3>1. /\ RcvCase("ch1", Inc(s)) \in CommCases /\ RcvCase("ch1", Inc(s)).ch = "ch1"
          /\ RcvCase("ch2", Inc(s)) \in CommCases /\ RcvCase("ch2", Inc(s)).ch = "ch2"
      BY <1>1, CasesOK
    <3> QED BY <1>1, <3>1, PairOK
  <2>2. ASSUME NEW ch \in {"ch1", "ch2"}
        PROVE  StatementOK(Select({RcvCase("done", Inc(s)), SndCase(ch, 1, s)}), gs)
    <3>1. /\ RcvCase("done", Inc(s)) \in CommCases /\ RcvCase("done", Inc(s)).ch = "done"
          /\ SndCase(ch, 1, s) \in CommCases /\ SndCase(ch, 1, s).ch = ch
      BY <1>1, CasesOK
    <3> QED BY <1>1, <3>1, PairOK
  <2> QED BY <1>1, <2>1, <2>2, OthersOK DEF ChannelRaceInSelect
<1> QED BY <1>2, <1>3, <1>4, <1>5, <1>6, <1>7, <1>8, <1>9

\* The same of the tests with contexts.
LEMMA ContextProgramsOK ==
  ASSUME NEW s \in Locals, NEW gs, NEW g
  PROVE  /\ \A hs : hs \subseteq gs => StatementOK(CancelContext(hs, g, s), gs)
         /\ "g1" \in gs => /\ StatementOK(TimeoutContext(g, s), gs)
                           /\ StatementOK(CancelContextCancelParent(g, s), gs)
                           /\ StatementOK(CancelContextCancelChild(g, s), gs)
                           /\ StatementOK(DoRepeatedJob(g, s), gs)
                           /\ StatementOK(DoBlockingJob(g, s), gs)
<1>1. /\ {"printCh", "done", "parent", "child"} \subseteq Channels /\ s.at \in Nat /\ s.at \in Int
      /\ At(s, 1) \in Locals /\ At(s, 2) \in Locals /\ Inc(s) \in Locals
      /\ "printCh" \in Channels \ NeverSent
  BY StatesOK DEF Channels, Contexts, NeverSent, Locals
<1>2. StatementOK(BlockingFnA(s), gs)
  <2>1. StatementOK(SelectDefault({RcvCase("done", Inc(s)), RcvCase("printCh", s)}, s), gs)
    <3>1. /\ RcvCase("done", Inc(s)) \in CommCases /\ RcvCase("done", Inc(s)).ch = "done"
          /\ RcvCase("printCh", s) \in CommCases /\ RcvCase("printCh", s).ch = "printCh"
      BY <1>1, CasesOK
    <3> QED BY <3>1, PairOK
  <2> QED BY <2>1, OthersOK DEF BlockingFnA
<1>3. StatementOK(BlockingFnD(s), gs)
  <2>1. /\ RcvCase("parent", s) \in CommCases /\ RcvCase("parent", s).ch = "parent"
        /\ RcvCase("child", s) \in CommCases /\ RcvCase("child", s).ch = "child"
    BY <1>1, CasesOK
  <2> QED BY <2>1, PairOK DEF BlockingFnD
<1>4. \A hs : hs \subseteq gs => StatementOK(CancelContext(hs, g, s), gs)
  BY <1>1, <1>2, SendOK, OthersOK DEF CancelContext
<1>5. "g1" \in gs => StatementOK(TimeoutContext(g, s), gs)
  <2>1. StatementOK(Select({SndCase("printCh", s.at, Inc(s)), RcvCase("done", Inc(s))}), gs)
    <3>1. /\ RcvCase("done", Inc(s)) \in CommCases /\ RcvCase("done", Inc(s)).ch = "done"
          /\ SndCase("printCh", s.at, Inc(s)) \in CommCases
          /\ SndCase("printCh", s.at, Inc(s)).ch = "printCh"
      <4>1. "printCh" \in Channels /\ "done" \in Channels /\ "printCh" \notin NeverSent
        BY <1>1
      <4>2. /\ SndCase("printCh", s.at, Inc(s)) \in CommCases
            /\ SndCase("printCh", s.at, Inc(s)).ch = "printCh"
        BY <1>1, <4>1, CasesOK
      <4>3. RcvCase("done", Inc(s)) \in CommCases /\ RcvCase("done", Inc(s)).ch = "done"
        BY <1>1, <4>1, CasesOK
      <4> QED BY <4>2, <4>3
    <3> QED BY <3>1, PairOK
  <2> QED BY <1>1, <1>2, <2>1, OthersOK DEF TimeoutContext
<1>6. "g1" \in gs => /\ StatementOK(CancelContextCancelParent(g, s), gs)
                     /\ StatementOK(CancelContextCancelChild(g, s), gs)
  <2>1. ASSUME "g1" \in gs
        PROVE  /\ StatementOK(GoAll({"g1"}, Inc(s)), gs) /\ StatementOK(Stop, gs)
               /\ StatementOK(Close({"parent", "child"}, Inc(s)), gs)
               /\ StatementOK(Close({"child"}, Inc(s)), gs)
    <3>1. {"g1"} \in SUBSET gs /\ {"parent", "child"} \in SUBSET Channels /\ {"child"} \in SUBSET Channels
      BY <1>1, <2>1
    <3> QED BY <1>1, <3>1, OthersOK
  <2> QED BY <1>3, <2>1 DEF CancelContextCancelParent, CancelContextCancelChild
<1>7. "g1" \in gs => StatementOK(DoRepeatedJob(g, s), gs)
  <2>1. StatementOK(SelectDefault({RcvCase("done", Inc(s))}, s), gs)
    <3>1. RcvCase("done", Inc(s)) \in CommCases
      BY <1>1, CasesOK
    <3> QED BY <3>1, OneOK
  <2> QED BY <1>1, <2>1, OthersOK DEF DoRepeatedJob
<1>8. "g1" \in gs => StatementOK(DoBlockingJob(g, s), gs)
  <2>1. StatementOK(SelectDefault({RcvCase("done", At(s, 1))}, At(s, 2)), gs)
    <3>1. RcvCase("done", At(s, 1)) \in CommCases
      BY <1>1, CasesOK
    <3> QED BY <1>1, <3>1, OneOK
  <2> QED BY <1>7, <2>1, OthersOK DEF DoBlockingJob
<1> QED BY <1>4, <1>5, <1>6, <1>7, <1>8

\* The same of the tests of select_default_test.go.
LEMMA SelectProgramsOK ==
  ASSUME NEW s \in Locals, NEW gs, NEW g
  PROVE  /\ {"g1", "g2"} \subseteq gs => /\ StatementOK(SelectWithDefault(g, s), gs)
                                         /\ StatementOK(SelectFor(g, s), gs)
         /\ "g1" \in gs => StatementOK(SelectRace(g, s), gs)
<1>1. /\ {"ch1", "ch2"} \subseteq Channels /\ s.at \in Nat /\ s.at \in Int /\ Many \in Nat
      /\ Inc(s) \in Locals /\ 42 \in Int /\ 43 \in Int /\ ToBoth(g) \in {"ch1", "ch2"}
      /\ {"ch1", "ch2"} \subseteq Channels \ NeverSent
  BY ManyAssumption, StatesOK DEF Channels, Contexts, NeverSent, Locals, ToBoth
<1>2. /\ StatementOK(SelectDefault({RcvCase("ch1", Inc(s)), RcvCase("ch2", Inc(s))}, Inc(s)), gs)
      /\ StatementOK(Select({RcvCase("ch1", Inc(s)), RcvCase("ch2", Inc(s))}), gs)
      /\ StatementOK(SelectDefault({RcvCase("ch1", s), RcvCase("ch2", s)}, s), gs)
  <2>1. ASSUME NEW n \in Locals
        PROVE  RcvCase("ch1", n) \in CommCases /\ RcvCase("ch1", n).ch = "ch1"
               /\ RcvCase("ch2", n) \in CommCases /\ RcvCase("ch2", n).ch = "ch2"
    BY <1>1, CasesOK
  <2> QED BY <1>1, <2>1, PairOK
<1>3. {"g1", "g2"} \subseteq gs => StatementOK(SelectWithDefault(g, s), gs)
  BY <1>1, <1>2, SendOK, OthersOK DEF SelectWithDefault
<1>4. {"g1", "g2"} \subseteq gs => StatementOK(SelectFor(g, s), gs)
  BY <1>1, <1>2, SendOK, OthersOK DEF SelectFor
<1>5. "g1" \in gs => StatementOK(SelectRace(g, s), gs)
  BY <1>1, <1>2, SendOK, OthersOK DEF SelectRace
<1> QED BY <1>3, <1>4, <1>5

\* Whatever a goroutine executes next is a statement on channels and goroutines of its sample.
LEMMA CodeOK ==
  ASSUME sample \in Samples, NEW g \in {"main"} \cup Crew, local[g] \in Locals
  PROVE  StatementOK(Code(g), Crew)
<1> DEFINE s == local[g]
<1>1. /\ "g1" \in Crew
      /\ sample = "ChannelWithGoroutine" => {"g1", "g2", "g3", "g4"} \subseteq Crew
      /\ sample \in {"ChannelRaceInSelect", "CancelContextM"} => {"g1", "g2", "g3"} \subseteq Crew
      /\ sample \in {"SelectDefault", "SelectFor"} => {"g1", "g2"} \subseteq Crew
      /\ sample = "ChannelSize" => g \in {"main", "g1"}
  BY DEF Crew
<1> HIDE DEF s
<1>2. CASE sample \in {"ChannelSize", "ChannelPop", "ChannelPopForRange", "ChannelForSelect",
                       "ChannelRangeAndHidenSize", "ChannelWithGoroutine", "ChannelRaceInSelect",
                       "ChannelClose"}
  <2>1. s \in Locals
    BY DEF s
  <2>2. Code(g) = CASE sample = "ChannelSize" -> ChannelSize(g, s)
                    [] sample = "ChannelPop" -> ChannelPop(g, s)
                    [] sample = "ChannelPopForRange" -> ChannelPopForRange(g, s)
                    [] sample = "ChannelForSelect" -> ChannelForSelect(g, s)
                    [] sample = "ChannelRangeAndHidenSize" -> ChannelRangeAndHidenSize(g, s)
                    [] sample = "ChannelWithGoroutine" -> ChannelWithGoroutine(g, s)
                    [] sample = "ChannelRaceInSelect" -> ChannelRaceInSelect(g, s)
                    [] sample = "ChannelClose" -> ChannelClose(g, s)
    BY <1>2 DEF Code, s
  <2> QED BY <1>1, <1>2, <2>1, <2>2, ChannelProgramsOK
<1>3. CASE sample \in {"CancelContext", "CancelContextM", "TimeoutContext", "CancelContextCancelParent",
                       "CancelContextCancelChild", "DoRepeatedJob", "DoBlockingJob"}
  <2>1. s \in Locals
    BY DEF s
  <2>2. Code(g) = CASE sample = "CancelContext" -> CancelContext({"g1"}, g, s)
                    [] sample = "CancelContextM" -> CancelContext({"g1", "g2", "g3"}, g, s)
                    [] sample = "TimeoutContext" -> TimeoutContext(g, s)
                    [] sample = "CancelContextCancelParent" -> CancelContextCancelParent(g, s)
                    [] sample = "CancelContextCancelChild" -> CancelContextCancelChild(g, s)
                    [] sample = "DoRepeatedJob" -> DoRepeatedJob(g, s)
                    [] sample = "DoBlockingJob" -> DoBlockingJob(g, s)
    BY <1>3 DEF Code, s
  <2>3. /\ sample = "CancelContext" => StatementOK(CancelContext({"g1"}, g, s), Crew)
        /\ sample = "CancelContextM" => StatementOK(CancelContext({"g1", "g2", "g3"}, g, s), Crew)
        /\ StatementOK(TimeoutContext(g, s), Crew) /\ StatementOK(DoRepeatedJob(g, s), Crew)
        /\ StatementOK(CancelContextCancelParent(g, s), Crew) /\ StatementOK(DoBlockingJob(g, s), Crew)
        /\ StatementOK(CancelContextCancelChild(g, s), Crew)
    <3>1. {"g1"} \subseteq Crew
      BY <1>1
    <3> QED BY <1>1, <2>1, <3>1, ContextProgramsOK
  <2> QED BY <1>1, <1>3, <2>1, <2>2, <2>3
<1>4. CASE sample \in {"SelectDefault", "SelectFor", "SelectRace"}
  <2>1. s \in Locals
    BY DEF s
  <2>2. Code(g) = CASE sample = "SelectDefault" -> SelectWithDefault(g, s)
                    [] sample = "SelectFor" -> SelectFor(g, s)
                    [] sample = "SelectRace" -> SelectRace(g, s)
    BY <1>4 DEF Code, s
  <2> QED BY <1>1, <1>4, <2>1, <2>2, SelectProgramsOK
<1> QED BY <1>2, <1>3, <1>4, SamplesAssumption

-----------------------------------------------------------------------------
(* Who waits.                                                              *)

OrderOK ==
  /\ \A g, h \in parked : g # h => <<g, h>> \in earlier \/ <<h, g>> \in earlier
  /\ \A g, h \in parked : <<g, h>> \in earlier => <<h, g>> \notin earlier
  /\ \A f, g, h \in parked : <<f, g>> \in earlier /\ <<g, h>> \in earlier => <<f, h>> \in earlier
  /\ \A p \in earlier : p \in parked \X parked

GoType ==
  /\ sample \in Samples
  /\ local \in [Goroutines -> Locals]
  /\ "main" \in started /\ started \subseteq {"main"} \cup Crew
  /\ parked \subseteq started /\ OrderOK
  /\ buf \in [Channels -> Seq(Int)] /\ seen \in [Channels -> Seq(Int)]
  /\ closed \subseteq Channels /\ wg \in Int

\* h has c among the cases of its communication.
Offers(h, dir, c) == Code(h).op = "comm" /\ c \in Code(h).arg /\ c.dir = dir

\* A set of numbers has a least one.
LEMMA Least ==
  ASSUME NEW S \in SUBSET Nat, S # {}
  PROVE  \E x \in S : \A y \in S : x <= y
<1> DEFINE R == OpToRel(<, Nat)
<1>1. IsWellFoundedOn(R, Nat)
  BY NatLessThanWellFounded
<1>2. \A a, b \in Nat : a < b => <<a, b>> \in R
  BY DEF OpToRel
<1> HIDE DEF R
<1>3. PICK x \in S : \A y \in S : ~ (<<y, x>> \in R)
  BY <1>1, WFMin
<1>4. \A y \in S : y \in Nat /\ x \in Nat /\ ~ (y < x)
  BY <1>2, <1>3
<1> QED BY <1>4

LEMMA SomeGoroutines == started \subseteq {"main"} \cup Crew => started \subseteq Goroutines
  BY DEF Crew, Goroutines

\* Among some who wait there is one who came first.
LEMMA FirstIn ==
  ASSUME OrderOK, parked \subseteq Goroutines, NEW gs \in SUBSET parked, gs # {}
  PROVE  First(gs) \in gs
<1> DEFINE Before(g) == {h \in gs : <<h, g>> \in earlier}
           N == {Cardinality(Before(g)) : g \in gs}
<1>1. IsFiniteSet(gs)
  <2>1. IsFiniteSet(Goroutines)
    <3> DEFINE A == {"main"}  B == A \cup {"g1"}  C == B \cup {"g2"}  D == C \cup {"g3"}
    <3>0. IsFiniteSet(A)
      BY FS_Singleton
    <3>1. IsFiniteSet(B)
      BY <3>0, FS_AddElement
    <3>2. IsFiniteSet(C)
      BY <3>1, FS_AddElement
    <3>3. IsFiniteSet(D)
      BY <3>2, FS_AddElement
    <3>4. IsFiniteSet(D \cup {"g4"})
      BY <3>3, FS_AddElement
    <3>5. Goroutines = D \cup {"g4"}
      BY DEF Goroutines
    <3> QED BY <3>4, <3>5
  <2> QED BY <2>1, FS_Subset
<1>2. \A g \in gs : IsFiniteSet(Before(g)) /\ Cardinality(Before(g)) \in Nat
  BY <1>1, FS_Subset, FS_CardinalityType
<1>3. N \in SUBSET Nat /\ N # {}
  BY <1>2
<1>4. PICK g \in gs : \A h \in gs : Cardinality(Before(g)) <= Cardinality(Before(h))
  <2>1. PICK n \in N : \A m \in N : n <= m
    BY <1>3, Least
  <2>2. PICK g \in gs : n = Cardinality(Before(g))
    BY <2>1
  <2>3. \A h \in gs : Cardinality(Before(h)) \in N
    OBVIOUS
  <2> HIDE DEF N, Before
  <2> QED BY <2>1, <2>2, <2>3
<1>5. ASSUME NEW h \in gs, h # g, <<g, h>> \notin earlier PROVE FALSE
  <2>1. <<h, g>> \in earlier
    BY <1>5 DEF OrderOK
  <2>2. h \in Before(g) /\ h \notin Before(h)
    BY <1>5, <2>1 DEF OrderOK
  <2>3. Before(h) \subseteq Before(g)
    BY <1>5, <2>1 DEF OrderOK
  <2>4. Before(h) # Before(g)
    BY <2>2
  <2>5. Cardinality(Before(h)) < Cardinality(Before(g))
    <3> HIDE DEF Before
    <3>1. Cardinality(Before(h)) <= Cardinality(Before(g)) /\ Cardinality(Before(h)) # Cardinality(Before(g))
      BY <1>2, <1>5, <2>3, <2>4, FS_Subset
    <3> QED BY <1>2, <1>5, <3>1
  <2>6. /\ Cardinality(Before(g)) \in Nat /\ Cardinality(Before(h)) \in Nat
        /\ Cardinality(Before(g)) <= Cardinality(Before(h))
    BY <1>2, <1>4, <1>5
  <2> HIDE DEF Before
  <2> QED BY <2>5, <2>6
<1>6. \A h \in gs \ {g} : <<g, h>> \in earlier
  BY <1>5
<1> QED BY <1>6 DEF First

\* What the types say of a goroutine that was started.
LEMMA TypeFacts ==
  ASSUME GoType, NEW h \in started
  PROVE  /\ h \in Goroutines /\ local[h] \in Locals /\ h \in {"main"} \cup Crew
         /\ StatementOK(Code(h), Crew)
         /\ \A dir, c : Offers(h, dir, c) => c \in CommCases
<1>1. h \in Goroutines /\ h \in {"main"} \cup Crew
  BY SomeGoroutines DEF GoType
<1>2. local[h] \in Locals
  BY <1>1 DEF GoType
<1>3. StatementOK(Code(h), Crew)
  BY <1>1, <1>2, CodeOK DEF GoType
<1>4. \A dir, c : Offers(h, dir, c) => c \in CommCases
  BY <1>3 DEF Offers, StatementOK
<1> QED BY <1>1, <1>2, <1>3, <1>4

\* Who waits is parked with a case for it.
LEMMA WaitingIs ==
  ASSUME NEW h, NEW dir, NEW ch
  PROVE  h \in Waiting(dir, ch) <=> h \in parked /\ \E c : Offers(h, dir, c) /\ c.ch = ch
  BY DEF Waiting, Cases, Offers

\* Whoever is served first is parked, and offers what CaseOf takes of it.
LEMMA FirstWaits ==
  ASSUME GoType, NEW dir, NEW ch, Waiting(dir, ch) # {}
  PROVE  LET r == First(Waiting(dir, ch))  c == CaseOf(r, dir, ch) IN
         /\ r \in parked /\ r \in started /\ r \in Goroutines
         /\ Offers(r, dir, c) /\ c.ch = ch /\ c \in CommCases
<1> DEFINE r == First(Waiting(dir, ch))  c == CaseOf(r, dir, ch)
<1>1. parked \subseteq Goroutines /\ OrderOK /\ Waiting(dir, ch) \subseteq parked
  BY SomeGoroutines DEF GoType, Waiting
<1>2. r \in Waiting(dir, ch)
  BY <1>1, FirstIn
<1>3. r \in parked /\ r \in started /\ r \in Goroutines /\ Cases(r, dir, ch) # {}
  BY <1>1, <1>2 DEF Waiting, GoType
<1>4. c \in Cases(r, dir, ch)
  BY <1>3 DEF CaseOf
<1>5. Offers(r, dir, c) /\ c.ch = ch
  BY <1>4 DEF Cases, Offers
<1>6. c \in CommCases
  BY <1>3, <1>5, TypeFacts
<1> QED BY <1>3, <1>5, <1>6

-----------------------------------------------------------------------------
(* The channels.                                                           *)

ChannelInv ==
  /\ \A ch \in Channels : Len(buf[ch]) <= Cap(ch) /\ (buf[ch] # <<>> => Waiting("recv", ch) = {})
  /\ \A g \in parked : NoneReady(g) /\ Code(g).next = Block

\* A goroutine whose state does not change stays at its statement.
LEMMA CodeStays ==
  ASSUME sample' = sample, NEW h, local'[h] = local[h]
  PROVE  Code(h)' = Code(h)
  BY DEF Code

\* Capacities are numbers, and stay.
LEMMA CapIs == \A ch \in Channels : Cap(ch) \in Nat
  BY ManyAssumption, BufferedAssumption DEF Cap

LEMMA CapStays ==
  ASSUME sample' = sample, NEW ch
  PROVE  Cap(ch)' = Cap(ch)
  BY DEF Cap

\* A channel is never waited on from both sides, nor when it is closed.
LEMMA ParkedFacts ==
  ASSUME GoType, ChannelInv, NEW ch \in Channels
  PROVE  /\ Waiting("send", ch) # {} => /\ Len(buf[ch]) = Cap(ch) /\ ch \notin closed
                                        /\ Waiting("recv", ch) = {}
         /\ Waiting("recv", ch) # {} => buf[ch] = <<>> /\ ch \notin closed
         /\ Len(buf[ch]) \in Nat /\ Cap(ch) \in Nat /\ Len(buf[ch]) <= Cap(ch)
<1>1. Len(buf[ch]) \in Nat /\ Cap(ch) \in Nat /\ Len(buf[ch]) <= Cap(ch)
  BY CapIs, LenProperties DEF GoType, ChannelInv
<1>2. ASSUME NEW h \in Waiting("send", ch)
      PROVE  Len(buf[ch]) = Cap(ch) /\ ch \notin closed /\ Waiting("recv", ch) = {}
  <2>1. PICK c : h \in parked /\ Offers(h, "send", c) /\ c.ch = ch
    BY <1>2, WaitingIs
  <2>2. ~Ready(c)
    BY <2>1 DEF ChannelInv, NoneReady, Offers
  <2>3. c.dir = "send"
    BY <2>1 DEF Offers
  <2> QED BY <1>1, <2>1, <2>2, <2>3 DEF Ready
<1>3. ASSUME NEW h \in Waiting("recv", ch)
      PROVE  buf[ch] = <<>> /\ ch \notin closed
  <2>1. PICK c : h \in parked /\ Offers(h, "recv", c) /\ c.ch = ch
    BY <1>3, WaitingIs
  <2>2. ~Ready(c)
    BY <2>1 DEF ChannelInv, NoneReady, Offers
  <2>3. c.dir = "recv"
    BY <2>1 DEF Offers
  <2> QED BY <2>1, <2>2, <2>3 DEF Ready
<1> QED BY <1>1, <1>2, <1>3

\* Without anybody newly parked, those wait who waited and are parked still.
LEMMA WaitingStays ==
  ASSUME sample' = sample, parked' \subseteq parked, \A h \in parked' : local'[h] = local[h],
         NEW dir, NEW ch
  PROVE  Waiting(dir, ch)' = {h \in Waiting(dir, ch) : h \in parked'}
<1>1. \A h \in parked' : Code(h)' = Code(h)
  BY CodeStays
<1> QED BY <1>1 DEF Waiting, Cases

\* Who stays parked where nothing has come that they wait for.
LEMMA StayParked ==
  ASSUME GoType, ChannelInv, sample' = sample, parked' \subseteq parked,
         \A h \in parked' : local'[h] = local[h],
         \A ch \in Channels :
           /\ Len(buf'[ch]) <= Cap(ch)
           /\ \A h \in parked' : h \in Waiting("send", ch) => Len(buf'[ch]) >= Cap(ch) /\ ch \notin closed'
           /\ \A h \in parked' : h \in Waiting("recv", ch) => buf'[ch] = <<>> /\ ch \notin closed',
         \A ch \in Channels : Len(buf'[ch]) \in Nat
  PROVE  ChannelInv'
<1>1. \A dir, ch : Waiting(dir, ch)' = {h \in Waiting(dir, ch) : h \in parked'}
  BY WaitingStays
<1>2. \A h \in parked' : Code(h)' = Code(h)
  BY CodeStays
<1>3. ASSUME NEW ch \in Channels
      PROVE  Len(buf'[ch]) <= Cap(ch)' /\ (buf'[ch] # <<>> => Waiting("recv", ch)' = {})
  BY <1>1, <1>3, CapStays
<1>4. ASSUME NEW h \in parked', NEW c \in Code(h).arg, Code(h).op = "comm" PROVE ~Ready(c)'
  <2>1. h \in parked /\ h \in started
    BY DEF GoType
  <2>2. c \in CommCases /\ Offers(h, c.dir, c) /\ c.ch \in Channels /\ c.dir \in {"send", "recv"}
    BY <1>4, <2>1, TypeFacts DEF Offers, CommCases
  <2>3. h \in Waiting(c.dir, c.ch)
    BY <2>1, <2>2, WaitingIs
  <2>4. Cap(c.ch) \in Nat /\ Len(buf'[c.ch]) \in Nat /\ Cap(c.ch)' = Cap(c.ch)
    BY <2>2, CapIs, CapStays
  <2>5. CASE c.dir = "send"
    <3>1. Len(buf'[c.ch]) >= Cap(c.ch) /\ c.ch \notin closed' /\ Waiting("recv", c.ch) = {}
      BY <2>2, <2>3, <2>5, ParkedFacts
    <3>2. Waiting("recv", c.ch)' = {}
      BY <1>1, <3>1
    <3> QED BY <2>4, <2>5, <3>1, <3>2 DEF Ready
  <2>6. CASE c.dir = "recv"
    <3>1. buf'[c.ch] = <<>> /\ c.ch \notin closed' /\ Waiting("send", c.ch) = {}
      BY <2>2, <2>3, <2>6, ParkedFacts
    <3>2. Waiting("send", c.ch)' = {}
      BY <1>1, <3>1
    <3> QED BY <2>6, <3>1, <3>2 DEF Ready
  <2> QED BY <2>2, <2>5, <2>6
<1>5. ASSUME NEW h \in parked' PROVE NoneReady(h)' /\ Code(h)'.next = Block
  <2>1. Code(h).op = "comm" /\ Code(h).next = Block /\ Code(h)' = Code(h)
    BY <1>2, <1>5 DEF ChannelInv, NoneReady
  <2> QED BY <1>4, <1>5, <2>1 DEF NoneReady
<1> QED BY <1>3, <1>5 DEF ChannelInv

-----------------------------------------------------------------------------
(* What a step is to each goroutine and to each channel.                   *)

\* What was sent to ch and has arrived in it.
Stream(ch) == seen[ch] \o buf[ch]

Sent(h, c) ==
  Offers(h, "send", c) /\ local'[h] = c.next /\ Stream(c.ch)' = Append(Stream(c.ch), c.v)
Got(h, c) ==
  /\ Offers(h, "recv", c)
  /\ \E v \in Int : local'[h] = Received(c, v) /\ seen'[c.ch] = Append(seen[c.ch], v)
Drained(h, c) ==
  /\ Offers(h, "recv", c) /\ local'[h] = ReadClosed(c)
  /\ c.ch \in closed' /\ buf[c.ch] = <<>> /\ buf' = buf /\ seen' = seen
Passed(h) ==
  /\ Running(h) /\ local'[h] = Code(h).next
  /\ \/ NoneReady(h) /\ Code(h).next # Block
     \/ Code(h).op = "close" /\ closed' = closed \cup Code(h).arg
     \/ Code(h).op = "go" /\ started' = started \cup Code(h).arg
     \/ Code(h).op = "wait" /\ wg = 0
     \/ Code(h).op = "wgDone" /\ wg' = wg - 1

View(h) == \/ local'[h] = local[h]
           \/ \E c : Sent(h, c) \/ Got(h, c) \/ Drained(h, c)
           \/ Passed(h)

Views ==
  /\ sample' = sample /\ started \subseteq started'
  /\ \A h \in started : View(h)
  /\ \A h \in Goroutines \ started : local'[h] = local[h]
  /\ \A ch \in Channels :
       /\ Stream(ch)' = Stream(ch) \/ \E h \in started : \E c : Sent(h, c) /\ c.ch = ch
       /\ seen'[ch] = seen[ch] \/ \E h \in started : \E c : Got(h, c) /\ c.ch = ch
  /\ \/ closed' = closed
     \/ \E h \in started : Passed(h) /\ Code(h).op = "close" /\ closed' = closed \cup Code(h).arg
     \/ sample = "TimeoutContext" /\ closed' = closed \cup {"done"}
  /\ wg' = wg \/ \E h \in started : Passed(h) /\ Code(h).op = "wgDone" /\ wg' = wg - 1

\* Nobody is about to send to a closed channel.
Unsent == \A h \in started : \A c : Offers(h, "send", c) => c.ch \notin closed

StepOK == GoType' /\ ChannelInv' /\ Views

\* Sequences: appending, concatenating and moving a first element over.
LEMMA AppendLast ==
  ASSUME NEW s \in Seq(Int), NEW t \in Seq(Int), NEW v \in Int
  PROVE  s \o Append(t, v) = Append(s \o t, v) /\ Append(s, v) \o <<>> = Append(s \o <<>>, v)
<1>1. s \o Append(t, v) = Append(s \o t, v)
  OBVIOUS
<1>2. Append(s, v) \o <<>> = Append(s \o <<>>, v)
  OBVIOUS
<1> QED BY <1>1, <1>2

LEMMA ConcatInts ==
  ASSUME NEW s \in Seq(Int), NEW t \in Seq(Int), NEW u \in Seq(Int)
  PROVE  (s \o t) \o u = s \o (t \o u)
  BY SMT

LEMMA MoveHead ==
  ASSUME NEW s \in Seq(Int), NEW t \in Seq(Int), t # <<>>
  PROVE  /\ Append(s, Head(t)) \o Tail(t) = s \o t /\ Head(t) \in Int /\ Tail(t) \in Seq(Int)
         /\ Len(Tail(t)) = Len(t) - 1
<1>1. Head(t) \in Int /\ Tail(t) \in Seq(Int) /\ Len(Tail(t)) = Len(t) - 1
  BY HeadTailProperties
<1>2. t = <<Head(t)>> \o Tail(t)
  BY HeadTailProperties
<1>3. Append(s, Head(t)) = s \o <<Head(t)>>
  BY <1>1
<1>4. (s \o <<Head(t)>>) \o Tail(t) = s \o (<<Head(t)>> \o Tail(t))
  <2>1. <<Head(t)>> \in Seq(Int)
    BY <1>1
  <2> QED BY <1>1, <2>1, ConcatInts
<1> QED BY <1>1, <1>2, <1>3, <1>4

\* The order of the parked stays an order when some leave and when one comes.
LEMMA UnparkOrder ==
  ASSUME OrderOK, NEW gs, Unpark(gs)
  PROVE  OrderOK'
  BY DEF OrderOK, Unpark

LEMMA ParkOrder ==
  ASSUME OrderOK, NEW g, g \notin parked, parked' = parked \cup {g}, earlier' = earlier \cup (parked \X {g})
  PROVE  OrderOK'
  BY DEF OrderOK

\* The states a case leads to.
LEMMA CaseFacts ==
  ASSUME NEW c \in CommCases, NEW v \in Int
  PROVE  c.ch \in Channels /\ c.v \in Int /\ c.next \in Locals /\ c.dir \in {"send", "recv"}
         /\ Received(c, v) \in Locals /\ ReadClosed(c) \in Locals
         /\ Received(c, v).at = c.next.at /\ Received(c, v).v = v /\ Received(c, v).ok = TRUE
         /\ ReadClosed(c).at = c.next.at /\ ReadClosed(c).v = 0 /\ ReadClosed(c).ok = FALSE
<1>1. c.ch \in Channels /\ c.v \in Int /\ c.next \in Locals /\ c.dir \in {"send", "recv"}
  BY DEF CommCases
<1>2. ASSUME NEW s \in Locals, NEW x \in Int, NEW b \in BOOLEAN
      PROVE  LET n == [s EXCEPT !.v = x, !.ok = b] IN
             n \in Locals /\ n.at = s.at /\ n.v = x /\ n.ok = b
  BY DEF Locals
<1>3. TRUE \in BOOLEAN /\ FALSE \in BOOLEAN /\ 0 \in Int
  OBVIOUS
<1> QED BY <1>1, <1>2, <1>3 DEF Received, ReadClosed

\* A value goes into the buffer, which nobody waits to read.
LEMMA SendToBufferStep ==
  ASSUME GoType, ChannelInv, NEW g \in started, NEW c, Running(g), Offers(g, "send", c), c.ch \notin closed,
         SendToBuffer(g, c), UNCHANGED <<sample, started, closed, wg>>
  PROVE  StepOK
<1> DEFINE k == c.ch
<1>1. /\ g \in Goroutines /\ c \in CommCases /\ k \in Channels /\ c.v \in Int /\ c.next \in Locals
      /\ g \notin parked /\ buf[k] \in Seq(Int) /\ seen[k] \in Seq(Int)
  BY TypeFacts, CaseFacts DEF Running, GoType
<1>2. /\ Waiting("recv", k) = {} /\ Len(buf[k]) < Cap(k)
      /\ buf' = [buf EXCEPT ![k] = Append(@, c.v)] /\ local' = [local EXCEPT ![g] = c.next]
      /\ parked' = parked /\ earlier' = earlier /\ seen' = seen
      /\ sample' = sample /\ started' = started /\ closed' = closed /\ wg' = wg
  BY DEF SendToBuffer
<1> HIDE DEF k
<1>3. /\ buf'[k] = Append(buf[k], c.v) /\ \A ch \in Channels \ {k} : buf'[ch] = buf[ch]
      /\ local'[g] = c.next /\ \A h \in Goroutines \ {g} : local'[h] = local[h]
      /\ Len(buf'[k]) = Len(buf[k]) + 1
  BY <1>1, <1>2 DEF GoType
<1>4. GoType'
  <2>1. local' \in [Goroutines -> Locals] /\ buf' \in [Channels -> Seq(Int)]
    BY <1>1, <1>2 DEF GoType
  <2>2. Crew' = Crew /\ OrderOK'
    BY <1>2 DEF Crew, GoType, OrderOK
  <2> QED BY <1>2, <2>1, <2>2 DEF GoType
<1>5. ChannelInv'
  <2>1. \A h \in parked : h \in Goroutines \ {g} /\ local'[h] = local[h]
    BY <1>1, <1>3, SomeGoroutines DEF GoType
  <2>2. ASSUME NEW ch \in Channels
        PROVE  /\ Len(buf'[ch]) \in Nat /\ Len(buf'[ch]) <= Cap(ch)
               /\ \A h \in parked' : h \in Waiting("send", ch) => Len(buf'[ch]) >= Cap(ch) /\ ch \notin closed'
               /\ \A h \in parked' : h \in Waiting("recv", ch) => buf'[ch] = <<>> /\ ch \notin closed'
    <3>1. CASE ch = k
      BY <1>1, <1>2, <1>3, <3>1, ParkedFacts
    <3>2. CASE ch # k
      BY <1>2, <1>3, <3>2, ParkedFacts
    <3> QED BY <3>1, <3>2
  <2> QED BY <1>2, <2>1, <2>2, StayParked
<1>6. Sent(g, c)
  <2>1. seen[k] \o Append(buf[k], c.v) = Append(seen[k] \o buf[k], c.v)
    BY <1>1, AppendLast
  <2>2. Stream(k)' = seen[k] \o Append(buf[k], c.v)
    BY <1>2, <1>3 DEF Stream
  <2>3. Stream(k)' = Append(Stream(k), c.v)
    BY <2>1, <2>2 DEF Stream
  <2> QED BY <1>3, <2>3 DEF Sent, k
<1>7. Views
  <2>1. \A ch \in Channels \ {k} : Stream(ch)' = Stream(ch)
    BY <1>2, <1>3 DEF Stream
  <2>2. \A h \in started : View(h)
    BY <1>1, <1>3, <1>6, TypeFacts DEF View
  <2>3. \A h \in Goroutines \ started : local'[h] = local[h]
    BY <1>3
  <2> QED BY <1>2, <1>6, <2>1, <2>2, <2>3 DEF Views, k
<1> QED BY <1>4, <1>5, <1>7 DEF StepOK

\* A value goes from a sender to a receiver, one of whom was parked.
LEMMA HandOver ==
  ASSUME GoType, ChannelInv, NEW s \in started, NEW r \in started, s # r, NEW c, NEW d, NEW v \in Int,
         Offers(s, "send", c), Offers(r, "recv", d), c.ch = d.ch,
         NEW p \in {s, r}, p \in parked, \A g \in {s, r} \ {p} : g \notin parked,
         local' = [local EXCEPT ![s] = c.next, ![r] = Received(d, v)],
         v = Head(Append(buf[c.ch], c.v)),
         buf' = [buf EXCEPT ![c.ch] = Tail(Append(buf[c.ch], c.v))],
         Note(c.ch, v), Unpark({p}), UNCHANGED <<sample, started, closed, wg>>
  PROVE  StepOK
<1> DEFINE k == c.ch  supply == Append(buf[k], c.v)
<1>1. /\ s \in Goroutines /\ r \in Goroutines /\ c \in CommCases /\ d \in CommCases /\ k \in Channels
      /\ c.v \in Int /\ c.next \in Locals /\ Received(d, v) \in Locals
      /\ buf[k] \in Seq(Int) /\ seen[k] \in Seq(Int)
  BY TypeFacts, CaseFacts DEF GoType
<1>2. supply \in Seq(Int) /\ supply # <<>> /\ Len(supply) = Len(buf[k]) + 1
  BY <1>1, AppendProperties
<1>3. /\ v = Head(supply) /\ buf' = [buf EXCEPT ![k] = Tail(supply)] /\ seen' = [seen EXCEPT ![k] = Append(@, v)]
      /\ parked' = parked \ {p} /\ sample' = sample /\ started' = started /\ closed' = closed /\ wg' = wg
  BY DEF Note, Unpark
<1>4. /\ Append(seen[k], v) \o Tail(supply) = seen[k] \o supply
      /\ Tail(supply) \in Seq(Int) /\ Len(Tail(supply)) = Len(buf[k])
  <2>1. \A t \in Seq(Int) : t # <<>> =>
          /\ Append(seen[k], Head(t)) \o Tail(t) = seen[k] \o t
          /\ Tail(t) \in Seq(Int) /\ Len(Tail(t)) = Len(t) - 1
    BY <1>1, MoveHead
  <2>2. Len(supply) - 1 = Len(buf[k])
    BY <1>1, <1>2, LenProperties
  <2> HIDE DEF supply
  <2> QED BY <1>2, <1>3, <2>1, <2>2
<1> HIDE DEF k, supply
<1>5. /\ buf'[k] = Tail(supply) /\ seen'[k] = Append(seen[k], v)
      /\ \A ch \in Channels \ {k} : buf'[ch] = buf[ch] /\ seen'[ch] = seen[ch]
      /\ local'[s] = c.next /\ local'[r] = Received(d, v)
      /\ \A h \in Goroutines \ {s, r} : local'[h] = local[h]
  BY <1>1, <1>3 DEF GoType
<1>6. GoType'
  <2>1. local' \in [Goroutines -> Locals]
    BY <1>1 DEF GoType
  <2>2. buf' \in [Channels -> Seq(Int)]
    BY <1>1, <1>3, <1>4 DEF GoType
  <2>3. seen' \in [Channels -> Seq(Int)]
    <3>1. Append(seen[k], v) \in Seq(Int)
      BY <1>1
    <3> QED BY <1>1, <1>3, <3>1 DEF GoType
  <2>4. Crew' = Crew /\ OrderOK'
    BY <1>3, UnparkOrder DEF Crew, GoType
  <2> QED BY <1>3, <2>1, <2>2, <2>3, <2>4 DEF GoType
<1>7. ChannelInv'
  <2>1. \A h \in parked' : h \in parked /\ h \in Goroutines \ {s, r} /\ local'[h] = local[h]
    BY <1>3, <1>5, SomeGoroutines DEF GoType
  <2>2. ASSUME NEW ch \in Channels
        PROVE  /\ Len(buf'[ch]) = Len(buf[ch]) /\ (buf[ch] = <<>> => buf'[ch] = <<>>)
    <3>1. CASE ch = k
      <4>1. Len(buf'[k]) = Len(buf[k])
        BY <1>4, <1>5
      <4>2. buf[k] = <<>> => buf'[k] = <<>>
        BY <1>4, <1>5, <4>1, EmptySeq, LenProperties
      <4> QED BY <3>1, <4>1, <4>2
    <3>2. CASE ch # k
      BY <1>5, <3>2
    <3> QED BY <3>1, <3>2
  <2>3. ASSUME NEW ch \in Channels
        PROVE  /\ Len(buf'[ch]) \in Nat /\ Len(buf'[ch]) <= Cap(ch)
               /\ \A h \in parked' : h \in Waiting("send", ch) => Len(buf'[ch]) >= Cap(ch) /\ ch \notin closed'
               /\ \A h \in parked' : h \in Waiting("recv", ch) => buf'[ch] = <<>> /\ ch \notin closed'
    BY <1>3, <2>2, ParkedFacts
  <2> QED BY <1>3, <2>1, <2>3, StayParked
<1>8. Sent(s, c)
  <2>1. seen[k] \o supply = Append(seen[k] \o buf[k], c.v)
    BY <1>1, AppendLast DEF supply, k
  <2>2. Stream(k)' = seen[k] \o supply
    BY <1>4, <1>5 DEF Stream
  <2>3. Stream(k)' = Append(Stream(k), c.v)
    BY <2>1, <2>2 DEF Stream
  <2> QED BY <1>5, <2>3 DEF Sent, k
<1>9. Got(r, d)
  BY <1>5 DEF Got, k
<1>10. Views
  <2>1. \A ch \in Channels \ {k} : Stream(ch)' = Stream(ch) /\ seen'[ch] = seen[ch]
    BY <1>5 DEF Stream
  <2>2. \A h \in started : View(h)
    BY <1>1, <1>5, <1>8, <1>9, TypeFacts DEF View
  <2>3. \A h \in Goroutines \ started : local'[h] = local[h]
    BY <1>5
  <2> QED BY <1>3, <1>8, <1>9, <2>1, <2>2, <2>3 DEF Views, k
<1> QED BY <1>6, <1>7, <1>10 DEF StepOK

\* What is known of a case that is offered.
LEMMA OfferFacts ==
  ASSUME GoType, NEW h \in started, NEW dir, NEW c, Offers(h, dir, c)
  PROVE  /\ c \in CommCases /\ c.ch \in Channels /\ c.v \in Int /\ c.next \in Locals
         /\ ReadClosed(c) \in Locals /\ \A v \in Int : Received(c, v) \in Locals
<1>1. c \in CommCases
  BY TypeFacts
<1>2. ReadClosed(c) \in Locals
  <2>1. 0 \in Int
    OBVIOUS
  <2> QED BY <1>1, <2>1, CaseFacts
<1>3. c.ch \in Channels /\ c.v \in Int /\ c.next \in Locals
  BY <1>1 DEF CommCases
<1> QED BY <1>1, <1>2, <1>3, CaseFacts

\* A value goes to the first receiver that waits: the buffer is empty then.
LEMMA SendToReceiverStep ==
  ASSUME GoType, ChannelInv, NEW g \in started, NEW c, Running(g), Offers(g, "send", c), c.ch \notin closed,
         SendToReceiver(g, c), UNCHANGED <<sample, started, closed, wg>>
  PROVE  StepOK
<1> DEFINE r == First(Waiting("recv", c.ch))  d == CaseOf(r, "recv", c.ch)
<1>1. /\ Waiting("recv", c.ch) # {} /\ buf' = buf /\ Note(c.ch, c.v) /\ Unpark({r})
      /\ local' = [local EXCEPT ![g] = c.next, ![r] = Received(d, c.v)]
  BY DEF SendToReceiver
<1>2. r \in parked /\ r \in started /\ Offers(r, "recv", d) /\ d.ch = c.ch
  BY <1>1, FirstWaits
<1>3. g \notin parked /\ g # r
  BY <1>2 DEF Running
<1>4. c.ch \in Channels /\ c.v \in Int
  BY OfferFacts
<1>5. buf[c.ch] = <<>>
  BY <1>1, <1>4, ParkedFacts
<1>6. Head(Append(buf[c.ch], c.v)) = c.v /\ Tail(Append(buf[c.ch], c.v)) = <<>>
  BY <1>5
<1>7. buf' = [buf EXCEPT ![c.ch] = Tail(Append(buf[c.ch], c.v))]
  BY <1>1, <1>4, <1>5, <1>6 DEF GoType
<1> HIDE DEF r, d
<1> QED BY <1>1, <1>2, <1>3, <1>4, <1>6, <1>7, HandOver

\* A value is received and the first sender that waits is released into the room.
LEMMA ReceiveFromSenderStep ==
  ASSUME GoType, ChannelInv, NEW g \in started, NEW d, Running(g), Offers(g, "recv", d),
         ReceiveFromSender(g, d), UNCHANGED <<sample, started, closed, wg>>
  PROVE  StepOK
<1> DEFINE s == First(Waiting("send", d.ch))  c == CaseOf(s, "send", d.ch)
           v == Head(Append(buf[d.ch], c.v))
<1>1. /\ Waiting("send", d.ch) # {} /\ Note(d.ch, v) /\ Unpark({s})
      /\ local' = [local EXCEPT ![g] = Received(d, v), ![s] = c.next]
      /\ buf' = [buf EXCEPT ![d.ch] = Tail(Append(buf[d.ch], c.v))]
  BY DEF ReceiveFromSender
<1>2. /\ s \in parked /\ s \in started /\ s \in Goroutines /\ Offers(s, "send", c) /\ c.ch = d.ch
      /\ c \in CommCases
  BY <1>1, FirstWaits
<1>3. g \notin parked /\ g # s /\ g \in Goroutines
  BY <1>2, TypeFacts DEF Running
<1>4. d.ch \in Channels /\ c.v \in Int
  BY <1>2, OfferFacts
<1>5. v \in Int
  <2>1. Append(buf[d.ch], c.v) \in Seq(Int) /\ Append(buf[d.ch], c.v) # <<>>
    <3>1. \A q \in Seq(Int), x \in Int : Append(q, x) \in Seq(Int) /\ Append(q, x) # <<>>
      OBVIOUS
    <3>2. buf[d.ch] \in Seq(Int)
      BY <1>4 DEF GoType
    <3> QED BY <1>4, <3>1, <3>2
  <2> QED BY <2>1, HeadTailProperties
<1>7. Offers(s, "send", c) /\ Offers(g, "recv", d) /\ s \in started /\ s # g /\ s \in {s, g}
  BY <1>2, <1>3
<1> HIDE DEF s, c
<1>6. local' = [local EXCEPT ![s] = c.next, ![g] = Received(d, v)]
  BY <1>1, <1>2, <1>3 DEF GoType
<1>8. /\ v = Head(Append(buf[c.ch], c.v)) /\ Note(c.ch, v)
      /\ buf' = [buf EXCEPT ![c.ch] = Tail(Append(buf[c.ch], c.v))]
  BY <1>1, <1>2
<1>9. s \in parked /\ \A h \in {s, g} \ {s} : h \notin parked
  BY <1>2, <1>3
<1> HIDE DEF v
<1>10. c.ch = d.ch /\ Unpark({s})
  BY <1>1, <1>2
<1> QED BY <1>5, <1>6, <1>7, <1>8, <1>9, <1>10, HandOver

\* A step of g on its own, that moves no value.
LEMMA OwnStep ==
  ASSUME GoType, ChannelInv, NEW g \in started, g \notin parked, NEW n \in Locals,
         local' = [local EXCEPT ![g] = n], UNCHANGED <<sample, parked, earlier, buf, closed, seen>>,
         started \subseteq started', started' \subseteq {"main"} \cup Crew, wg' \in Int
  PROVE  /\ GoType' /\ ChannelInv' /\ local'[g] = n
         /\ \A h \in Goroutines \ {g} : local'[h] = local[h]
         /\ \A h \in started \ {g} : local'[h] = local[h]
         /\ \A ch \in Channels : Stream(ch)' = Stream(ch)
<1>1. g \in Goroutines /\ started \subseteq Goroutines
  BY SomeGoroutines DEF GoType
<1>2. local'[g] = n /\ \A h \in Goroutines \ {g} : local'[h] = local[h]
  BY <1>1 DEF GoType
<1>3. GoType'
  <2>1. local' \in [Goroutines -> Locals]
    BY <1>1 DEF GoType
  <2>2. Crew' = Crew /\ OrderOK'
    BY DEF Crew, GoType, OrderOK
  <2> QED BY <2>1, <2>2 DEF GoType
<1>4. ChannelInv'
  <2>1. \A h \in parked' : local'[h] = local[h]
    BY <1>1, <1>2 DEF GoType
  <2>2. ASSUME NEW ch \in Channels
        PROVE  /\ Len(buf'[ch]) \in Nat /\ Len(buf'[ch]) <= Cap(ch)
               /\ \A h \in parked' : h \in Waiting("send", ch) => Len(buf'[ch]) >= Cap(ch) /\ ch \notin closed'
               /\ \A h \in parked' : h \in Waiting("recv", ch) => buf'[ch] = <<>> /\ ch \notin closed'
    BY ParkedFacts
  <2> QED BY <2>1, <2>2, StayParked
<1> QED BY <1>1, <1>2, <1>3, <1>4 DEF Stream

\* A closed and empty channel yields the zero value.
LEMMA ReceiveClosedStep ==
  ASSUME GoType, ChannelInv, NEW g \in started, NEW c, Running(g), Offers(g, "recv", c),
         ReceiveClosed(g, c), UNCHANGED <<sample, started, closed, wg>>
  PROVE  StepOK
<1>1. g \notin parked /\ ReadClosed(c) \in Locals
  BY OfferFacts DEF Running
<1>2. /\ c.ch \in closed /\ buf[c.ch] = <<>> /\ local' = [local EXCEPT ![g] = ReadClosed(c)]
      /\ UNCHANGED <<sample, parked, earlier, buf, closed, seen, started, wg>>
  BY DEF ReceiveClosed
<1>3. started' \subseteq {"main"} \cup Crew /\ wg' \in Int /\ started \subseteq started'
  BY <1>2 DEF GoType
<1>4. /\ GoType' /\ ChannelInv' /\ local'[g] = ReadClosed(c)
      /\ \A h \in Goroutines \ {g} : local'[h] = local[h]
      /\ \A h \in started \ {g} : local'[h] = local[h]
      /\ \A ch \in Channels : Stream(ch)' = Stream(ch)
  BY <1>1, <1>2, <1>3, OwnStep
<1>5. Drained(g, c)
  BY <1>2, <1>4 DEF Drained
<1> QED BY <1>2, <1>3, <1>4, <1>5 DEF StepOK, Views, View

\* A step that touches no channel.
LEMMA PassedStep ==
  ASSUME GoType, ChannelInv, NEW g \in started, Running(g), Code(g).next \in Locals,
         local' = [local EXCEPT ![g] = Code(g).next], UNCHANGED <<sample, parked, earlier, buf, closed, seen>>,
         started \subseteq started', started' \subseteq {"main"} \cup Crew,
         \/ NoneReady(g) /\ Code(g).next # Block /\ wg' = wg
         \/ Code(g).op = "go" /\ started' = started \cup Code(g).arg /\ wg' = wg
         \/ Code(g).op = "wait" /\ wg = 0 /\ wg' = wg
         \/ Code(g).op = "wgDone" /\ wg' = wg - 1
  PROVE  StepOK
<1>1. g \notin parked /\ wg' \in Int
  BY DEF Running, GoType
<1>2. /\ GoType' /\ ChannelInv' /\ local'[g] = Code(g).next
      /\ \A h \in Goroutines \ {g} : local'[h] = local[h]
      /\ \A h \in started \ {g} : local'[h] = local[h]
      /\ \A ch \in Channels : Stream(ch)' = Stream(ch)
  BY <1>1, OwnStep
<1>3. Passed(g)
  BY <1>2 DEF Passed
<1>4. wg' = wg \/ (Code(g).op = "wgDone" /\ wg' = wg - 1)
  OBVIOUS
<1> QED BY <1>2, <1>3, <1>4 DEF StepOK, Views, View

\* A select without a ready case takes its default; so do go and the WaitGroup pass.
LEMMA TakeDefaultStep ==
  ASSUME GoType, ChannelInv, NEW g \in started, Running(g), TakeDefault(g), UNCHANGED sample
  PROVE  StepOK
<1>1. Code(g).next \in Locals
  BY TypeFacts DEF TakeDefault, NoneReady, StatementOK
<1> QED BY <1>1, PassedStep DEF TakeDefault, GoType

LEMMA StartStep ==
  ASSUME GoType, ChannelInv, NEW g \in started, Running(g), Start(g), UNCHANGED sample
  PROVE  StepOK
<1>1. Code(g).next \in Locals /\ Code(g).arg \subseteq Crew
  BY TypeFacts DEF Start, StatementOK
<1> QED BY <1>1, PassedStep DEF Start, GoType

LEMMA WaitGroupStep ==
  ASSUME GoType, ChannelInv, NEW g \in started, Running(g), WaitGroupOp(g), UNCHANGED sample
  PROVE  StepOK
<1>1. Code(g).next \in Locals
  BY TypeFacts DEF WaitGroupOp, StatementOK
<1> QED BY <1>1, PassedStep DEF WaitGroupOp, GoType

\* A value is received from a buffer that no sender waits for.
LEMMA ReceiveFromBufferStep ==
  ASSUME GoType, ChannelInv, NEW g \in started, NEW c, Running(g), Offers(g, "recv", c),
         ReceiveFromBuffer(g, c), UNCHANGED <<sample, started, closed, wg>>
  PROVE  StepOK
<1> DEFINE k == c.ch  v == Head(buf[k])
<1>1. /\ g \in Goroutines /\ c \in CommCases /\ k \in Channels /\ g \notin parked
      /\ buf[k] \in Seq(Int) /\ seen[k] \in Seq(Int)
  BY TypeFacts, CaseFacts DEF Running, GoType
<1>2. /\ buf[k] # <<>> /\ Waiting("send", k) = {} /\ local' = [local EXCEPT ![g] = Received(c, v)]
      /\ buf' = [buf EXCEPT ![k] = Tail(@)] /\ seen' = [seen EXCEPT ![k] = Append(@, v)]
      /\ UNCHANGED <<sample, parked, earlier, closed, started, wg>>
  BY DEF ReceiveFromBuffer, Note
<1>3. /\ Append(seen[k], v) \o Tail(buf[k]) = seen[k] \o buf[k]
      /\ v \in Int /\ Tail(buf[k]) \in Seq(Int) /\ Len(Tail(buf[k])) = Len(buf[k]) - 1
  BY <1>1, <1>2, MoveHead
<1>4. Received(c, v) \in Locals
  BY <1>1, <1>3, CaseFacts
<1> HIDE DEF k, v
<1>5. /\ buf'[k] = Tail(buf[k]) /\ seen'[k] = Append(seen[k], v) /\ local'[g] = Received(c, v)
      /\ \A ch \in Channels \ {k} : buf'[ch] = buf[ch] /\ seen'[ch] = seen[ch]
      /\ \A h \in Goroutines \ {g} : local'[h] = local[h]
  BY <1>1, <1>2 DEF GoType
<1>6. GoType'
  <2>1. local' \in [Goroutines -> Locals]
    BY <1>1, <1>2, <1>4 DEF GoType
  <2>2. buf' \in [Channels -> Seq(Int)]
    BY <1>1, <1>2, <1>3 DEF GoType
  <2>3. seen' \in [Channels -> Seq(Int)]
    <3>1. Append(seen[k], v) \in Seq(Int)
      BY <1>1, <1>3
    <3> QED BY <1>1, <1>2, <3>1 DEF GoType
  <2>4. Crew' = Crew /\ OrderOK'
    BY <1>2 DEF Crew, GoType, OrderOK
  <2> QED BY <1>2, <2>1, <2>2, <2>3, <2>4 DEF GoType
<1>7. ChannelInv'
  <2>1. \A h \in parked' : local'[h] = local[h]
    BY <1>1, <1>2, <1>5, SomeGoroutines DEF GoType
  <2>2. Waiting("recv", k) = {}
    BY <1>1, <1>2 DEF ChannelInv
  <2>3. ASSUME NEW ch \in Channels
        PROVE  /\ Len(buf'[ch]) \in Nat /\ Len(buf'[ch]) <= Cap(ch)
               /\ \A h \in parked' : h \in Waiting("send", ch) => Len(buf'[ch]) >= Cap(ch) /\ ch \notin closed'
               /\ \A h \in parked' : h \in Waiting("recv", ch) => buf'[ch] = <<>> /\ ch \notin closed'
    <3>1. CASE ch = k
      <4>1. Len(buf'[k]) = Len(buf[k]) - 1 /\ Len(buf'[k]) \in Nat
        BY <1>3, <1>5, LenProperties
      <4>2. Len(buf[k]) <= Cap(k) /\ Len(buf[k]) \in Nat /\ Cap(k) \in Nat
        BY <1>1, ParkedFacts
      <4>3. Len(buf'[k]) <= Cap(k)
        BY <4>1, <4>2
      <4> QED BY <1>2, <2>2, <3>1, <4>1, <4>3
    <3>2. CASE ch # k
      BY <1>2, <1>5, <3>2, ParkedFacts
    <3> QED BY <3>1, <3>2
  <2> QED BY <1>2, <2>1, <2>3, StayParked
<1>8. Got(g, c)
  BY <1>3, <1>5 DEF Got, k
<1>9. Views
  <2>1. Stream(k)' = Stream(k)
    BY <1>3, <1>5 DEF Stream
  <2>2. \A ch \in Channels \ {k} : Stream(ch)' = Stream(ch) /\ seen'[ch] = seen[ch]
    BY <1>5 DEF Stream
  <2>3. \A h \in started : View(h)
    BY <1>1, <1>5, <1>8, TypeFacts DEF View
  <2>4. \A h \in Goroutines \ started : local'[h] = local[h]
    BY <1>5
  <2> QED BY <1>2, <1>8, <2>1, <2>2, <2>3, <2>4 DEF Views, k
<1> QED BY <1>6, <1>7, <1>9 DEF StepOK

\* A goroutine is parked when no case is ready; nobody it could meet is parked.
LEMMA ParkStep ==
  ASSUME GoType, ChannelInv, NEW g \in started, Running(g), Park(g), UNCHANGED sample
  PROVE  StepOK
<1>1. /\ NoneReady(g) /\ Code(g).next = Block /\ parked' = parked \cup {g}
      /\ earlier' = earlier \cup (parked \X {g}) /\ g \notin parked
      /\ UNCHANGED <<sample, local, started, buf, closed, wg, seen>>
  BY DEF Park, Running
<1>2. \A h : Code(h)' = Code(h)
  BY <1>1 DEF Code
<1>3. GoType'
  <2>1. Crew' = Crew /\ OrderOK'
    BY <1>1, ParkOrder DEF Crew, GoType
  <2> QED BY <1>1, <2>1 DEF GoType
<1>4. \A dir, ch : Waiting(dir, ch)' \subseteq Waiting(dir, ch) \cup {h \in {g} : Cases(g, dir, ch) # {}}
  BY <1>1, <1>2 DEF Waiting, Cases
<1>5. \A ch \in Channels : Cases(g, "recv", ch) # {} => buf[ch] = <<>> /\ Waiting("send", ch) = {}
  <2>1. ASSUME NEW ch \in Channels, NEW c \in Cases(g, "recv", ch)
        PROVE  buf[ch] = <<>> /\ Waiting("send", ch) = {}
    BY <1>1 DEF Cases, NoneReady, Ready
  <2> QED BY <2>1
<1>6. \A ch \in Channels : Cases(g, "send", ch) # {} => Waiting("recv", ch) = {} /\ ~(Len(buf[ch]) < Cap(ch))
  <2>1. ASSUME NEW ch \in Channels, NEW c \in Cases(g, "send", ch)
        PROVE  Waiting("recv", ch) = {} /\ ~(Len(buf[ch]) < Cap(ch))
    BY <1>1 DEF Cases, NoneReady, Ready
  <2> QED BY <2>1
<1>7. ASSUME NEW h \in parked', NEW c \in Code(h).arg PROVE ~Ready(c)'
  <2>1. Code(h).op = "comm" /\ ~Ready(c) /\ h \in started
    BY <1>1, <1>7 DEF ChannelInv, NoneReady, GoType
  <2>2. c \in CommCases /\ c.ch \in Channels /\ c.dir \in {"send", "recv"}
    BY <2>1, <1>7, TypeFacts, CaseFacts DEF Offers, CommCases
  <2>3. Cap(c.ch)' = Cap(c.ch)
    BY <1>1, CapStays
  <2>4. CASE c.dir = "send"
    <3>1. Waiting("recv", c.ch) = {} /\ ~(Len(buf[c.ch]) < Cap(c.ch)) /\ c.ch \notin closed
      BY <2>1, <2>4 DEF Ready
    <3>2. Cases(g, "recv", c.ch) = {}
      <4>1. CASE h = g
        <5>1. StatementOK(Code(g), Crew)
          BY TypeFacts
        <5>2. \A d \in Code(g).arg : d.ch = c.ch => d.dir = "send"
          BY <1>7, <2>1, <2>4, <4>1, <5>1 DEF StatementOK
        <5> QED BY <5>2 DEF Cases
      <4>2. CASE h # g
        <5>1. h \in Waiting("send", c.ch)
          BY <1>1, <1>7, <2>1, <2>4, <4>2, WaitingIs DEF Offers
        <5> QED BY <1>5, <2>2, <5>1
      <4> QED BY <4>1, <4>2
    <3>3. Waiting("recv", c.ch)' = {}
      BY <1>4, <3>1, <3>2
    <3> QED BY <1>1, <2>3, <2>4, <3>1, <3>3 DEF Ready
  <2>5. CASE c.dir = "recv"
    <3>1. Waiting("send", c.ch) = {} /\ buf[c.ch] = <<>> /\ c.ch \notin closed
      BY <2>1, <2>5 DEF Ready
    <3>2. Cases(g, "send", c.ch) = {}
      <4>1. CASE h = g
        <5>1. StatementOK(Code(g), Crew)
          BY TypeFacts
        <5>2. \A d \in Code(g).arg : d.ch = c.ch => d.dir = "recv"
          BY <1>7, <2>1, <2>5, <4>1, <5>1 DEF StatementOK
        <5> QED BY <5>2 DEF Cases
      <4>2. CASE h # g
        <5>1. h \in Waiting("recv", c.ch)
          BY <1>1, <1>7, <2>1, <2>5, <4>2, WaitingIs DEF Offers
        <5> QED BY <1>6, <2>2, <5>1
      <4> QED BY <4>1, <4>2
    <3>3. Waiting("send", c.ch)' = {}
      BY <1>4, <3>1, <3>2
    <3> QED BY <1>1, <2>5, <3>1, <3>3 DEF Ready
  <2> QED BY <2>2, <2>4, <2>5
<1>8. ChannelInv'
  <2>1. ASSUME NEW ch \in Channels
        PROVE  Len(buf'[ch]) <= Cap(ch)' /\ (buf'[ch] # <<>> => Waiting("recv", ch)' = {})
    BY <1>1, <1>4, <1>5, CapStays DEF ChannelInv
  <2>2. ASSUME NEW h \in parked' PROVE NoneReady(h)' /\ Code(h)'.next = Block
    <3>1. Code(h)' = Code(h)
      BY <1>2
    <3>2. Code(h).op = "comm" /\ Code(h).next = Block
      BY <1>1, <2>2 DEF ChannelInv, NoneReady
    <3> QED BY <1>7, <2>2, <3>1, <3>2 DEF NoneReady
  <2> QED BY <2>1, <2>2 DEF ChannelInv
<1>9. Views
  <2>1. \A ch \in Channels : Stream(ch)' = Stream(ch)
    BY <1>1 DEF Stream
  <2> QED BY <1>1, <2>1 DEF Views, View
<1> QED BY <1>3, <1>8, <1>9 DEF StepOK

\* No one sends to what is closed next.
SafeToClose(chs) == \A h \in started : \A c : Offers(h, "send", c) => c.ch \notin chs

\* Whom a close releases, and what they receive.
LEMMA AfterCloseIs ==
  ASSUME GoType, ChannelInv, NEW chs \in SUBSET Channels, NEW h \in Goroutines
  PROVE  /\ AfterClose(chs)[h] \in Locals
         /\ h \notin Woken(chs) => AfterClose(chs)[h] = local[h]
         /\ h \in Woken(chs) => \E c : /\ Offers(h, "recv", c) /\ c.ch \in chs /\ buf[c.ch] = <<>>
                                       /\ AfterClose(chs)[h] = ReadClosed(c)
<1>1. h \notin Woken(chs) => AfterClose(chs)[h] = local[h] /\ local[h] \in Locals
  BY DEF AfterClose, GoType
<1>2. ASSUME h \in Woken(chs)
      PROVE  \E c : /\ Offers(h, "recv", c) /\ c.ch \in chs /\ buf[c.ch] = <<>>
                    /\ AfterClose(chs)[h] = ReadClosed(c) /\ ReadClosed(c) \in Locals
  <2> DEFINE ch == CHOOSE x \in chs : Cases(h, "recv", x) # {}  c == CaseOf(h, "recv", ch)
  <2>1. h \in parked /\ h \in started /\ \E x \in chs : Cases(h, "recv", x) # {}
    BY <1>2 DEF Woken, GoType
  <2>2. ch \in chs /\ Cases(h, "recv", ch) # {}
    BY <2>1
  <2>3. AfterClose(chs)[h] = ReadClosed(c)
    BY <1>2 DEF AfterClose
  <2> HIDE DEF ch
  <2>4. c \in Cases(h, "recv", ch)
    BY <2>2 DEF CaseOf
  <2>5. Offers(h, "recv", c) /\ c.ch = ch
    BY <2>4 DEF Cases, Offers
  <2>6. ReadClosed(c) \in Locals
    BY <2>1, <2>5, OfferFacts
  <2>7. h \in Waiting("recv", ch)
    BY <2>1, <2>2 DEF Waiting
  <2>8. buf[c.ch] = <<>>
    BY <2>2, <2>5, <2>7, ParkedFacts
  <2> HIDE DEF c
  <2> QED BY <2>2, <2>3, <2>5, <2>6, <2>8
<1> QED BY <1>1, <1>2

\* A close wakes all receivers of its channels, and nobody waits to send to them.
LEMMA CloseEffect ==
  ASSUME GoType, ChannelInv, NEW chs \in SUBSET Channels, SafeToClose(chs), CloseAll(chs),
         local' \in [Goroutines -> Locals],
         \A h \in parked : local'[h] = AfterClose(chs \ closed)[h],
         UNCHANGED <<sample, started, buf, wg, seen>>
  PROVE  GoType' /\ ChannelInv' /\ \A h \in parked : View(h)
<1> DEFINE new == chs \ closed
<1>1. closed' = closed \cup chs /\ parked' = parked \ Woken(new) /\ new \in SUBSET Channels /\ Unpark(Woken(new))
  BY DEF CloseAll, Unpark
<1>2. parked \subseteq Goroutines /\ parked \subseteq started
  BY SomeGoroutines DEF GoType
<1>3. GoType'
  <2>1. Crew' = Crew /\ OrderOK'
    BY <1>1, UnparkOrder DEF Crew, GoType
  <2> QED BY <1>1, <2>1 DEF GoType
<1>4. \A h \in parked' : h \in parked /\ local'[h] = local[h]
  BY <1>1, <1>2, AfterCloseIs
<1>5. ChannelInv'
  <2>1. ASSUME NEW ch \in Channels, NEW h \in parked', h \in Waiting("send", ch)
        PROVE  Len(buf'[ch]) >= Cap(ch) /\ ch \notin closed'
    <3>1. Len(buf[ch]) = Cap(ch) /\ ch \notin closed /\ Len(buf[ch]) \in Nat
      BY <2>1, ParkedFacts
    <3>2. ch \notin chs
      BY <1>2, <2>1, WaitingIs DEF SafeToClose
    <3> QED BY <1>1, <3>1, <3>2
  <2>2. ASSUME NEW ch \in Channels, NEW h \in parked', h \in Waiting("recv", ch)
        PROVE  buf'[ch] = <<>> /\ ch \notin closed'
    <3>1. buf[ch] = <<>> /\ ch \notin closed
      BY <2>2, ParkedFacts
    <3>2. ch \notin chs
      BY <1>1, <2>2, <3>1 DEF Woken, Waiting
    <3> QED BY <1>1, <3>1, <3>2
  <2>3. \A ch \in Channels : Len(buf'[ch]) \in Nat /\ Len(buf'[ch]) <= Cap(ch)
    BY ParkedFacts
  <2> QED BY <1>1, <1>4, <2>1, <2>2, <2>3, StayParked
<1>6. ASSUME NEW h \in parked PROVE View(h)
  <2>1. CASE h \notin Woken(new)
    BY <1>1, <1>2, <2>1, AfterCloseIs DEF View
  <2>2. CASE h \in Woken(new)
    <3>1. PICK c : /\ Offers(h, "recv", c) /\ c.ch \in new /\ buf[c.ch] = <<>>
                   /\ AfterClose(new)[h] = ReadClosed(c)
      BY <1>1, <1>2, <2>2, AfterCloseIs
    <3>2. Drained(h, c)
      BY <1>1, <3>1 DEF Drained
    <3> QED BY <3>2 DEF View
  <2> QED BY <2>1, <2>2
<1> QED BY <1>3, <1>5, <1>6

\* Closing by a goroutine, and by the time of the context.
LEMMA CloseStep ==
  ASSUME GoType, ChannelInv, NEW g \in started, Running(g), SafeToClose(Code(g).arg),
         Code(g).arg \cap closed \subseteq Contexts, CloseChannels(g), UNCHANGED sample
  PROVE  StepOK
<1> DEFINE chs == Code(g).arg
<1>1. Code(g).op = "close" /\ CloseAll(chs) /\ UNCHANGED <<sample, started, buf, wg, seen>>
  BY DEF CloseChannels
<1>2. chs \in SUBSET Channels /\ Code(g).next \in Locals /\ g \in Goroutines
  BY <1>1, TypeFacts DEF StatementOK
<1>3. local' = [AfterClose(chs \ closed) EXCEPT ![g] = Code(g).next]
  BY DEF CloseChannels
<1>4. g \notin parked /\ parked \subseteq Goroutines /\ started \subseteq Goroutines /\ closed' = closed \cup chs
  BY <1>1, SomeGoroutines DEF Running, GoType, CloseAll
<1> HIDE DEF chs
<1>5. \A h \in Goroutines : AfterClose(chs \ closed)[h] \in Locals
  BY <1>2, AfterCloseIs
<1>6. /\ local' \in [Goroutines -> Locals] /\ local'[g] = Code(g).next
      /\ \A h \in Goroutines \ {g} : local'[h] = AfterClose(chs \ closed)[h]
  BY <1>2, <1>3, <1>5 DEF AfterClose
<1>7. \A h \in (Goroutines \ {g}) \ parked : local'[h] = local[h]
  BY <1>2, <1>6, AfterCloseIs DEF Woken
<1>8. GoType' /\ ChannelInv' /\ \A h \in parked : View(h)
  <2>1. \A h \in parked : local'[h] = AfterClose(chs \ closed)[h]
    BY <1>4, <1>6
  <2>2. SafeToClose(chs)
    BY DEF chs
  <2> QED BY <1>1, <1>2, <1>6, <2>1, <2>2, CloseEffect
<1>9. Passed(g)
  BY <1>1, <1>4, <1>6 DEF Passed, chs
<1>10. Views
  <2>1. \A ch \in Channels : Stream(ch)' = Stream(ch)
    BY <1>1 DEF Stream
  <2>2. \A h \in started : View(h)
    BY <1>4, <1>7, <1>8, <1>9 DEF View
  <2>3. \A h \in Goroutines \ started : local'[h] = local[h]
    <3>1. parked \subseteq started
      BY DEF GoType
    <3> QED BY <1>7, <3>1
  <2>4. Passed(g) /\ Code(g).op = "close" /\ closed' = closed \cup Code(g).arg
    BY <1>1, <1>4, <1>9 DEF chs
  <2> QED BY <1>1, <2>1, <2>2, <2>3, <2>4 DEF Views
<1> QED BY <1>8, <1>10 DEF StepOK

LEMMA ExpireStep ==
  ASSUME GoType, ChannelInv, SafeToClose({"done"}), Expire
  PROVE  StepOK
<1> DEFINE chs == {"done"}
<1>1. /\ sample = "TimeoutContext" /\ "done" \notin closed /\ CloseAll(chs) /\ local' = AfterClose(chs)
      /\ UNCHANGED <<sample, started, buf, wg, seen>> /\ chs \ closed = chs
  BY DEF Expire
<1>2. chs \in SUBSET Channels
  BY DEF Channels, Contexts
<1>3. parked \subseteq started /\ started \subseteq Goroutines /\ closed' = closed \cup chs
  BY <1>1, SomeGoroutines DEF GoType, CloseAll
<1> HIDE DEF chs
<1>4. \A h \in Goroutines : local'[h] \in Locals /\ (h \notin parked => local'[h] = local[h])
  BY <1>1, <1>2, AfterCloseIs DEF Woken
<1>5. local' \in [Goroutines -> Locals]
  BY <1>1, <1>4 DEF AfterClose
<1>6. GoType' /\ ChannelInv' /\ \A h \in parked : View(h)
  <2>1. SafeToClose(chs)
    BY DEF chs
  <2> QED BY <1>1, <1>2, <1>5, <2>1, CloseEffect
<1>7. Views
  <2>1. \A ch \in Channels : Stream(ch)' = Stream(ch)
    BY <1>1 DEF Stream
  <2>2. \A h \in started : View(h)
    BY <1>3, <1>4, <1>6 DEF View
  <2> QED BY <1>1, <1>3, <1>4, <2>1, <2>2 DEF Views, chs
<1> QED BY <1>6, <1>7 DEF StepOK

\* A select that communicates, in each of the five ways.
LEMMA CommunicateStep ==
  ASSUME GoType, ChannelInv, Unsent, NEW g \in started, Running(g), Communicate(g), UNCHANGED sample
  PROVE  StepOK
<1>1. PICK c \in Code(g).arg : IF c.dir = "send" THEN DoSend(g, c) ELSE DoReceive(g, c)
  BY DEF Communicate
<1>2. Code(g).op = "comm" /\ Offers(g, c.dir, c) /\ UNCHANGED <<sample, started, closed, wg>>
  BY <1>1 DEF Communicate, Offers
<1>3. CASE c.dir = "send"
  <2>1. Offers(g, "send", c) /\ c.ch \notin closed
    BY <1>2, <1>3 DEF Unsent
  <2>2. SendToBuffer(g, c) \/ SendToReceiver(g, c)
    BY <1>1, <1>3, <2>1 DEF DoSend
  <2> QED BY <1>2, <2>1, <2>2, SendToBufferStep, SendToReceiverStep
<1>4. CASE c.dir # "send"
  <2>1. Offers(g, "recv", c)
    <3>1. c \in CommCases
      BY <1>2, OfferFacts
    <3>2. c.dir \in {"send", "recv"}
      BY <3>1 DEF CommCases
    <3> QED BY <1>2, <1>4, <3>2
  <2>2. ReceiveClosed(g, c) \/ ReceiveFromBuffer(g, c) \/ ReceiveFromSender(g, c)
    BY <1>1, <1>4 DEF DoReceive
  <2> QED BY <1>2, <2>1, <2>2, ReceiveClosedStep, ReceiveFromBufferStep, ReceiveFromSenderStep
<1> QED BY <1>3, <1>4

\* Every step is one of those, as long as the closers are the senders and close once.
LEMMA StepIsOK ==
  ASSUME GoType, ChannelInv, Unsent, Next,
         \A g \in started : Code(g).op = "close" =>
           SafeToClose(Code(g).arg) /\ Code(g).arg \cap closed \subseteq Contexts,
         sample = "TimeoutContext" => SafeToClose({"done"})
  PROVE  StepOK
<1>1. CASE Expire
  BY <1>1, ExpireStep DEF Expire
<1>2. CASE \E g \in Goroutines : Run(g)
  <2>1. PICK g \in Goroutines : Run(g)
    BY <1>2
  <2>2. Running(g) /\ g \in started /\ UNCHANGED sample
    BY <2>1 DEF Run, Running
  <2>3. CASE CloseChannels(g)
    BY <2>2, <2>3, CloseStep DEF CloseChannels
  <2> QED BY <2>1, <2>2, <2>3, CommunicateStep, TakeDefaultStep, ParkStep, StartStep, WaitGroupStep DEF Run
<1> QED BY <1>1, <1>2 DEF Next

-----------------------------------------------------------------------------
(* The values that a sender sends one after the other.                     *)

Ones(n) == [i \in 1 .. n |-> i]

\* The sequences that the tests are to see: their elements,
LEMMA SequencesAre ==
  ASSUME NEW n \in Nat
  PROVE  /\ UpTo(n) \in Seq(Int) /\ Len(UpTo(n)) = n /\ \A i \in 1 .. n : UpTo(n)[i] = i - 1
         /\ Odd(n) \in Seq(Int) /\ Len(Odd(n)) = n /\ \A i \in 1 .. n : Odd(n)[i] = 2 * i - 1
         /\ Even(n) \in Seq(Int) /\ Len(Even(n)) = n /\ \A i \in 1 .. n : Even(n)[i] = 2 * (i - 1)
         /\ Ones(n) \in Seq(Int) /\ Len(Ones(n)) = n /\ \A i \in 1 .. n : Ones(n)[i] = i
  BY DEF UpTo, Odd, Even, Ones

\* and how they grow.
LEMMA SequencesNext ==
  ASSUME NEW n \in Nat
  PROVE  /\ Append(UpTo(n), n) = UpTo(n + 1) /\ Append(Ones(n), n + 1) = Ones(n + 1)
         /\ Append(Odd(n), 2 * n + 1) = Odd(n + 1) /\ Append(Even(n), 2 * n) = Even(n + 1)
         /\ UpTo(0) = <<>> /\ Ones(0) = <<>> /\ Odd(0) = <<>> /\ Even(0) = <<>>
<1>1. Append(UpTo(n), n) = UpTo(n + 1)
  BY DEF UpTo
<1>2. Append(Ones(n), n + 1) = Ones(n + 1)
  BY DEF Ones
<1>3. Append(Odd(n), 2 * n + 1) = Odd(n + 1)
  BY DEF Odd
<1>4. Append(Even(n), 2 * n) = Even(n + 1)
  BY DEF Even
<1>5. UpTo(0) = <<>> /\ Ones(0) = <<>> /\ Odd(0) = <<>> /\ Even(0) = <<>>
  BY DEF UpTo, Ones, Odd, Even
<1> QED BY <1>1, <1>2, <1>3, <1>4, <1>5

\* What has been received is the beginning of what was sent.
LEMMA Beginning ==
  ASSUME NEW s \in Seq(Int), NEW t \in Seq(Int), NEW x \in Seq(Int), s \o t = x
  PROVE  /\ Len(s) \in Nat /\ Len(s) <= Len(x) /\ \A i \in 1 .. Len(s) : s[i] = x[i]
         /\ Len(s) >= Len(x) => s = x
         /\ t = <<>> => s = x
<1>1. Len(s) \in Nat /\ Len(t) \in Nat /\ Len(s) + Len(t) = Len(x)
  OBVIOUS
<1>2. \A i \in 1 .. Len(s) : s[i] = x[i]
  OBVIOUS
<1>3. Len(s) >= Len(x) => t = <<>>
  <2>1. \A z \in Seq(Int) : Len(z) = 0 => z = <<>>
    OBVIOUS
  <2> QED BY <1>1, <2>1
<1>4. t = <<>> => s = x
  <2>1. s \o <<>> = s
    OBVIOUS
  <2> QED BY <2>1
<1> QED BY <1>1, <1>2, <1>3, <1>4

\* What has been received of n numbers x, when t is left.
Left(s, t, x) == s \o t = x

\* Who has read all of a stream, or all there is in it, has seen the stream.
LEMMA ReadIs ==
  ASSUME NEW s \in Seq(Int), NEW t \in Seq(Int), NEW n \in Nat, NEW x,
         x = UpTo(n) \/ x = Ones(n) \/ x = Odd(n) \/ x = Even(n), Left(s, t, x)
  PROVE  /\ Len(s) \in Nat /\ Len(s) <= n
         /\ Len(s) = n \/ t = <<>> => s = x /\ Len(s) = n
<1>1. x \in Seq(Int) /\ Len(x) = n
  BY SequencesAre
<1>2. Len(s) \in Nat /\ Len(s) <= Len(x) /\ (Len(s) >= Len(x) => s = x) /\ (t = <<>> => s = x)
  BY <1>1, Beginning DEF Left
<1> QED BY <1>1, <1>2

\* What is received next is what was sent next.
LEMMA NextValue ==
  ASSUME NEW s \in Seq(Int), NEW v \in Int, NEW t \in Seq(Int), NEW n \in Nat, NEW x,
         x = UpTo(n) \/ x = Ones(n) \/ x = Odd(n) \/ x = Even(n), Left(Append(s, v), t, x)
  PROVE  /\ Len(s) \in Nat /\ Len(s) + 1 <= n /\ Len(Append(s, v)) = Len(s) + 1
         /\ v = x[Len(s) + 1]
<1> DEFINE a == Append(s, v)
<1>1. a \in Seq(Int) /\ Len(a) = Len(s) + 1 /\ Len(s) \in Nat /\ a[Len(s) + 1] = v /\ a \o t = x
  BY DEF Left
<1>0. x \in Seq(Int) /\ Len(x) = n
  BY SequencesAre
<1> HIDE DEF a
<1>2. Len(a) <= Len(x) /\ \A i \in 1 .. Len(a) : a[i] = x[i]
  BY <1>0, <1>1, Beginning
<1>3. Len(s) \in Nat /\ Len(s) + 1 <= n /\ Len(a) = Len(s) + 1
  BY <1>0, <1>1, <1>2
<1>4. v = x[Len(s) + 1]
  BY <1>1, <1>2, <1>3
<1> QED BY <1>3, <1>4 DEF a

-----------------------------------------------------------------------------
(* What may happen to a goroutine that alone sends to ch and alone closes  *)
(* it.                                                                     *)

Sends(h, ch) == \E c : Offers(h, "send", c) /\ c.ch = ch
Receives(h, ch) == \E c : Offers(h, "recv", c) /\ c.ch = ch
Closes(h) == Code(h).op = "close"

\* The step of h, none of whose statements returns to itself, as the stream into ch has it.
Moves(h, ch) ==
  \/ local'[h] = local[h] /\ Stream(ch)' = Stream(ch) /\ closed' = closed
  \/ \E c : /\ Sent(h, c) /\ closed' = closed
            /\ Stream(ch)' = IF c.ch = ch THEN Append(Stream(ch), c.v) ELSE Stream(ch)
  \/ /\ Passed(h) /\ Stream(ch)' = Stream(ch)
     /\ IF Closes(h) THEN closed' = closed \cup Code(h).arg ELSE closed' = closed

\* The only goroutine that sends to a channel or closes it extends its stream with each of its steps.
LEMMA SenderMoves ==
  ASSUME GoType, Views, sample # "TimeoutContext", NEW o \in Goroutines, NEW ch \in Channels,
         \A h \in started : (Sends(h, ch) \/ Closes(h)) => h = o,
         \A c : ~Offers(o, "recv", c),
         \A c : Offers(o, "send", c) => c.next # local[o],
         Code(o).next # local[o]
  PROVE  Moves(o, ch)
<1>1. Stream(ch)' = Stream(ch) \/ \E c : Sent(o, c) /\ c.ch = ch
  <2>1. ASSUME NEW h \in started, NEW c, Sent(h, c), c.ch = ch PROVE h = o
    BY <2>1 DEF Sent, Sends
  <2> QED BY <2>1 DEF Views
<1>2. closed' = closed \/ (o \in started /\ Passed(o) /\ Closes(o) /\ closed' = closed \cup Code(o).arg)
  BY DEF Views, Closes
<1>3. \A c : Sent(o, c) => Code(o).op = "comm" /\ local'[o] # local[o]
  BY DEF Sent, Offers
<1>4. CASE o \notin started
  <2>1. local'[o] = local[o]
    BY <1>4 DEF Views
  <2> QED BY <1>1, <1>2, <1>3, <1>4, <2>1 DEF Moves
<1>5. CASE o \in started
  <2>1. View(o)
    BY <1>5 DEF Views
  <2>2. CASE local'[o] = local[o]
    <3>1. ~Passed(o)
      BY <2>2 DEF Passed
    <3> QED BY <1>1, <1>2, <1>3, <2>2, <3>1 DEF Moves
  <2>3. CASE \E c : Sent(o, c)
    <3>1. PICK c : Sent(o, c)
      BY <2>3
    <3>2. closed' = closed
      BY <1>2, <1>3, <3>1 DEF Closes
    <3>3. CASE c.ch = ch
      BY <3>1, <3>2, <3>3 DEF Moves, Sent
    <3>4. CASE c.ch # ch
      <4>1. CASE Stream(ch)' = Stream(ch)
        BY <3>1, <3>2, <3>4, <4>1 DEF Moves
      <4>2. CASE \E d : Sent(o, d) /\ d.ch = ch
        BY <3>2, <4>2 DEF Moves, Sent
      <4> QED BY <1>1, <4>1, <4>2
    <3> QED BY <3>3, <3>4
  <2>4. CASE Passed(o)
    <3>1. CASE \E d : Sent(o, d) /\ d.ch = ch
      <4>1. PICK d : Sent(o, d) /\ d.ch = ch
        BY <3>1
      <4>2. closed' = closed
        BY <1>2, <1>3, <4>1 DEF Closes
      <4> QED BY <4>1, <4>2 DEF Moves, Sent
    <3>2. CASE Stream(ch)' = Stream(ch)
      <4>1. Closes(o) => closed' = closed \cup Code(o).arg
        BY <2>4 DEF Passed, Closes, NoneReady
      <4> QED BY <1>2, <2>4, <3>2, <4>1 DEF Moves
    <3> QED BY <1>1, <3>1, <3>2
  <2> QED BY <2>1, <2>2, <2>3, <2>4 DEF View, Got, Drained
<1> QED BY <1>4, <1>5

-----------------------------------------------------------------------------
(* The programs, as far as the invariants need them.                       *)

Closing == {"ChannelPop", "ChannelPopForRange", "ChannelRangeAndHidenSize", "ChannelClose"}

\* What the constructors of statements build.
LEMMA OpsAre ==
  /\ \A ch, v, n : Send(ch, v, n).op = "comm" /\ \A m : Receive(ch, m).op = "comm"
  /\ \A cases, n : SelectDefault(cases, n).op = "comm" /\ Select(cases).op = "comm"
  /\ \A chs, n : Close(chs, n).op = "close" /\ Close(chs, n).arg = chs /\ Close(chs, n).next = n
  /\ \A gs, n : GoAll(gs, n).op = "go" /\ GoAll(gs, n).next = n
  /\ \A n : Wait(n).op = "wait" /\ Wait(n).next = n /\ Done(n).op = "wgDone" /\ Done(n).next = n
  /\ Stop.op = "stop"
  BY DEF Send, Receive, Select, SelectDefault, Close, GoAll, Wait, Done, Stop, Stmt

\* The samples of contexts close nothing that is sent to, and count no WaitGroup.
LEMMA ContextClosings ==
  ASSUME NEW g, NEW s, NEW hs
  PROVE  \A st \in {CancelContext(hs, g, s), TimeoutContext(g, s), CancelContextCancelParent(g, s),
                    CancelContextCancelChild(g, s), DoRepeatedJob(g, s), DoBlockingJob(g, s)} :
           st.op # "wgDone" /\ (st.op = "close" => st.arg \subseteq NeverSent)
<1>1. BlockingFnA(s).op \in {"comm", "stop"} /\ BlockingFnD(s).op \in {"comm", "stop"}
  BY OpsAre DEF BlockingFnA, BlockingFnD
<1>2. LET st == CancelContext(hs, g, s) IN st.op # "wgDone" /\ (st.op = "close" => st.arg \subseteq NeverSent)
  BY <1>1, OpsAre DEF CancelContext, NeverSent
<1>3. LET st == TimeoutContext(g, s) IN st.op # "wgDone" /\ (st.op = "close" => st.arg \subseteq NeverSent)
  BY <1>1, OpsAre DEF TimeoutContext, NeverSent
<1>4. LET st == CancelContextCancelParent(g, s) IN
      st.op # "wgDone" /\ (st.op = "close" => st.arg \subseteq NeverSent)
  BY <1>1, OpsAre DEF CancelContextCancelParent, NeverSent
<1>5. LET st == CancelContextCancelChild(g, s) IN
      st.op # "wgDone" /\ (st.op = "close" => st.arg \subseteq NeverSent)
  BY <1>1, OpsAre DEF CancelContextCancelChild, NeverSent
<1>6. LET st == DoRepeatedJob(g, s) IN st.op # "wgDone" /\ (st.op = "close" => st.arg \subseteq NeverSent)
  BY OpsAre DEF DoRepeatedJob, NeverSent
<1>7. LET st == DoBlockingJob(g, s) IN st.op # "wgDone" /\ (st.op = "close" => st.arg \subseteq NeverSent)
  BY <1>6, OpsAre DEF DoBlockingJob
<1> QED BY <1>2, <1>3, <1>4, <1>5, <1>6, <1>7

\* What the other samples close are the channels of contexts, and only the readers of two
\* take part in a WaitGroup.
LEMMA OtherCode ==
  ASSUME sample \in Samples, sample \notin Closing, NEW g \in {"main"} \cup Crew
  PROVE  /\ Code(g).op = "close" => Code(g).arg \subseteq NeverSent
         /\ Code(g).op = "wgDone" => sample \in Waits
         /\ Code(g).op = "close" /\ sample = "ChannelForSelect" => FALSE
         /\ Code(g).op = "close" /\ sample = "SelectRace" => FALSE
<1> DEFINE s == local[g]
<1>1. CASE sample \in {"CancelContext", "CancelContextM", "TimeoutContext", "CancelContextCancelParent",
                       "CancelContextCancelChild", "DoRepeatedJob", "DoBlockingJob"}
  <2>1. \E hs : Code(g) \in {CancelContext(hs, g, s), TimeoutContext(g, s), CancelContextCancelParent(g, s),
                             CancelContextCancelChild(g, s), DoRepeatedJob(g, s), DoBlockingJob(g, s)}
    BY <1>1 DEF Code
  <2> QED BY <1>1, <2>1, ContextClosings
<1>2. CASE sample = "ChannelSize"
  BY <1>2, OpsAre DEF Code, ChannelSize, Crew
<1>3. CASE sample = "ChannelForSelect"
  BY <1>3, OpsAre DEF Code, ChannelForSelect, Waits
<1>4. CASE sample = "ChannelWithGoroutine"
  BY <1>4, OpsAre DEF Code, ChannelWithGoroutine
<1>5. CASE sample = "ChannelRaceInSelect"
  BY <1>5, OpsAre DEF Code, ChannelRaceInSelect, Waits, NeverSent
<1>6. CASE sample = "SelectDefault"
  BY <1>6, OpsAre DEF Code, SelectWithDefault
<1>7. CASE sample = "SelectFor"
  BY <1>7, OpsAre DEF Code, SelectFor
<1>8. CASE sample = "SelectRace"
  BY <1>8, OpsAre DEF Code, SelectRace
<1> QED BY <1>1, <1>2, <1>3, <1>4, <1>5, <1>6, <1>7, <1>8, SamplesAssumption DEF Closing

\* What a statement offers.
LEMMA OffersAre ==
  ASSUME NEW h, NEW dir, NEW c, Offers(h, dir, c)
  PROVE  /\ \A ch, v, n : Code(h) = Send(ch, v, n) => c = SndCase(ch, v, n) /\ dir = "send"
         /\ \A ch, n : Code(h) = Receive(ch, n) => c = RcvCase(ch, n) /\ dir = "recv"
         /\ \A cases, n : Code(h) = SelectDefault(cases, n) => c \in cases
         /\ \A cases : Code(h) = Select(cases) => c \in cases
  BY DEF Offers, Send, Receive, Select, SelectDefault, Stmt, SndCase, RcvCase

\* What the constructors of cases build; what the next state of a goroutine is.
LEMMA CasesAre ==
  /\ \A ch, v, n : SndCase(ch, v, n).ch = ch /\ SndCase(ch, v, n).v = v /\ SndCase(ch, v, n).next = n
                   /\ SndCase(ch, v, n).dir = "send"
  /\ \A ch, n : RcvCase(ch, n).ch = ch /\ RcvCase(ch, n).next = n /\ RcvCase(ch, n).dir = "recv"
  BY DEF SndCase, RcvCase

LEMMA IncIs ==
  ASSUME NEW s \in Locals
  PROVE  /\ Inc(s) \in Locals /\ Inc(s).at = s.at + 1 /\ Inc(s).v = s.v /\ Inc(s).ok = s.ok
         /\ Inc(s) # s /\ s # Block /\ Block.at = -1 /\ Inc(s) # Block
  BY DEF Inc, At, Locals, Block

\* A goroutine whose communications all block passes only other statements.
LEMMA PassedIs ==
  ASSUME NEW h, Code(h).op = "comm" => Code(h).next = Block, Passed(h)
  PROVE  /\ local'[h] = Code(h).next /\ Code(h).op \in {"close", "go", "wait", "wgDone"}
         /\ Code(h).op = "wait" => wg = 0
         /\ Code(h).op = "wgDone" => wg' = wg - 1
  BY DEF Passed, NoneReady

\* The programs of the samples, in terms of what is offered, passed and closed at which statement: this
\* lemma and the next seven.
LEMMA PopCode ==
  ASSUME sample = "ChannelPop", NEW h, NEW s \in Locals, s = local[h]
  PROVE  /\ h = "g1" =>
            /\ \A dir, c : Offers(h, dir, c) => dir = "send" /\ s.at < 2 /\ c = SndCase("ch", s.at, Inc(s))
            /\ Passed(h) => s.at = 2 /\ local'[h] = Inc(s) /\ Closes(h)
            /\ Code(h).next # s
            /\ Closes(h) => s.at = 2 /\ Code(h).arg = {"ch"}
         /\ h = "main" =>
            /\ \A dir, c : Offers(h, dir, c) =>
                 dir = "recv" /\ s.at \in 1 .. Many /\ c = RcvCase("ch", Inc(s))
            /\ Passed(h) => s.at = 0 /\ local'[h] = Inc(s)
            /\ Code(h).next # s
            /\ ~Closes(h)
            /\ Ended(h) => s.at > Many
<1>1. CASE h = "g1"
  <2>1. Code(h) = CASE s.at < 2 -> Send("ch", s.at, Inc(s))
                    [] s.at = 2 -> Close({"ch"}, Inc(s))
                    [] OTHER -> Stop
    BY <1>1 DEF Code, ChannelPop
  <2>2. \A dir, c : Offers(h, dir, c) => dir = "send" /\ s.at < 2 /\ c = SndCase("ch", s.at, Inc(s))
    BY <2>1, OffersAre, OpsAre, CasesAre DEF Offers
  <2>3. Code(h).op = "comm" => Code(h).next = Block
    BY <2>1, OpsAre DEF Send, Receive, Select, SelectDefault, Stmt
  <2>4. Passed(h) => s.at = 2 /\ local'[h] = Inc(s) /\ Closes(h)
    BY <2>1, <2>3, OpsAre, PassedIs DEF Closes
  <2> QED BY <1>1, <2>1, <2>2, <2>3, <2>4, OpsAre, IncIs, ManyAssumption DEF Locals, Closes, Ended, Stop, Stmt
<1>2. CASE h = "main"
  <2>1. Code(h) = CASE s.at = 0 -> GoAll({"g1"}, Inc(s))
                    [] s.at \in 1 .. Many -> Receive("ch", Inc(s))
                    [] OTHER -> Stop
    BY <1>2 DEF Code, ChannelPop
  <2>2. \A dir, c : Offers(h, dir, c) => dir = "recv" /\ s.at \in 1 .. Many /\ c = RcvCase("ch", Inc(s))
    BY <2>1, OffersAre, OpsAre, CasesAre DEF Offers
  <2>3. Code(h).op = "comm" => Code(h).next = Block
    BY <2>1, OpsAre DEF Send, Receive, Select, SelectDefault, Stmt
  <2>4. Passed(h) => s.at = 0 /\ local'[h] = Inc(s)
    BY <2>1, <2>3, OpsAre, PassedIs DEF Closes
  <2> QED BY <1>2, <2>1, <2>2, <2>3, <2>4, OpsAre, IncIs, ManyAssumption DEF Locals, Closes, Ended, Stop, Stmt
<1> QED BY <1>1, <1>2

LEMMA ForRangeCode ==
  ASSUME sample = "ChannelPopForRange", NEW h, NEW s \in Locals, s = local[h]
  PROVE  /\ h = "g1" =>
            /\ \A dir, c : Offers(h, dir, c) =>
                 dir = "send" /\ s.at < Many /\ c = SndCase("ch1", s.at, Inc(s))
            /\ Passed(h) => s.at = Many /\ local'[h] = Inc(s) /\ Closes(h)
            /\ Code(h).next # s
            /\ Closes(h) => s.at = Many /\ Code(h).arg = {"ch1"}
         /\ h = "main" =>
            /\ \A dir, c : Offers(h, dir, c) => dir = "recv" /\ s.at = 1 /\ s.ok /\ c = RcvCase("ch1", s)
            /\ Passed(h) => s.at = 0 /\ local'[h] = Inc(s)
            /\ ~Closes(h)
            /\ Ended(h) => s.at # 0 /\ ~(s.at = 1 /\ s.ok)
<1>1. CASE h = "g1"
  <2>1. Code(h) = CASE s.at < Many -> Send("ch1", s.at, Inc(s))
                    [] s.at = Many -> Close({"ch1"}, Inc(s))
                    [] OTHER -> Stop
    BY <1>1 DEF Code, ChannelPopForRange
  <2>2. \A dir, c : Offers(h, dir, c) => dir = "send" /\ s.at < Many /\ c = SndCase("ch1", s.at, Inc(s))
    BY <2>1, OffersAre, OpsAre, CasesAre DEF Offers
  <2>3. Code(h).op = "comm" => Code(h).next = Block
    BY <2>1, OpsAre DEF Send, Receive, Select, SelectDefault, Stmt
  <2>4. Passed(h) => s.at = Many /\ local'[h] = Inc(s) /\ Closes(h)
    BY <2>1, <2>3, OpsAre, PassedIs DEF Closes
  <2> QED BY <1>1, <2>1, <2>2, <2>3, <2>4, OpsAre, IncIs, ManyAssumption DEF Locals, Closes, Ended, Stop, Stmt
<1>2. CASE h = "main"
  <2>1. Code(h) = CASE s.at = 0 -> GoAll({"g1"}, Inc(s))
                    [] s.at = 1 /\ s.ok -> Receive("ch1", s)
                    [] OTHER -> Stop
    BY <1>2 DEF Code, ChannelPopForRange
  <2>2. \A dir, c : Offers(h, dir, c) => dir = "recv" /\ s.at = 1 /\ s.ok /\ c = RcvCase("ch1", s)
    BY <2>1, OffersAre, OpsAre, CasesAre DEF Offers
  <2>3. Code(h).op = "comm" => Code(h).next = Block
    BY <2>1, OpsAre DEF Send, Receive, Select, SelectDefault, Stmt
  <2>4. Passed(h) => s.at = 0 /\ local'[h] = Inc(s)
    BY <2>1, <2>3, OpsAre, PassedIs DEF Closes
  <2> QED BY <1>2, <2>1, <2>2, <2>3, <2>4, OpsAre, IncIs, ManyAssumption DEF Locals, Closes, Ended, Stop, Stmt
<1> QED BY <1>1, <1>2

LEMMA ForSelectCode ==
  ASSUME sample = "ChannelForSelect", NEW h, NEW s \in Locals, s = local[h]
  PROVE  /\ h = "g1" =>
            /\ \A dir, c : Offers(h, dir, c) =>
                 dir = "send" /\ s.at < Many /\ c = SndCase("ch1", s.at, Inc(s))
            /\ Passed(h) => s.at = Many /\ local'[h] = Inc(s) /\ wg' = wg - 1 /\ ~Closes(h)
            /\ Code(h).next # s
            /\ ~Closes(h)
            /\ Code(h).op = "wgDone" => s.at = Many
         /\ h = "main" =>
            /\ \A dir, c : Offers(h, dir, c) =>
                 dir = "recv" /\ s.at = 2 /\ c.ch \in {"ch1", "ch2"} /\ c.next = s
            /\ Passed(h) => s.at < 2 /\ local'[h] = Inc(s)
            /\ ~Closes(h)
            /\ Code(h).op # "wgDone"
            /\ Ended(h) => s.at >= 2 /\ ~(s.at = 2 /\ s.v # 3)
<1>1. CASE h = "g1"
  <2>1. Code(h) = CASE s.at < Many -> Send("ch1", s.at, Inc(s))
                    [] s.at = Many -> Done(Inc(s))
                    [] OTHER -> Stop
    BY <1>1 DEF Code, ChannelForSelect
  <2>2. \A dir, c : Offers(h, dir, c) => dir = "send" /\ s.at < Many /\ c = SndCase("ch1", s.at, Inc(s))
    BY <2>1, OffersAre, OpsAre, CasesAre DEF Offers
  <2>3. Code(h).op = "comm" => Code(h).next = Block
    BY <2>1, OpsAre DEF Send, Receive, Select, SelectDefault, Stmt
  <2>4. Passed(h) => s.at = Many /\ local'[h] = Inc(s) /\ wg' = wg - 1 /\ ~Closes(h)
    BY <2>1, <2>3, OpsAre, PassedIs DEF Closes
  <2> QED BY <1>1, <2>1, <2>2, <2>3, <2>4, OpsAre, IncIs, ManyAssumption DEF Locals, Closes, Ended, Stop, Stmt
<1>2. CASE h = "main"
  <2>1. Code(h) = CASE s.at = 0 -> GoAll({"g1"}, Inc(s))
                    [] s.at = 1 -> Wait(Inc(s))
                    [] s.at = 2 /\ s.v # 3 -> Select({RcvCase("ch1", s), RcvCase("ch2", s)})
                    [] OTHER -> Stop
    BY <1>2 DEF Code, ChannelForSelect
  <2>2. \A dir, c : Offers(h, dir, c) => dir = "recv" /\ s.at = 2 /\ c.ch \in {"ch1", "ch2"} /\ c.next = s
    BY <2>1, OffersAre, OpsAre, CasesAre DEF Offers
  <2>3. Code(h).op = "comm" => Code(h).next = Block
    BY <2>1, OpsAre DEF Send, Receive, Select, SelectDefault, Stmt
  <2>4. Passed(h) => s.at < 2 /\ local'[h] = Inc(s)
    BY <2>1, <2>3, OpsAre, PassedIs DEF Closes
  <2> QED BY <1>2, <2>1, <2>2, <2>3, <2>4, OpsAre, IncIs, ManyAssumption DEF Locals, Closes, Ended, Stop, Stmt
<1> QED BY <1>1, <1>2

LEMMA RangeCode ==
  ASSUME sample = "ChannelRangeAndHidenSize", NEW h, NEW s \in Locals, s = local[h]
  PROVE  /\ h = "g1" =>
            /\ \A dir, c : Offers(h, dir, c) => dir = "recv" /\ s.at = 0 /\ s.ok /\ c = RcvCase("ch", s)
            /\ Passed(h) => s.at = 0 /\ ~s.ok /\ local'[h] = Inc(s) /\ wg' = wg - 1
            /\ ~Closes(h)
         /\ h = "main" =>
            /\ \A dir, c : Offers(h, dir, c) =>
                 dir = "send" /\ s.at \in 1 .. 6 /\ c = SndCase("ch", s.at, Inc(s))
            /\ Passed(h) => /\ s.at \in {0, 7, 8} /\ local'[h] = Inc(s)
                            /\ (Closes(h) <=> s.at = 7) /\ (s.at = 8 => wg = 0)
            /\ Code(h).next # s
            /\ Closes(h) => s.at = 7 /\ Code(h).arg = {"ch"}
            /\ Code(h).op # "wgDone"
            /\ Ended(h) => s.at > 8
<1>1. CASE h = "g1"
  <2>1. Code(h) = CASE s.at = 0 /\ s.ok -> Receive("ch", s)
                    [] s.at = 0 /\ ~s.ok -> Done(Inc(s))
                    [] OTHER -> Stop
    BY <1>1 DEF Code, ChannelRangeAndHidenSize, RangeReader
  <2>2. \A dir, c : Offers(h, dir, c) => dir = "recv" /\ s.at = 0 /\ s.ok /\ c = RcvCase("ch", s)
    BY <2>1, OffersAre, OpsAre, CasesAre DEF Offers
  <2>3. Code(h).op = "comm" => Code(h).next = Block
    BY <2>1, OpsAre DEF Send, Receive, Select, SelectDefault, Stmt
  <2>4. Passed(h) => s.at = 0 /\ ~s.ok /\ local'[h] = Inc(s) /\ wg' = wg - 1
    BY <2>1, <2>3, OpsAre, PassedIs DEF Closes
  <2> QED BY <1>1, <2>1, <2>2, <2>3, <2>4, OpsAre, IncIs, ManyAssumption DEF Locals, Closes, Ended, Stop, Stmt
<1>2. CASE h = "main"
  <2>1. Code(h) = CASE s.at = 0 -> GoAll({"g1"}, Inc(s))
                    [] s.at \in 1 .. 6 -> Send("ch", s.at, Inc(s))
                    [] s.at = 7 -> Close({"ch"}, Inc(s))
                    [] s.at = 8 -> Wait(Inc(s))
                    [] OTHER -> Stop
    BY <1>2 DEF Code, ChannelRangeAndHidenSize, RangeReader
  <2>2. \A dir, c : Offers(h, dir, c) => dir = "send" /\ s.at \in 1 .. 6 /\ c = SndCase("ch", s.at, Inc(s))
    BY <2>1, OffersAre, OpsAre, CasesAre DEF Offers
  <2>3. Code(h).op = "comm" => Code(h).next = Block
    BY <2>1, OpsAre DEF Send, Receive, Select, SelectDefault, Stmt
  <2>4. Passed(h) => /\ s.at \in {0, 7, 8} /\ local'[h] = Inc(s)
                     /\ (Closes(h) <=> s.at = 7) /\ (s.at = 8 => wg = 0)
    BY <2>1, <2>3, OpsAre, PassedIs DEF Closes
  <2>5. Code(h).next # s
    BY <2>1, OpsAre, IncIs DEF Send, Receive, Select, SelectDefault, Stmt, Stop
  <2>6. (Closes(h) => s.at = 7 /\ Code(h).arg = {"ch"}) /\ Code(h).op # "wgDone"
    BY <2>1, OpsAre DEF Closes
  <2>7. Ended(h) => s.at > 8
    BY <2>1, OpsAre DEF Ended, Locals
  <2> QED BY <1>2, <2>2, <2>4, <2>5, <2>6, <2>7
<1> QED BY <1>1, <1>2

LEMMA CloseCode ==
  ASSUME sample = "ChannelClose", NEW h, NEW s \in Locals, s = local[h]
  PROVE  /\ h = "g1" =>
            /\ \A dir, c : Offers(h, dir, c) => dir = "recv"
            /\ Passed(h) => FALSE
            /\ ~Closes(h)
            /\ Code(h).op # "wgDone"
         /\ h = "main" =>
            /\ \A dir, c : Offers(h, dir, c) => dir = "send" /\ s.at < 3 /\ c = SndCase("ch", 1, Inc(s))
            /\ Passed(h) => s.at \in {3, 4} /\ local'[h] = Inc(s) /\ (Closes(h) <=> s.at = 3)
            /\ Code(h).next # s
            /\ Closes(h) => s.at = 3 /\ Code(h).arg = {"ch"}
            /\ Code(h).op # "wgDone"
<1>1. CASE h = "g1"
  <2>1. Code(h) = IF s.ok THEN Receive("ch", s) ELSE Stop
    BY <1>1 DEF Code, ChannelClose
  <2>2. \A dir, c : Offers(h, dir, c) => dir = "recv"
    BY <2>1, OffersAre, OpsAre, CasesAre DEF Offers
  <2>3. Code(h).op = "comm" => Code(h).next = Block
    BY <2>1, OpsAre DEF Send, Receive, Select, SelectDefault, Stmt
  <2>4. Passed(h) => FALSE
    BY <2>1, <2>3, OpsAre, PassedIs DEF Closes
  <2> QED BY <1>1, <2>1, <2>2, <2>3, <2>4, OpsAre, IncIs, ManyAssumption DEF Locals, Closes, Ended, Stop, Stmt
<1>2. CASE h = "main"
  <2>1. Code(h) = CASE s.at < 3 -> Send("ch", 1, Inc(s))
                    [] s.at = 3 -> Close({"ch"}, Inc(s))
                    [] s.at = 4 -> GoAll({"g1"}, Inc(s))
                    [] OTHER -> Stop
    BY <1>2 DEF Code, ChannelClose
  <2>2. \A dir, c : Offers(h, dir, c) => dir = "send" /\ s.at < 3 /\ c = SndCase("ch", 1, Inc(s))
    BY <2>1, OffersAre, OpsAre, CasesAre DEF Offers
  <2>3. Code(h).op = "comm" => Code(h).next = Block
    BY <2>1, OpsAre DEF Send, Receive, Select, SelectDefault, Stmt
  <2>4. Passed(h) => s.at \in {3, 4} /\ local'[h] = Inc(s) /\ (Closes(h) <=> s.at = 3)
    BY <2>1, <2>3, OpsAre, PassedIs DEF Closes
  <2> QED BY <1>2, <2>1, <2>2, <2>3, <2>4, OpsAre, IncIs, ManyAssumption DEF Locals, Closes, Ended, Stop, Stmt
<1> QED BY <1>1, <1>2

LEMMA RaceCode ==
  ASSUME sample = "ChannelRaceInSelect", NEW h, NEW s \in Locals, s = local[h]
  PROVE  /\ h = "g3" =>
            /\ \A dir, c : Offers(h, dir, c) => dir = "recv" /\ s.at < Many /\ c.next = Inc(s)
            /\ Passed(h) => s.at = Many /\ local'[h] = Inc(s) /\ wg' = wg - 1
            /\ Code(h).next # s
            /\ Code(h).op = "wgDone" => s.at = Many
         /\ h = "main" => Code(h).op # "wgDone"
         /\ h \in {"g1", "g2"} => Code(h).op # "wgDone"
<1>1. CASE h = "g3"
  <2>1. Code(h) = CASE s.at < Many -> Select({RcvCase("ch1", Inc(s)), RcvCase("ch2", Inc(s))})
                    [] s.at = Many -> Done(Inc(s))
                    [] OTHER -> Stop
    BY <1>1 DEF Code, ChannelRaceInSelect
  <2>2. \A dir, c : Offers(h, dir, c) => dir = "recv" /\ s.at < Many /\ c.next = Inc(s)
    BY <2>1, OffersAre, OpsAre, CasesAre DEF Offers
  <2>3. Code(h).op = "comm" => Code(h).next = Block
    BY <2>1, OpsAre DEF Send, Receive, Select, SelectDefault, Stmt
  <2>4. Passed(h) => s.at = Many /\ local'[h] = Inc(s) /\ wg' = wg - 1
    BY <2>1, <2>3, OpsAre, PassedIs DEF Closes
  <2> QED BY <1>1, <2>1, <2>2, <2>3, <2>4, OpsAre, IncIs, ManyAssumption DEF Locals, Closes, Ended, Stop, Stmt
<1>2. CASE h = "main"
  <2>1. Code(h) = CASE s.at = 0 -> GoAll({"g1", "g2", "g3"}, Inc(s))
                    [] s.at = 1 -> Wait(Inc(s))
                    [] s.at = 2 -> Close({"done"}, Inc(s))
                    [] OTHER -> Stop
    BY <1>2 DEF Code, ChannelRaceInSelect
  <2> QED BY <1>2, <2>1, OpsAre
<1>3. CASE h \in {"g1", "g2"}
  <2>1. Code(h) = IF s.at = 1 THEN Stop
                  ELSE Select({RcvCase("done", Inc(s)), SndCase(IF h = "g1" THEN "ch1" ELSE "ch2", 1, s)})
    BY <1>3 DEF Code, ChannelRaceInSelect
  <2> QED BY <1>3, <2>1, OpsAre
<1> QED BY <1>1, <1>2, <1>3

LEMMA CancelCode ==
  ASSUME sample \in {"CancelContext", "CancelContextM"}, NEW h, NEW s \in Locals, s = local[h]
  PROVE  /\ h = "main" =>
            /\ \A dir, c : Offers(h, dir, c) =>
                 dir = "send" /\ s.at \in 1 .. 3 /\ c = SndCase("printCh", s.at, Inc(s))
            /\ Passed(h) => s.at \in {0, 4} /\ local'[h] = Inc(s)
            /\ Code(h).next # s
            /\ Ended(h) => s.at > 4
         /\ h \in {"g1", "g2", "g3"} =>
            /\ \A dir, c : Offers(h, dir, c) => dir = "recv"
            /\ ~Closes(h)
<1>1. CASE h = "main"
  <2>1. Code(h) = CASE s.at = 0 -> GoAll(IF sample = "CancelContext" THEN {"g1"}
                                          ELSE {"g1", "g2", "g3"}, Inc(s))
                    [] s.at \in 1 .. 3 -> Send("printCh", s.at, Inc(s))
                    [] s.at = 4 -> Close({"done"}, Inc(s))
                    [] OTHER -> Stop
    BY <1>1 DEF Code, CancelContext, BlockingFnA
  <2>2. \A dir, c : Offers(h, dir, c) =>
       dir = "send" /\ s.at \in 1 .. 3 /\ c = SndCase("printCh", s.at, Inc(s))
    BY <2>1, OffersAre, OpsAre, CasesAre DEF Offers
  <2>3. Code(h).op = "comm" => Code(h).next = Block
    BY <2>1, OpsAre DEF Send, Receive, Select, SelectDefault, Stmt
  <2>4. Passed(h) => s.at \in {0, 4} /\ local'[h] = Inc(s)
    BY <2>1, <2>3, OpsAre, PassedIs DEF Closes
  <2> QED BY <1>1, <2>1, <2>2, <2>3, <2>4, OpsAre, IncIs, ManyAssumption DEF Locals, Closes, Ended, Stop, Stmt
<1>2. CASE h \in {"g1", "g2", "g3"}
  <2>1. Code(h) = IF s.at = 1 THEN Stop
                      ELSE SelectDefault({RcvCase("done", Inc(s)), RcvCase("printCh", s)}, s)
    BY <1>2 DEF Code, CancelContext, BlockingFnA
  <2>2. \A dir, c : Offers(h, dir, c) => dir = "recv"
    BY <2>1, OffersAre, OpsAre, CasesAre DEF Offers
  <2> QED BY <1>2, <2>1, <2>2, OpsAre, IncIs, ManyAssumption DEF Locals, Closes, Ended, Stop, Stmt
<1> QED BY <1>1, <1>2

LEMMA SelectRaceCode ==
  ASSUME sample = "SelectRace", NEW h, NEW s \in Locals, s = local[h]
  PROVE  /\ h = "g1" =>
            /\ \A dir, c : Offers(h, dir, c) =>
                 dir = "send" /\ s.at < Many /\ c = SndCase(IF s.at % 2 = 0 THEN "ch2" ELSE "ch1", s.at, Inc(s))
            /\ Passed(h) => FALSE
            /\ Code(h).next # s
            /\ ~Closes(h)
         /\ h = "main" =>
            /\ \A dir, c : Offers(h, dir, c) =>
                 dir = "recv" /\ s.at = 1 /\ c \in {RcvCase("ch1", s), RcvCase("ch2", s)}
            /\ Passed(h) => (s.at = 0 /\ local'[h] = Inc(s)) \/ local'[h] = s
            /\ ~Closes(h)
            /\ Ended(h) => s.at # 0 /\ ~(s.at = 1 /\ s.v # Many - 1)
<1>1. CASE h = "g1"
  <2>1. Code(h) = IF s.at < Many THEN Send(IF s.at % 2 = 0 THEN "ch2" ELSE "ch1", s.at, Inc(s)) ELSE Stop
    BY <1>1 DEF Code, SelectRace
  <2>2. \A dir, c : Offers(h, dir, c) =>
          dir = "send" /\ s.at < Many /\ c = SndCase(IF s.at % 2 = 0 THEN "ch2" ELSE "ch1", s.at, Inc(s))
    BY <2>1, OffersAre, OpsAre, CasesAre DEF Offers
  <2>3. Code(h).op = "comm" => Code(h).next = Block
    BY <2>1, OpsAre DEF Send, Receive, Select, SelectDefault, Stmt
  <2>4. Passed(h) => FALSE
    BY <2>1, <2>3, OpsAre, PassedIs DEF Closes
  <2> QED BY <1>1, <2>1, <2>2, <2>3, <2>4, OpsAre, IncIs, ManyAssumption DEF Locals, Closes, Ended, Stop, Stmt
<1>2. CASE h = "main"
  <2>1. Code(h) = CASE s.at = 0 -> GoAll({"g1"}, Inc(s))
                    [] s.at = 1 /\ s.v # Many - 1 -> SelectDefault({RcvCase("ch1", s), RcvCase("ch2", s)}, s)
                    [] OTHER -> Stop
    BY <1>2 DEF Code, SelectRace
  <2>2. \A dir, c : Offers(h, dir, c) =>
       dir = "recv" /\ s.at = 1 /\ c \in {RcvCase("ch1", s), RcvCase("ch2", s)}
    BY <2>1, OffersAre, OpsAre, CasesAre DEF Offers
  <2>3. Code(h).op = "comm" => Code(h).next = s
    BY <2>1, OpsAre DEF Send, Receive, Select, SelectDefault, Stmt
  <2>4. Passed(h) => (s.at = 0 /\ local'[h] = Inc(s)) \/ local'[h] = s
    <3>1. Passed(h) => local'[h] = Code(h).next /\ Code(h).op # "stop"
      BY DEF Passed, NoneReady
    <3>2. CASE s.at = 0
      BY <2>1, <3>1, <3>2, OpsAre
    <3>3. CASE s.at = 1 /\ s.v # Many - 1
      BY <2>1, <2>3, <3>1, <3>3, OpsAre
    <3>4. CASE s.at # 0 /\ ~(s.at = 1 /\ s.v # Many - 1)
      BY <2>1, <3>1, <3>4, OpsAre
    <3> QED BY <3>2, <3>3, <3>4
  <2> QED BY <1>2, <2>1, <2>2, <2>3, <2>4, OpsAre, IncIs, ManyAssumption DEF Locals, Closes, Ended, Stop, Stmt
<1> QED BY <1>1, <1>2


-----------------------------------------------------------------------------
(* The invariants of the samples.                                          *)

Lesser(m, n) == IF m < n THEN m ELSE n

\* ChannelPop: g1 sends two and closes, main reads on.
PopInv ==
  LET k == local["g1"].at IN
  /\ k <= 3 /\ Stream("ch") = UpTo(Lesser(k, 2)) /\ closed = (IF k = 3 THEN {"ch"} ELSE {})
  /\ Len(seen["ch"]) >= local["main"].at - 1 \/ seen["ch"] = UpTo(2)

\* ChannelPopForRange: main reads until it has read all and ch1 is closed.
ForRangeInv ==
  LET k == local["g1"].at IN
  /\ k <= Many + 1 /\ Stream("ch1") = UpTo(Lesser(k, Many))
  /\ closed = (IF k = Many + 1 THEN {"ch1"} ELSE {})
  /\ local["main"].at <= 1 /\ (~local["main"].ok => seen["ch1"] = UpTo(Many))

\* ChannelForSelect: all is in the buffer before main reads, whose last value is v.
ForSelectInv ==
  LET k == local["g1"].at IN
  /\ k <= Many + 1 /\ Stream("ch1") = UpTo(Lesser(k, Many)) /\ Stream("ch2") = <<>> /\ closed = {}
  /\ wg = (IF k = Many + 1 THEN 0 ELSE 1)
  /\ local["main"].at <= 2 /\ local["main"].v = Len(seen["ch1"]) - 1

\* ChannelRangeAndHidenSize: the reader has read all when it leaves its loop, and main
\* waits for that.
RangeInv ==
  LET m == local["main"].at  r == local["g1"] IN
  /\ m <= 9 /\ Stream("ch") = Ones(IF m = 0 THEN 0 ELSE Lesser(m - 1, 6))
  /\ closed = (IF m >= 8 THEN {"ch"} ELSE {})
  /\ r.at <= 1 /\ wg = 1 - r.at /\ (r.at = 1 => ~r.ok) /\ (m = 9 => r.at = 1)
  /\ ~r.ok => seen["ch"] = Ones(6)

CloseInv == local["main"].at <= 5 /\ closed = (IF local["main"].at >= 4 THEN {"ch"} ELSE {})

RaceInv == local["g3"].at <= Many + 1 /\ wg = (IF local["g3"].at = Many + 1 THEN 0 ELSE 1)

\* CancelContext: main sends three.
CancelInv ==
  LET m == local["main"].at IN
  m <= 5 /\ Stream("printCh") = Ones(IF m = 0 THEN 0 ELSE Lesser(m - 1, 3))

\* SelectRace: g1 sends the odd ones to ch1, and when main has read one it has read all up
\* to it.
SelectRaceInv ==
  LET k == local["g1"].at  m == local["main"] IN
  /\ k <= Many /\ Stream("ch1") = Odd(k \div 2) /\ Stream("ch2") = Even((k + 1) \div 2) /\ closed = {}
  /\ m.at <= 1 /\ m.v >= -1 /\ (m.v % 2 = 1 => seen["ch1"] = Odd((m.v + 1) \div 2))

SampleInv ==
  /\ sample \notin Closing => closed \subseteq NeverSent
  /\ sample \notin Waits => wg = 0
  /\ sample = "ChannelPop" => PopInv
  /\ sample = "ChannelPopForRange" => ForRangeInv
  /\ sample = "ChannelForSelect" => ForSelectInv
  /\ sample = "ChannelRangeAndHidenSize" => RangeInv
  /\ sample = "ChannelClose" => CloseInv
  /\ sample = "ChannelRaceInSelect" => RaceInv
  /\ sample \in {"CancelContext", "CancelContextM"} => CancelInv
  /\ sample = "SelectRace" => SelectRaceInv

\* The samples with one goroutine beside main.
LEMMA TwoGoroutines ==
  ASSUME GoType, sample \in Closing \cup {"ChannelForSelect", "SelectRace", "CancelContext"}
  PROVE  /\ started \subseteq {"main", "g1"} /\ local["main"] \in Locals /\ local["g1"] \in Locals
         /\ "main" \in Goroutines /\ "g1" \in Goroutines
  BY DEF GoType, Crew, Closing, Goroutines

\* Where one goroutine alone sends and closes, it has sent all when it closes.
LEMMA OwnerSafe ==
  ASSUME NEW o, \A h \in started : Closes(h) => h = o,
         \A h \in started : \A c : Offers(h, "send", c) => h = o /\ c.ch \notin closed
  PROVE  Unsent /\ \A h \in started : Closes(h) => SafeToClose(Code(h).arg)
<1>1. Unsent
  BY DEF Unsent
<1>2. ASSUME NEW h \in started, Closes(h), NEW f \in started, NEW c, Offers(f, "send", c) PROVE FALSE
  BY <1>2 DEF Offers, Closes
<1> QED BY <1>1, <1>2 DEF SafeToClose

\* The samples only close what nobody sends to any more.
LEMMA ClosingsSafe ==
  ASSUME GoType, SampleInv
  PROVE  /\ Unsent
         /\ \A g \in started : Code(g).op = "close" => SafeToClose(Code(g).arg) /\ Code(g).arg \cap closed \subseteq Contexts
         /\ sample = "TimeoutContext" => SafeToClose({"done"})
<1>1. \A h \in started : \A c : Offers(h, "send", c) => c.ch \notin NeverSent
  <2>1. ASSUME NEW h \in started, NEW c, Offers(h, "send", c) PROVE c.ch \notin NeverSent
    <3>1. c \in CommCases /\ c.dir = "send"
      BY <2>1, OfferFacts DEF Offers
    <3> QED BY <3>1 DEF CommCases
  <2> QED BY <2>1
<1>2. CASE sample \notin Closing
  <2>1. closed \subseteq NeverSent
    BY <1>2 DEF SampleInv
  <2>2. \A g \in started : Code(g).op = "close" => Code(g).arg \subseteq NeverSent
    BY <1>2, OtherCode DEF GoType
  <2>3. {"done"} \subseteq NeverSent
    BY DEF NeverSent
  <2>4. \A chs : chs \subseteq NeverSent => SafeToClose(chs)
    BY <1>1 DEF SafeToClose
  <2>5. NeverSent = Contexts
    BY DEF NeverSent, Contexts
  <2> QED BY <1>1, <2>1, <2>2, <2>3, <2>4, <2>5 DEF Unsent
<1>3. CASE sample = "ChannelPop"
  <2>1. started \subseteq {"main", "g1"} /\ local["main"] \in Locals /\ local["g1"] \in Locals
    BY <1>3, TwoGoroutines DEF Closing
  <2>2. \A h \in started : Closes(h) => h = "g1"
    BY <1>3, <2>1, PopCode
  <2>3. \A h \in started : \A c : Offers(h, "send", c) => h = "g1" /\ c.ch \notin closed
    <3>1. closed = {} \/ local["g1"].at = 3
      BY <1>3 DEF SampleInv, PopInv
    <3>2. \A h \in started : \A c : Offers(h, "send", c) => h = "g1" /\ local["g1"].at < 2
      BY <1>3, <2>1, PopCode
    <3> QED BY <3>1, <3>2
  <2>4. \A h \in started : Closes(h) => closed = {}
    BY <1>3, <2>1, PopCode, ManyAssumption DEF SampleInv, PopInv
  <2> QED BY <1>3, <2>2, <2>3, <2>4, OwnerSafe DEF Closes
<1>4. CASE sample = "ChannelPopForRange"
  <2>1. started \subseteq {"main", "g1"} /\ local["main"] \in Locals /\ local["g1"] \in Locals
    BY <1>4, TwoGoroutines DEF Closing
  <2>2. \A h \in started : Closes(h) => h = "g1"
    BY <1>4, <2>1, ForRangeCode
  <2>3. \A h \in started : \A c : Offers(h, "send", c) => h = "g1" /\ c.ch \notin closed
    <3>1. closed = {} \/ local["g1"].at = Many + 1
      BY <1>4 DEF SampleInv, ForRangeInv
    <3>2. \A h \in started : \A c : Offers(h, "send", c) => h = "g1" /\ local["g1"].at < Many
      BY <1>4, <2>1, ForRangeCode
    <3> QED BY <3>1, <3>2, ManyAssumption
  <2>4. \A h \in started : Closes(h) => closed = {}
    BY <1>4, <2>1, ForRangeCode, ManyAssumption DEF SampleInv, ForRangeInv
  <2> QED BY <1>4, <2>2, <2>3, <2>4, OwnerSafe DEF Closes
<1>5. CASE sample = "ChannelRangeAndHidenSize"
  <2>1. started \subseteq {"main", "g1"} /\ local["main"] \in Locals /\ local["g1"] \in Locals
    BY <1>5, TwoGoroutines DEF Closing
  <2>2. \A h \in started : Closes(h) => h = "main"
    BY <1>5, <2>1, RangeCode
  <2>3. \A h \in started : \A c : Offers(h, "send", c) => h = "main" /\ c.ch \notin closed
    <3>1. closed = {} \/ local["main"].at >= 8
      BY <1>5 DEF SampleInv, RangeInv
    <3>2. \A h \in started : \A c : Offers(h, "send", c) => h = "main" /\ local["main"].at \in 1 .. 6
      BY <1>5, <2>1, RangeCode
    <3> QED BY <3>1, <3>2
  <2>4. \A h \in started : Closes(h) => closed = {}
    BY <1>5, <2>1, RangeCode, ManyAssumption DEF SampleInv, RangeInv
  <2> QED BY <1>5, <2>2, <2>3, <2>4, OwnerSafe DEF Closes
<1>6. CASE sample = "ChannelClose"
  <2>1. started \subseteq {"main", "g1"} /\ local["main"] \in Locals /\ local["g1"] \in Locals
    BY <1>6, TwoGoroutines DEF Closing
  <2>2. \A h \in started : Closes(h) => h = "main"
    BY <1>6, <2>1, CloseCode
  <2>3. \A h \in started : \A c : Offers(h, "send", c) => h = "main" /\ c.ch \notin closed
    <3>1. closed = {} \/ local["main"].at >= 4
      BY <1>6 DEF SampleInv, CloseInv
    <3>2. \A h \in started : \A c : Offers(h, "send", c) => h = "main" /\ local["main"].at < 3
      BY <1>6, <2>1, CloseCode
    <3>3. local["main"].at \in Nat
      BY <2>1 DEF Locals
    <3> QED BY <3>1, <3>2, <3>3
  <2>4. \A h \in started : Closes(h) => closed = {}
    <3>1. \A h \in started : Closes(h) => local["main"].at = 3
      BY <1>6, <2>1, CloseCode
    <3>2. local["main"].at = 3 => closed = {}
      BY <1>6 DEF SampleInv, CloseInv
    <3> QED BY <3>1, <3>2
  <2>5. Unsent /\ \A h \in started : Closes(h) => SafeToClose(Code(h).arg)
    <3> DEFINE o == "main"
    <3>1. /\ \A h \in started : Closes(h) => h = o
          /\ \A h \in started : \A c : Offers(h, "send", c) => h = o /\ c.ch \notin closed
      BY <2>2, <2>3
    <3> HIDE DEF o
    <3> QED BY <3>1, OwnerSafe
  <2>6. \A h \in started : Closes(h) => Code(h).arg \cap closed \subseteq Contexts
    BY <2>4
  <2> QED BY <1>6, <2>5, <2>6 DEF Closes
<1>7. sample \in Closing => sample # "TimeoutContext"
  BY DEF Closing
<1> QED BY <1>2, <1>3, <1>4, <1>5, <1>6, <1>7 DEF Closing

-----------------------------------------------------------------------------
(* What may happen to a goroutine that alone receives from ch and sends    *)
(* nothing.                                                                *)

Took(r, c, x) ==
  /\ Offers(r, "recv", c) /\ x \in Int /\ seen'[c.ch] = Append(seen[c.ch], x)
  /\ local'[r].at = c.next.at /\ local'[r].v = x /\ local'[r].ok = TRUE
SawClosed(r, c) ==
  /\ Offers(r, "recv", c) /\ c.ch \in closed' /\ buf'[c.ch] = <<>>
  /\ local'[r].at = c.next.at /\ local'[r].v = 0 /\ local'[r].ok = FALSE

Reads(r, ch) ==
  \/ \E c, x : Took(r, c, x) /\ c.ch = ch
  \/ /\ seen'[ch] = seen[ch]
     /\ \/ local'[r] = local[r] \/ Passed(r)
        \/ \E c : SawClosed(r, c) \/ \E x : Took(r, c, x) /\ c.ch # ch

\* What was got was taken out of the stream in order.
LEMMA GotIs ==
  ASSUME GoType, NEW h \in started, NEW c
  PROVE  (Got(h, c) => \E x : Took(h, c, x)) /\ (Drained(h, c) => SawClosed(h, c))
<1>1. ASSUME Offers(h, "recv", c), NEW x \in Int
      PROVE  /\ Received(c, x).at = c.next.at /\ Received(c, x).v = x /\ Received(c, x).ok = TRUE
             /\ ReadClosed(c).at = c.next.at /\ ReadClosed(c).v = 0 /\ ReadClosed(c).ok = FALSE
  <2>1. c \in CommCases
    BY <1>1, OfferFacts
  <2> QED BY <1>1, <2>1, CaseFacts
<1>2. ASSUME Got(h, c) PROVE \E x : Took(h, c, x)
  <2>1. PICK x \in Int : local'[h] = Received(c, x) /\ seen'[c.ch] = Append(seen[c.ch], x)
    BY <1>2 DEF Got
  <2>2. Took(h, c, x)
    BY <1>1, <1>2, <2>1 DEF Got, Took
  <2> QED BY <2>2
<1>3. ASSUME Drained(h, c) PROVE SawClosed(h, c)
  <2>1. 0 \in Int
    OBVIOUS
  <2> QED BY <1>1, <1>3, <2>1 DEF Drained, SawClosed
<1> QED BY <1>2, <1>3

\* The only goroutine that receives from a channel notes each value that leaves it.
LEMMA ReaderReads ==
  ASSUME GoType, Views, NEW r \in Goroutines, NEW ch \in Channels,
         \A h \in started : Receives(h, ch) => h = r,
         \A c : ~Offers(r, "send", c)
  PROVE  Reads(r, ch)
<1>1. seen'[ch] = seen[ch] \/ \E c : Got(r, c) /\ c.ch = ch /\ r \in started
  BY DEF Views, Got, Receives
<1>2. local'[r] = local[r] \/ (r \in started /\ View(r))
  BY DEF Views
<1>3. CASE \E c : Got(r, c) /\ c.ch = ch /\ r \in started
  BY <1>3, GotIs DEF Reads
<1>4. CASE seen'[ch] = seen[ch] /\ ~\E c : Got(r, c) /\ c.ch = ch /\ r \in started
  <2>1. CASE local'[r] = local[r] \/ Passed(r)
    BY <1>4, <2>1 DEF Reads
  <2>2. CASE r \in started /\ \E c : Drained(r, c)
    BY <1>4, <2>2, GotIs DEF Reads
  <2>3. CASE r \in started /\ \E c : Got(r, c)
    BY <1>4, <2>3, GotIs DEF Reads
  <2>4. ~\E c : Sent(r, c)
    BY DEF Sent
  <2> QED BY <1>2, <2>1, <2>2, <2>3, <2>4 DEF View
<1> QED BY <1>1, <1>3, <1>4

\* What has been received of the numbers x that were sent.
LEMMA SeenIs ==
  ASSUME GoType', NEW ch \in Channels, NEW n \in Nat, NEW x,
         x = UpTo(n) \/ x = Ones(n) \/ x = Odd(n) \/ x = Even(n), Stream(ch)' = x
  PROVE  /\ Len(seen'[ch]) \in Nat /\ Len(seen'[ch]) <= n
         /\ Len(seen'[ch]) = n \/ buf'[ch] = <<>> => seen'[ch] = x /\ Len(seen'[ch]) = n
<1>1. seen'[ch] \in Seq(Int) /\ buf'[ch] \in Seq(Int) /\ Left(seen'[ch], buf'[ch], x)
  BY DEF GoType, Stream, Left
<1> QED BY <1>1, ReadIs

\* The next one.
LEMMA TookIs ==
  ASSUME GoType, GoType', NEW ch \in Channels, NEW n \in Nat, NEW x,
         x = UpTo(n) \/ x = Ones(n) \/ x = Odd(n) \/ x = Even(n), Stream(ch)' = x,
         NEW v \in Int, seen'[ch] = Append(seen[ch], v)
  PROVE  /\ Len(seen[ch]) \in Nat /\ Len(seen[ch]) + 1 <= n /\ Len(seen'[ch]) = Len(seen[ch]) + 1
         /\ v = x[Len(seen[ch]) + 1]
<1>1. seen[ch] \in Seq(Int) /\ buf'[ch] \in Seq(Int) /\ Left(Append(seen[ch], v), buf'[ch], x)
  BY DEF GoType, Stream, Left
<1> QED BY <1>1, NextValue

-----------------------------------------------------------------------------
(* The steps of the samples.                                               *)

\* A step keeps the invariant of each sample: this lemma and the next seven named Step.
LEMMA PopStep ==
  ASSUME GoType, GoType', Views, sample = "ChannelPop", PopInv
  PROVE  PopInv'
<1> DEFINE g == local["g1"]  k == g.at  m == local["main"]  l == local'["g1"].at  j == Lesser(l, 2)
<1>1. /\ started \subseteq {"main", "g1"} /\ g \in Locals /\ m \in Locals /\ k \in Nat /\ m.at \in Nat
      /\ "main" \in Goroutines /\ "g1" \in Goroutines /\ "ch" \in Channels
  BY TwoGoroutines DEF Closing, Channels, Locals
<1>2. /\ \A dir, c : Offers("g1", dir, c) => dir = "send" /\ k < 2 /\ c = SndCase("ch", k, Inc(g))
      /\ Passed("g1") => k = 2 /\ local'["g1"] = Inc(g) /\ Closes("g1")
      /\ Code("g1").next # g /\ (Closes("g1") => Code("g1").arg = {"ch"})
  BY <1>1, PopCode
<1>3. /\ \A dir, c : Offers("main", dir, c) => dir = "recv" /\ c = RcvCase("ch", Inc(m))
      /\ Passed("main") => m.at = 0 /\ local'["main"] = Inc(m)
      /\ ~Closes("main")
  BY <1>1, PopCode
<1>4. Inc(g).at = k + 1 /\ Inc(g) # g /\ Inc(m).at = m.at + 1 /\ Inc(m) # m
  BY <1>1, IncIs
<1>5. Moves("g1", "ch") /\ Reads("main", "ch")
  <2>1. \A h \in started : Sends(h, "ch") \/ Closes(h) => h = "g1"
    BY <1>1, <1>3 DEF Sends
  <2>2. \A c : Offers("g1", "send", c) => c.next # g
    BY <1>2, <1>4, CasesAre
  <2>3. (\A c : ~Offers("g1", "recv", c)) /\ (\A c : ~Offers("main", "send", c))
    BY <1>2, <1>3
  <2>4. \A h \in started : Receives(h, "ch") => h = "main"
    BY <1>1, <1>2 DEF Receives
  <2> QED BY <1>1, <1>2, <2>1, <2>2, <2>3, <2>4, SenderMoves, ReaderReads
<1>6. \/ local'["g1"] = g /\ Stream("ch")' = Stream("ch") /\ closed' = closed
      \/ k < 2 /\ l = k + 1 /\ Stream("ch")' = Append(Stream("ch"), k) /\ closed' = closed
      \/ k = 2 /\ l = 3 /\ Stream("ch")' = Stream("ch") /\ closed' = closed \cup {"ch"}
  <2>1. ASSUME NEW c, Sent("g1", c)
        PROVE  k < 2 /\ l = k + 1 /\ c.ch = "ch" /\ c.v = k
    BY <1>2, <1>4, <2>1, CasesAre DEF Sent
  <2> QED BY <1>2, <1>4, <1>5, <2>1 DEF Moves
<1>7. l <= 3 /\ Stream("ch")' = UpTo(j) /\ closed' = (IF l = 3 THEN {"ch"} ELSE {}) /\ j \in Nat /\ j <= 2
  <2>1. k <= 3 /\ Stream("ch") = UpTo(Lesser(k, 2)) /\ closed = (IF k = 3 THEN {"ch"} ELSE {})
    BY DEF PopInv
  <2>2. k < 2 => Append(UpTo(Lesser(k, 2)), k) = UpTo(k + 1)
    BY <1>1, SequencesNext DEF Lesser
  <2>3. CASE local'["g1"] = g /\ Stream("ch")' = Stream("ch") /\ closed' = closed
    BY <1>1, <2>1, <2>3 DEF Lesser
  <2>4. CASE k < 2 /\ l = k + 1 /\ Stream("ch")' = Append(Stream("ch"), k) /\ closed' = closed
    <3>1. j = k + 1 /\ l <= 3 /\ l # 3 /\ k # 3 /\ k + 1 \in Nat /\ k + 1 <= 2
      BY <1>1, <2>4 DEF Lesser
    <3>2. Stream("ch")' = UpTo(k + 1) /\ closed' = {}
      BY <2>1, <2>2, <2>4, <3>1
    <3> HIDE DEF j, l
    <3> QED BY <3>1, <3>2
  <2>5. CASE k = 2 /\ l = 3 /\ Stream("ch")' = Stream("ch") /\ closed' = closed \cup {"ch"}
    BY <1>1, <2>1, <2>5 DEF Lesser
  <2> QED BY <1>6, <2>3, <2>4, <2>5
<1>8. Len(seen'["ch"]) >= local'["main"].at - 1 \/ seen'["ch"] = UpTo(2)
  <2>1. /\ Len(seen'["ch"]) \in Nat /\ Len(seen'["ch"]) <= j
        /\ Len(seen'["ch"]) = j \/ buf'["ch"] = <<>> => seen'["ch"] = UpTo(j)
    <3> HIDE DEF j
    <3> QED BY <1>1, <1>7, SeenIs
  <2>2. Len(seen["ch"]) >= m.at - 1 \/ seen["ch"] = UpTo(2)
    BY DEF PopInv
  <2>3. CASE \E c, x : Took("main", c, x) /\ c.ch = "ch"
    <3>1. PICK c, x : Took("main", c, x) /\ c.ch = "ch"
      BY <2>3
    <3>2. local'["main"].at = m.at + 1 /\ x \in Int /\ seen'["ch"] = Append(seen["ch"], x)
      BY <1>3, <1>4, <3>1, CasesAre DEF Took
    <3>3. Len(seen["ch"]) \in Nat /\ Len(seen["ch"]) + 1 <= j /\ Len(seen'["ch"]) = Len(seen["ch"]) + 1
      <4> HIDE DEF j
      <4> QED BY <1>1, <1>7, <3>2, TookIs
    <3>4. seen["ch"] # UpTo(2)
      <4>1. Len(UpTo(2)) = 2
        BY SequencesAre
      <4>2. Len(seen["ch"]) < 2
        <5> j \in Nat /\ j <= 2
          BY <1>7
        <5> HIDE DEF j
        <5> QED BY <3>3
      <4> QED BY <4>1, <4>2
    <3> QED BY <1>1, <2>2, <3>2, <3>3, <3>4
  <2>4. CASE seen'["ch"] = seen["ch"] /\ \E c : SawClosed("main", c)
    <3>1. "ch" \in closed' /\ buf'["ch"] = <<>>
      BY <1>3, <2>4, CasesAre DEF SawClosed
    <3>2. j = 2
      BY <1>7, <3>1 DEF Lesser
    <3> QED BY <2>1, <3>1, <3>2
  <2>5. CASE seen'["ch"] = seen["ch"] /\ (local'["main"] = m \/ Passed("main"))
    BY <1>1, <1>3, <1>4, <2>1, <2>2, <2>5
  <2>6. \A c, x : Took("main", c, x) => c.ch = "ch"
    BY <1>3, CasesAre DEF Took
  <2> QED BY <1>5, <2>3, <2>4, <2>5, <2>6 DEF Reads
<1> QED BY <1>7, <1>8 DEF PopInv

LEMMA ForRangeStep ==
  ASSUME GoType, GoType', Views, sample = "ChannelPopForRange", ForRangeInv
  PROVE  ForRangeInv'
<1> DEFINE g == local["g1"]  k == g.at  m == local["main"]  l == local'["g1"].at  j == Lesser(l, Many)
<1>1. /\ started \subseteq {"main", "g1"} /\ g \in Locals /\ m \in Locals /\ k \in Nat /\ m.at \in Nat
      /\ "main" \in Goroutines /\ "g1" \in Goroutines /\ "ch1" \in Channels
  BY TwoGoroutines DEF Closing, Channels, Locals
<1>2. /\ \A dir, c : Offers("g1", dir, c) => dir = "send" /\ k < Many /\ c = SndCase("ch1", k, Inc(g))
      /\ Passed("g1") => k = Many /\ local'["g1"] = Inc(g) /\ Closes("g1")
      /\ Code("g1").next # g /\ (Closes("g1") => Code("g1").arg = {"ch1"})
  BY <1>1, ForRangeCode
<1>3. /\ \A dir, c : Offers("main", dir, c) => dir = "recv" /\ m.at = 1 /\ c = RcvCase("ch1", m)
      /\ Passed("main") => m.at = 0 /\ local'["main"] = Inc(m)
      /\ ~Closes("main")
  BY <1>1, ForRangeCode
<1>4. Inc(g).at = k + 1 /\ Inc(g) # g /\ Inc(m).at = m.at + 1 /\ Inc(m).ok = m.ok
  BY <1>1, IncIs
<1>5. Moves("g1", "ch1") /\ Reads("main", "ch1")
  <2>1. \A h \in started : Sends(h, "ch1") \/ Closes(h) => h = "g1"
    BY <1>1, <1>3 DEF Sends
  <2>2. \A c : Offers("g1", "send", c) => c.next # g
    BY <1>2, <1>4, CasesAre
  <2>3. (\A c : ~Offers("g1", "recv", c)) /\ (\A c : ~Offers("main", "send", c))
    BY <1>2, <1>3
  <2>4. \A h \in started : Receives(h, "ch1") => h = "main"
    BY <1>1, <1>2 DEF Receives
  <2> QED BY <1>1, <1>2, <2>1, <2>2, <2>3, <2>4, SenderMoves, ReaderReads
<1>6. \/ local'["g1"] = g /\ Stream("ch1")' = Stream("ch1") /\ closed' = closed
      \/ k < Many /\ l = k + 1 /\ Stream("ch1")' = Append(Stream("ch1"), k) /\ closed' = closed
      \/ k = Many /\ l = Many + 1 /\ Stream("ch1")' = Stream("ch1") /\ closed' = closed \cup {"ch1"}
  <2>1. ASSUME NEW c, Sent("g1", c)
        PROVE  k < Many /\ l = k + 1 /\ c.ch = "ch1" /\ c.v = k
    BY <1>2, <1>4, <2>1, CasesAre DEF Sent
  <2> QED BY <1>2, <1>4, <1>5, <2>1 DEF Moves
<1>7. /\ l <= Many + 1 /\ Stream("ch1")' = UpTo(j) /\ j \in Nat /\ j <= Many
      /\ closed' = (IF l = Many + 1 THEN {"ch1"} ELSE {})
      /\ "ch1" \in closed' => j = Many
  <2>1. /\ k <= Many + 1 /\ Stream("ch1") = UpTo(Lesser(k, Many))
        /\ closed = (IF k = Many + 1 THEN {"ch1"} ELSE {})
    BY DEF ForRangeInv
  <2>2. k < Many => Append(UpTo(Lesser(k, Many)), k) = UpTo(k + 1)
    BY <1>1, SequencesNext DEF Lesser
  <2>3. CASE local'["g1"] = g /\ Stream("ch1")' = Stream("ch1") /\ closed' = closed
    BY <1>1, <2>1, <2>3, ManyAssumption DEF Lesser
  <2>4. CASE k < Many /\ l = k + 1 /\ Stream("ch1")' = Append(Stream("ch1"), k) /\ closed' = closed
    <3>1. j = k + 1 /\ l <= Many + 1 /\ l # Many + 1 /\ k # Many + 1 /\ k + 1 \in Nat
      BY <1>1, <2>4, ManyAssumption DEF Lesser
    <3>2. Stream("ch1")' = UpTo(k + 1) /\ closed' = {}
      BY <2>1, <2>2, <2>4, <3>1
    <3>3. k + 1 <= Many
      BY <1>1, <2>4, ManyAssumption
    <3> HIDE DEF j, l
    <3> QED BY <3>1, <3>2, <3>3
  <2>5. CASE k = Many /\ l = Many + 1 /\ Stream("ch1")' = Stream("ch1") /\ closed' = closed \cup {"ch1"}
    BY <1>1, <2>1, <2>5, ManyAssumption DEF Lesser
  <2> QED BY <1>6, <2>3, <2>4, <2>5
<1>8. local'["main"].at <= 1 /\ (~local'["main"].ok => seen'["ch1"] = UpTo(Many))
  <2>1. /\ Len(seen'["ch1"]) \in Nat /\ Len(seen'["ch1"]) <= j
        /\ Len(seen'["ch1"]) = j \/ buf'["ch1"] = <<>> => seen'["ch1"] = UpTo(j)
    <3> HIDE DEF j
    <3> QED BY <1>1, <1>7, SeenIs
  <2>2. m.at <= 1 /\ (~m.ok => seen["ch1"] = UpTo(Many))
    BY DEF ForRangeInv
  <2>3. CASE \E c, x : Took("main", c, x)
    BY <1>3, <2>3, CasesAre DEF Took
  <2>4. CASE seen'["ch1"] = seen["ch1"] /\ \E c : SawClosed("main", c)
    <3>1. "ch1" \in closed' /\ buf'["ch1"] = <<>> /\ local'["main"].at = 1
      BY <1>3, <2>4, CasesAre DEF SawClosed
    <3> QED BY <1>7, <2>1, <3>1
  <2>5. CASE seen'["ch1"] = seen["ch1"] /\ (local'["main"] = m \/ Passed("main"))
    BY <1>1, <1>3, <1>4, <2>2, <2>5
  <2> QED BY <1>5, <2>3, <2>4, <2>5 DEF Reads
<1> QED BY <1>7, <1>8 DEF ForRangeInv

LEMMA ForSelectStep ==
  ASSUME GoType, GoType', Views, sample = "ChannelForSelect", ForSelectInv
  PROVE  ForSelectInv'
<1> DEFINE g == local["g1"]  k == g.at  m == local["main"]  l == local'["g1"].at  j == Lesser(l, Many)
<1>1. /\ started \subseteq {"main", "g1"} /\ g \in Locals /\ m \in Locals
      /\ k \in Nat /\ m.at \in Nat /\ m.v \in Int
      /\ "main" \in Goroutines /\ "g1" \in Goroutines /\ "ch1" \in Channels /\ "ch2" \in Channels
  BY TwoGoroutines DEF Closing, Channels, Locals
<1>2. /\ \A dir, c : Offers("g1", dir, c) => dir = "send" /\ k < Many /\ c = SndCase("ch1", k, Inc(g))
      /\ Passed("g1") => k = Many /\ local'["g1"] = Inc(g) /\ wg' = wg - 1 /\ ~Closes("g1")
      /\ Code("g1").next # g /\ ~Closes("g1") /\ (Code("g1").op = "wgDone" => k = Many)
  BY <1>1, ForSelectCode
<1>3. /\ \A dir, c : Offers("main", dir, c) => dir = "recv" /\ m.at = 2 /\ c.ch \in {"ch1", "ch2"} /\ c.next = m
      /\ Passed("main") => m.at < 2 /\ local'["main"] = Inc(m)
      /\ ~Closes("main") /\ Code("main").op # "wgDone"
  BY <1>1, ForSelectCode
<1>4. Inc(g).at = k + 1 /\ Inc(g) # g /\ Inc(m).at = m.at + 1 /\ Inc(m).v = m.v
  BY <1>1, IncIs
<1>5. Moves("g1", "ch1") /\ Reads("main", "ch1") /\ Reads("main", "ch2")
  <2>1. \A h \in started : Sends(h, "ch1") \/ Closes(h) => h = "g1"
    BY <1>1, <1>3 DEF Sends
  <2>2. \A c : Offers("g1", "send", c) => c.next # g
    BY <1>2, <1>4, CasesAre
  <2>3. (\A c : ~Offers("g1", "recv", c)) /\ (\A c : ~Offers("main", "send", c))
    BY <1>2, <1>3
  <2>4. \A h \in started : Receives(h, "ch1") \/ Receives(h, "ch2") => h = "main"
    <3>1. \A h \in started : h = "main" \/ h = "g1"
      BY <1>1
    <3>2. ~Receives("g1", "ch1") /\ ~Receives("g1", "ch2")
      BY <2>3 DEF Receives
    <3> QED BY <3>1, <3>2
  <2> QED BY <1>1, <1>2, <2>1, <2>2, <2>3, <2>4, SenderMoves, ReaderReads
<1>6. /\ closed' = closed /\ Stream("ch2")' = Stream("ch2")
      /\ \/ local'["g1"] = g /\ Stream("ch1")' = Stream("ch1") /\ wg' = wg
         \/ k < Many /\ l = k + 1 /\ Stream("ch1")' = Append(Stream("ch1"), k) /\ wg' = wg
         \/ k = Many /\ l = Many + 1 /\ Stream("ch1")' = Stream("ch1") /\ wg' = wg - 1
  <2>1. ASSUME NEW c, Sent("g1", c)
        PROVE  k < Many /\ l = k + 1 /\ c.ch = "ch1" /\ c.v = k
    BY <1>2, <1>4, <2>1, CasesAre DEF Sent
  <2>2. closed' = closed
    BY <1>1, <1>2, <1>3 DEF Views, Closes
  <2>3. Stream("ch2")' = Stream("ch2")
    <3>1. \A h \in started : \A c : Sent(h, c) => c.ch # "ch2"
      BY <1>1, <1>2, <1>3, CasesAre DEF Sent
    <3> QED BY <1>1, <3>1 DEF Views
  <2>4. wg' = wg \/ (Passed("g1") /\ k = Many)
    BY <1>1, <1>2, <1>3 DEF Views
  <2>5. Passed("g1") => l = Many + 1 /\ k = Many
    BY <1>2, <1>4
  <2>6. CASE local'["g1"] = g /\ Stream("ch1")' = Stream("ch1")
    <3>1. ~Passed("g1")
      BY <2>5, <2>6, ManyAssumption
    <3> QED BY <1>1, <2>2, <2>3, <2>4, <2>5, <2>6, <3>1
  <2>7. CASE \E c : /\ Sent("g1", c)
                    /\ Stream("ch1")' = IF c.ch = "ch1" THEN Append(Stream("ch1"), c.v) ELSE Stream("ch1")
    <3>1. k < Many /\ l = k + 1 /\ Stream("ch1")' = Append(Stream("ch1"), k)
      BY <2>1, <2>7
    <3> QED BY <1>1, <2>2, <2>3, <2>4, <3>1, ManyAssumption
  <2>8. CASE Passed("g1") /\ Stream("ch1")' = Stream("ch1")
    BY <1>2, <2>2, <2>3, <2>5, <2>8
  <2> QED BY <1>5, <2>6, <2>7, <2>8 DEF Moves
<1>7. /\ l <= Many + 1 /\ Stream("ch1")' = UpTo(j) /\ j \in Nat /\ Stream("ch2")' = <<>> /\ closed' = {}
      /\ wg' = (IF l = Many + 1 THEN 0 ELSE 1)
  <2>1. /\ k <= Many + 1 /\ Stream("ch1") = UpTo(Lesser(k, Many)) /\ Stream("ch2") = <<>>
        /\ closed = {} /\ wg = (IF k = Many + 1 THEN 0 ELSE 1)
    BY DEF ForSelectInv
  <2>2. k < Many => Append(UpTo(Lesser(k, Many)), k) = UpTo(k + 1)
    BY <1>1, SequencesNext DEF Lesser
  <2>3. CASE local'["g1"] = g /\ Stream("ch1")' = Stream("ch1") /\ wg' = wg
    BY <1>1, <1>6, <2>1, <2>3, ManyAssumption DEF Lesser
  <2>4. CASE k < Many /\ l = k + 1 /\ Stream("ch1")' = Append(Stream("ch1"), k) /\ wg' = wg
    <3>1. j = k + 1 /\ l <= Many + 1 /\ l # Many + 1 /\ k # Many + 1 /\ k + 1 \in Nat
      BY <1>1, <2>4, ManyAssumption DEF Lesser
    <3>2. Stream("ch1")' = UpTo(k + 1)
      BY <2>1, <2>2, <2>4
    <3>3. wg' = 1 /\ Stream("ch2")' = <<>> /\ closed' = {}
      BY <1>6, <2>1, <2>4, <3>1
    <3> HIDE DEF j, l
    <3> QED BY <3>1, <3>2, <3>3
  <2>5. CASE k = Many /\ l = Many + 1 /\ Stream("ch1")' = Stream("ch1") /\ wg' = wg - 1
    BY <1>1, <1>6, <2>1, <2>5, ManyAssumption DEF Lesser
  <2> QED BY <1>6, <2>3, <2>4, <2>5
<1>8. local'["main"].at <= 2 /\ local'["main"].v = Len(seen'["ch1"]) - 1
  <2>1. m.at <= 2 /\ m.v = Len(seen["ch1"]) - 1
    BY DEF ForSelectInv
  <2>2. \A c : Offers("main", "recv", c) => c.ch = "ch1" \/ c.ch = "ch2"
    BY <1>3
  <2>3. CASE \E c, x : Took("main", c, x) /\ c.ch = "ch1"
    <3>1. PICK c, x : Took("main", c, x) /\ c.ch = "ch1"
      BY <2>3
    <3>2. /\ m.at = 2 /\ local'["main"].at = m.at /\ local'["main"].v = x /\ x \in Int
          /\ seen'["ch1"] = Append(seen["ch1"], x)
      BY <1>3, <3>1 DEF Took
    <3>3. /\ Len(seen["ch1"]) \in Nat /\ Len(seen["ch1"]) + 1 <= j /\ Len(seen'["ch1"]) = Len(seen["ch1"]) + 1
          /\ x = UpTo(j)[Len(seen["ch1"]) + 1]
      <4> HIDE DEF j
      <4> QED BY <1>1, <1>7, <3>2, TookIs
    <3>4. x = Len(seen["ch1"])
      <4> DEFINE i == Len(seen["ch1"]) + 1
      <4>1. i \in 1 .. j /\ j \in Nat /\ i - 1 = Len(seen["ch1"])
        <5> HIDE DEF j
        <5> QED BY <1>7, <3>3
      <4>2. \A n \in Nat : \A e \in 1 .. n : UpTo(n)[e] = e - 1
        BY SequencesAre
      <4> HIDE DEF j
      <4> QED BY <3>3, <4>1, <4>2
    <3> QED BY <1>1, <3>2, <3>3, <3>4
  <2>4. ~\E c : SawClosed("main", c)
    BY <1>7 DEF SawClosed
  <2>5. ~\E c, x : Took("main", c, x) /\ c.ch = "ch2"
    <3>1. SUFFICES ASSUME NEW c, NEW x, Took("main", c, x), c.ch = "ch2" PROVE FALSE
      OBVIOUS
    <3>2. seen["ch2"] \in Seq(Int) /\ buf'["ch2"] \in Seq(Int) /\ x \in Int
          /\ Append(seen["ch2"], x) \o buf'["ch2"] = <<>>
      BY <1>1, <1>7, <3>1 DEF Took, GoType, Stream
    <3> QED BY <3>2
  <2>6. CASE seen'["ch1"] = seen["ch1"] /\ (local'["main"] = m \/ Passed("main"))
    BY <1>1, <1>3, <1>4, <2>1, <2>6
  <2>7. \A c, x : Took("main", c, x) => c.ch = "ch1" \/ c.ch = "ch2"
    BY <2>2 DEF Took
  <2> QED BY <1>5, <2>3, <2>4, <2>5, <2>6, <2>7 DEF Reads
<1> QED BY <1>7, <1>8 DEF ForSelectInv

\* How many of n numbers main has sent, one at each of its states 1 to n.
SentAt(at, n) == IF at = 0 THEN 0 ELSE Lesser(at - 1, n)

\* How the stream of ChannelRangeAndHidenSize grows.
LEMMA SentOne ==
  ASSUME NEW n \in Nat, NEW at \in 1 .. n
  PROVE  Append(Ones(SentAt(at, n)), at) = Ones(SentAt(at + 1, n)) /\ SentAt(at, n) \in Nat
<1>1. SentAt(at, n) = at - 1 /\ SentAt(at + 1, n) = at /\ at - 1 \in Nat
  BY DEF SentAt, Lesser
<1>2. Append(Ones(at - 1), (at - 1) + 1) = Ones((at - 1) + 1)
  BY <1>1, SequencesNext
<1> QED BY <1>1, <1>2

LEMMA RangeStep ==
  ASSUME GoType, GoType', Views, sample = "ChannelRangeAndHidenSize", RangeInv
  PROVE  RangeInv'
<1> DEFINE r == local["g1"]  s == local["main"]  m == s.at  l == local'["main"].at  j == SentAt(l, 6)
<1>1. /\ started \subseteq {"main", "g1"} /\ r \in Locals /\ s \in Locals /\ r.at \in Nat /\ m \in Nat
      /\ "main" \in Goroutines /\ "g1" \in Goroutines /\ "ch" \in Channels
  BY TwoGoroutines DEF Closing, Channels, Locals
<1>2. /\ \A dir, c : Offers("main", dir, c) => dir = "send" /\ m \in 1 .. 6 /\ c = SndCase("ch", m, Inc(s))
      /\ Passed("main") => /\ m \in {0, 7, 8} /\ local'["main"] = Inc(s)
                           /\ (Closes("main") <=> m = 7) /\ (m = 8 => wg = 0)
      /\ Code("main").next # s /\ (Closes("main") => m = 7 /\ Code("main").arg = {"ch"})
      /\ Code("main").op # "wgDone"
  BY <1>1, RangeCode
<1>3. /\ \A dir, c : Offers("g1", dir, c) => dir = "recv" /\ r.at = 0 /\ c = RcvCase("ch", r)
      /\ Passed("g1") => r.at = 0 /\ ~r.ok /\ local'["g1"] = Inc(r) /\ wg' = wg - 1
      /\ ~Closes("g1")
  BY <1>1, RangeCode
<1>4. Inc(s).at = m + 1 /\ Inc(s) # s /\ Inc(r).at = r.at + 1 /\ Inc(r).ok = r.ok
  BY <1>1, IncIs
<1>5. Moves("main", "ch") /\ Reads("g1", "ch")
  <2>1. \A h \in started : Sends(h, "ch") \/ Closes(h) => h = "main"
    BY <1>1, <1>3 DEF Sends
  <2>2. \A c : Offers("main", "send", c) => c.next # s
    BY <1>2, <1>4, CasesAre
  <2>3. (\A c : ~Offers("main", "recv", c)) /\ (\A c : ~Offers("g1", "send", c))
    BY <1>2, <1>3
  <2>4. \A h \in started : Receives(h, "ch") => h = "g1"
    BY <1>1, <1>2 DEF Receives
  <2> QED BY <1>1, <1>2, <2>1, <2>2, <2>3, <2>4, SenderMoves, ReaderReads
<1>6. \/ local'["main"] = s /\ Stream("ch")' = Stream("ch") /\ closed' = closed
      \/ m \in 1 .. 6 /\ l = m + 1 /\ Stream("ch")' = Append(Stream("ch"), m) /\ closed' = closed
      \/ /\ m \in {0, 7, 8} /\ l = m + 1 /\ Stream("ch")' = Stream("ch") /\ (m = 8 => wg = 0)
         /\ closed' = IF m = 7 THEN closed \cup {"ch"} ELSE closed
  <2>1. ASSUME NEW c, Sent("main", c)
        PROVE  m \in 1 .. 6 /\ l = m + 1 /\ c.ch = "ch" /\ c.v = m
    BY <1>2, <1>4, <2>1, CasesAre DEF Sent
  <2>2. CASE \E c : /\ Sent("main", c) /\ closed' = closed
                    /\ Stream("ch")' = IF c.ch = "ch" THEN Append(Stream("ch"), c.v) ELSE Stream("ch")
    BY <2>1, <2>2
  <2>3. CASE /\ Passed("main") /\ Stream("ch")' = Stream("ch")
             /\ IF Closes("main") THEN closed' = closed \cup Code("main").arg ELSE closed' = closed
    BY <1>2, <1>4, <2>3
  <2> QED BY <1>5, <2>2, <2>3 DEF Moves
<1>7. /\ l <= 9 /\ Stream("ch")' = Ones(j) /\ j \in Nat /\ closed' = (IF l >= 8 THEN {"ch"} ELSE {})
      /\ "ch" \in closed' => j = 6
  <2>1. m <= 9 /\ Stream("ch") = Ones(SentAt(m, 6)) /\ closed = (IF m >= 8 THEN {"ch"} ELSE {})
    BY DEF RangeInv, SentAt
  <2>2. l <= 9 /\ l \in Nat
    <3>1. l = m \/ (m \in 0 .. 8 /\ l = m + 1)
      BY <1>1, <1>6
    <3> HIDE DEF l, m
    <3> QED BY <1>1, <2>1, <3>1
  <2>3. Stream("ch")' = Ones(j)
    <3>1. CASE local'["main"] = s /\ Stream("ch")' = Stream("ch")
      BY <2>1, <3>1
    <3>3. CASE m \in {0, 7, 8} /\ l = m + 1 /\ Stream("ch")' = Stream("ch")
      <4>1. SentAt(l, 6) = SentAt(m, 6)
        BY <3>3 DEF SentAt, Lesser
      <4> QED BY <2>1, <3>3, <4>1
    <3>2. CASE m \in 1 .. 6 /\ l = m + 1 /\ Stream("ch")' = Append(Stream("ch"), m)
      BY <2>1, <3>2, SentOne
    <3> QED BY <1>6, <3>1, <3>2, <3>3
  <2>4. closed' = (IF l >= 8 THEN {"ch"} ELSE {})
    BY <1>1, <1>6, <2>1
  <2>5. j \in Nat /\ ("ch" \in closed' => j = 6)
    BY <2>2, <2>4 DEF SentAt, Lesser
  <2> QED BY <2>2, <2>3, <2>4, <2>5
<1>8. /\ local'["g1"].at <= 1 /\ wg' = 1 - local'["g1"].at
      /\ local'["g1"].at = 1 => ~local'["g1"].ok
      /\ ~local'["g1"].ok => seen'["ch"] = Ones(6)
      /\ r.at = 1 => local'["g1"].at = 1
  <2>1. /\ Len(seen'["ch"]) \in Nat /\ Len(seen'["ch"]) <= j
        /\ Len(seen'["ch"]) = j \/ buf'["ch"] = <<>> => seen'["ch"] = Ones(j)
    <3> HIDE DEF j
    <3> QED BY <1>1, <1>7, SeenIs
  <2>2. r.at <= 1 /\ wg = 1 - r.at /\ (r.at = 1 => ~r.ok) /\ (~r.ok => seen["ch"] = Ones(6))
    BY DEF RangeInv
  <2>3. wg' = wg \/ Passed("g1")
    BY <1>1, <1>2 DEF Views
  <2>4. CASE \E c, x : Took("g1", c, x)
    <3>1. r.at = 0 /\ local'["g1"].at = 0 /\ local'["g1"].ok = TRUE
      BY <1>3, <2>4, CasesAre DEF Took
    <3>2. ~Passed("g1")
      BY <1>3, <1>4, <3>1
    <3> QED BY <2>2, <2>3, <3>1, <3>2
  <2>5. CASE seen'["ch"] = seen["ch"] /\ \E c : SawClosed("g1", c)
    <3>1. "ch" \in closed' /\ buf'["ch"] = <<>> /\ r.at = 0 /\ local'["g1"].at = 0
      BY <1>3, <2>5, CasesAre DEF SawClosed
    <3>2. ~Passed("g1")
      BY <1>3, <1>4, <3>1
    <3> QED BY <1>7, <2>1, <2>2, <2>3, <3>1, <3>2
  <2>6. CASE seen'["ch"] = seen["ch"] /\ Passed("g1")
    <3>1. r.at = 0 /\ ~r.ok /\ local'["g1"].at = 1 /\ ~local'["g1"].ok /\ wg' = wg - 1
      BY <1>1, <1>3, <1>4, <2>6
    <3> QED BY <2>2, <2>6, <3>1
  <2>7. CASE seen'["ch"] = seen["ch"] /\ local'["g1"] = r /\ ~Passed("g1")
    BY <2>2, <2>3, <2>7
  <2> QED BY <1>5, <2>4, <2>5, <2>6, <2>7 DEF Reads
<1>9. l = 9 => local'["g1"].at = 1
  <2>1. (m = 9 => r.at = 1) /\ wg = 1 - r.at
    BY DEF RangeInv
  <2>2. l = m \/ (l = m + 1 /\ (m = 8 => wg = 0))
    BY <1>6
  <2>3. l = 9 => m = 9 \/ (m = 8 /\ wg = 0)
    BY <1>1, <2>2
  <2>4. r.at = 0 \/ r.at = 1
    BY <1>1 DEF RangeInv
  <2> QED BY <1>8, <2>1, <2>3, <2>4
<1> QED BY <1>7, <1>8, <1>9 DEF RangeInv, SentAt

LEMMA CancelStep ==
  ASSUME GoType, GoType', Views, sample \in {"CancelContext", "CancelContextM"}, CancelInv
  PROVE  CancelInv'
<1> DEFINE s == local["main"]  m == s.at  l == local'["main"].at
<1>1. /\ started \subseteq {"main", "g1", "g2", "g3"} /\ s \in Locals /\ m \in Nat
      /\ \A h \in started : local[h] \in Locals
      /\ "main" \in Goroutines /\ "printCh" \in Channels
  BY DEF GoType, Crew, Goroutines, Channels, Locals
<1>2. /\ \A dir, c : Offers("main", dir, c) => dir = "send" /\ m \in 1 .. 3 /\ c = SndCase("printCh", m, Inc(s))
      /\ Passed("main") => m \in {0, 4} /\ local'["main"] = Inc(s)
      /\ Code("main").next # s
  BY <1>1, CancelCode
<1>3. \A h \in started \ {"main"} : ~Closes(h) /\ \A dir, c : Offers(h, dir, c) => dir = "recv"
  BY <1>1, CancelCode
<1>4. Inc(s).at = m + 1 /\ Inc(s) # s
  BY <1>1, IncIs
<1>5. Moves("main", "printCh")
  <2>1. \A h \in started : Sends(h, "printCh") \/ Closes(h) => h = "main"
    BY <1>3 DEF Sends
  <2>2. \A c : Offers("main", "send", c) => c.next # s
    BY <1>2, <1>4, CasesAre
  <2>3. \A c : ~Offers("main", "recv", c)
    BY <1>2
  <2> QED BY <1>1, <1>2, <2>1, <2>2, <2>3, SenderMoves
<1>6. \/ local'["main"] = s /\ Stream("printCh")' = Stream("printCh")
      \/ m \in 1 .. 3 /\ l = m + 1 /\ Stream("printCh")' = Append(Stream("printCh"), m)
      \/ m \in {0, 4} /\ l = m + 1 /\ Stream("printCh")' = Stream("printCh")
  <2>1. ASSUME NEW c, Sent("main", c)
        PROVE  m \in 1 .. 3 /\ l = m + 1 /\ c.ch = "printCh" /\ c.v = m
    BY <1>2, <1>4, <2>1, CasesAre DEF Sent
  <2> QED BY <1>2, <1>4, <1>5, <2>1 DEF Moves
<1>7. m <= 5 /\ Stream("printCh") = Ones(SentAt(m, 3))
  BY DEF CancelInv, SentAt
<1>8. CASE local'["main"] = s \/ m \in {0, 4}
  BY <1>1, <1>6, <1>7, <1>8 DEF CancelInv, SentAt, Lesser
<1>9. CASE m \in 1 .. 3 /\ l = m + 1 /\ Stream("printCh")' = Append(Stream("printCh"), m)
  <2>1. Stream("printCh")' = Ones(SentAt(l, 3))
    BY <1>7, <1>9, SentOne
  <2> QED BY <1>9, <2>1 DEF CancelInv, SentAt
<1> QED BY <1>6, <1>8, <1>9

LEMMA CloseInvStep ==
  ASSUME GoType, Views, sample = "ChannelClose", CloseInv
  PROVE  CloseInv'
<1> DEFINE s == local["main"]  m == s.at  l == local'["main"].at
<1>1. /\ started \subseteq {"main", "g1"} /\ s \in Locals /\ m \in Nat /\ local["g1"] \in Locals
      /\ "main" \in Goroutines /\ "g1" \in Goroutines /\ "ch" \in Channels
  BY TwoGoroutines DEF Closing, Channels, Locals
<1>2. /\ \A dir, c : Offers("main", dir, c) => dir = "send" /\ m < 3 /\ c = SndCase("ch", 1, Inc(s))
      /\ Passed("main") => m \in {3, 4} /\ local'["main"] = Inc(s) /\ (Closes("main") <=> m = 3)
      /\ Code("main").next # s /\ (Closes("main") => m = 3 /\ Code("main").arg = {"ch"})
  BY <1>1, CloseCode
<1>3. (\A dir, c : Offers("g1", dir, c) => dir = "recv") /\ ~Closes("g1")
  BY <1>1, CloseCode
<1>4. Inc(s).at = m + 1 /\ Inc(s) # s
  BY <1>1, IncIs
<1>5. Moves("main", "ch")
  <2>1. \A h \in started : Sends(h, "ch") \/ Closes(h) => h = "main"
    BY <1>1, <1>3 DEF Sends
  <2>2. \A c : Offers("main", "send", c) => c.next # s
    BY <1>2, <1>4, CasesAre
  <2>3. \A c : ~Offers("main", "recv", c)
    BY <1>2
  <2> QED BY <1>1, <1>2, <2>1, <2>2, <2>3, SenderMoves
<1>6. \/ l = m /\ closed' = closed
      \/ m < 3 /\ l = m + 1 /\ closed' = closed
      \/ m \in {3, 4} /\ l = m + 1 /\ closed' = IF m = 3 THEN closed \cup {"ch"} ELSE closed
  <2>1. ASSUME NEW c, Sent("main", c) PROVE m < 3 /\ l = m + 1
    BY <1>2, <1>4, <2>1, CasesAre DEF Sent
  <2>2. Passed("main") => m \in {3, 4} /\ l = m + 1
    BY <1>2, <1>4
  <2> QED BY <1>2, <1>5, <2>1, <2>2 DEF Moves
<1>7. m <= 5 /\ closed = (IF m >= 4 THEN {"ch"} ELSE {})
  BY DEF CloseInv
<1>8. l <= 5 /\ closed' = (IF l >= 4 THEN {"ch"} ELSE {})
  <2> HIDE DEF l, m
  <2> QED BY <1>1, <1>6, <1>7
<1> QED BY <1>8 DEF CloseInv

LEMMA RaceStep ==
  ASSUME GoType, Views, sample = "ChannelRaceInSelect", RaceInv
  PROVE  RaceInv'
<1> DEFINE s == local["g3"]  k == s.at  l == local'["g3"].at
<1>1. /\ started \subseteq {"main", "g1", "g2", "g3"} /\ s \in Locals /\ k \in Nat
      /\ "g3" \in Goroutines /\ \A h \in started : local[h] \in Locals
  BY DEF GoType, Crew, Goroutines, Locals
<1>2. /\ \A dir, c : Offers("g3", dir, c) => dir = "recv" /\ k < Many /\ c.next = Inc(s)
      /\ Passed("g3") => k = Many /\ local'["g3"] = Inc(s) /\ wg' = wg - 1
      /\ Code("g3").op = "wgDone" => k = Many
  BY <1>1, RaceCode
<1>3. \A h \in started : Code(h).op = "wgDone" => h = "g3"
  BY <1>1, RaceCode
<1>4. Inc(s).at = k + 1
  BY <1>1, IncIs
<1>5. wg' = wg \/ (Passed("g3") /\ k = Many)
  BY <1>1, <1>2, <1>3 DEF Views
<1>6. \/ l = k /\ ~Passed("g3")
      \/ k < Many /\ l = k + 1 /\ ~Passed("g3")
      \/ k = Many /\ l = k + 1 /\ wg' = wg - 1
  <2>1. Passed("g3") => k = Many /\ l = k + 1 /\ wg' = wg - 1
    BY <1>2, <1>4
  <2>2. ASSUME NEW c, Got("g3", c) \/ Drained("g3", c), "g3" \in started PROVE k < Many /\ l = k + 1
    <3>1. l = c.next.at /\ Offers("g3", "recv", c)
      BY <2>2, GotIs DEF Took, SawClosed
    <3> QED BY <1>2, <1>4, <3>1
  <2>3. ~\E c : Sent("g3", c)
    BY <1>2 DEF Sent
  <2> QED BY <1>1, <2>1, <2>2, <2>3, ManyAssumption DEF Views, View
<1>7. k <= Many + 1 /\ wg = (IF k = Many + 1 THEN 0 ELSE 1)
  BY DEF RaceInv
<1>8. l <= Many + 1 /\ wg' = (IF l = Many + 1 THEN 0 ELSE 1)
  <2> HIDE DEF l, k
  <2> QED BY <1>1, <1>5, <1>6, <1>7, ManyAssumption
<1> QED BY <1>8 DEF RaceInv

\* The first ones of the odd numbers.
LEMMA OddIs ==
  ASSUME NEW s \in Seq(Int), NEW t \in Seq(Int), NEW n \in Nat, Left(s, t, Odd(n))
  PROVE  s = Odd(Len(s))
<1>1. Odd(n) \in Seq(Int) /\ Len(Odd(n)) = n /\ \A i \in 1 .. n : Odd(n)[i] = 2 * i - 1
  BY SequencesAre
<1>2. Len(s) \in Nat /\ Len(s) <= n /\ \A i \in 1 .. Len(s) : s[i] = Odd(n)[i]
  BY <1>1, Beginning DEF Left
<1>3. /\ Odd(Len(s)) \in Seq(Int) /\ Len(Odd(Len(s))) = Len(s)
      /\ \A i \in 1 .. Len(s) : Odd(Len(s))[i] = 2 * i - 1
  BY <1>2, SequencesAre
<1>4. \A i \in 1 .. Len(s) : s[i] = Odd(Len(s))[i]
  BY <1>1, <1>2, <1>3
<1> QED BY <1>3, <1>4, SeqEqual

LEMMA SelectRaceStep ==
  ASSUME GoType, GoType', Views, sample = "SelectRace", SelectRaceInv
  PROVE  SelectRaceInv'
<1> DEFINE g == local["g1"]  k == g.at  m == local["main"]  l == local'["g1"].at
<1>1. /\ started \subseteq {"main", "g1"} /\ g \in Locals /\ m \in Locals
      /\ k \in Nat /\ m.at \in Nat /\ m.v \in Int
      /\ "main" \in Goroutines /\ "g1" \in Goroutines /\ "ch1" \in Channels /\ "ch2" \in Channels
  BY TwoGoroutines DEF Closing, Channels, Locals
<1>2. /\ \A dir, c : Offers("g1", dir, c) => /\ dir = "send" /\ k < Many
                                             /\ c = SndCase(IF k % 2 = 0 THEN "ch2" ELSE "ch1", k, Inc(g))
      /\ ~Passed("g1") /\ Code("g1").next # g /\ ~Closes("g1")
  BY <1>1, SelectRaceCode
<1>3. /\ \A dir, c : Offers("main", dir, c) =>
           dir = "recv" /\ m.at = 1 /\ (c = RcvCase("ch1", m) \/ c = RcvCase("ch2", m))
      /\ Passed("main") => (m.at = 0 /\ local'["main"] = Inc(m)) \/ local'["main"] = m
      /\ ~Closes("main")
  BY <1>1, SelectRaceCode
<1>4. Inc(g).at = k + 1 /\ Inc(g) # g /\ Inc(m).at = m.at + 1 /\ Inc(m).v = m.v
  BY <1>1, IncIs
<1>5. Moves("g1", "ch1") /\ Moves("g1", "ch2") /\ Reads("main", "ch1") /\ Reads("main", "ch2")
  <2>1. \A h \in started : Sends(h, "ch1") \/ Sends(h, "ch2") \/ Closes(h) => h = "g1"
    BY <1>1, <1>3 DEF Sends
  <2>2. \A c : Offers("g1", "send", c) => c.next # g
    BY <1>2, <1>4, CasesAre
  <2>3. (\A c : ~Offers("g1", "recv", c)) /\ (\A c : ~Offers("main", "send", c))
    BY <1>2, <1>3
  <2>4. \A h \in started : Receives(h, "ch1") \/ Receives(h, "ch2") => h = "main"
    <3>1. \A h \in started : h = "main" \/ h = "g1"
      BY <1>1
    <3>2. ~Receives("g1", "ch1") /\ ~Receives("g1", "ch2")
      BY <2>3 DEF Receives
    <3> QED BY <3>1, <3>2
  <2> QED BY <1>1, <1>2, <2>1, <2>2, <2>3, <2>4, SenderMoves, ReaderReads
<1>6. /\ closed' = closed
      /\ \/ l = k /\ Stream("ch1")' = Stream("ch1") /\ Stream("ch2")' = Stream("ch2")
         \/ /\ k < Many /\ l = k + 1 /\ k % 2 = 0
            /\ Stream("ch1")' = Stream("ch1") /\ Stream("ch2")' = Append(Stream("ch2"), k)
         \/ /\ k < Many /\ l = k + 1 /\ k % 2 # 0
            /\ Stream("ch2")' = Stream("ch2") /\ Stream("ch1")' = Append(Stream("ch1"), k)
  <2>1. ASSUME NEW c, Sent("g1", c)
        PROVE  k < Many /\ l = k + 1 /\ c.ch = (IF k % 2 = 0 THEN "ch2" ELSE "ch1") /\ c.v = k
    BY <1>2, <1>4, <2>1, CasesAre DEF Sent
  <2>2. closed' = closed
    BY <1>1, <1>2, <1>3 DEF Views, Closes
  <2>3. CASE \E c : Sent("g1", c)
    <3>1. k < Many /\ l = k + 1 /\ l # k /\ local'["g1"] # g
      BY <1>1, <2>1, <2>3
    <3>2. \A ch \in {"ch1", "ch2"} :
            Moves("g1", ch) => Stream(ch)' = IF ch = (IF k % 2 = 0 THEN "ch2" ELSE "ch1")
                                             THEN Append(Stream(ch), k) ELSE Stream(ch)
      BY <1>2, <2>1, <3>1 DEF Moves
    <3> QED BY <1>5, <2>2, <3>1, <3>2
  <2>4. CASE ~\E c : Sent("g1", c)
    BY <1>2, <1>5, <2>2, <2>4 DEF Moves
  <2> QED BY <2>3, <2>4
<1>7. /\ l <= Many /\ l \in Nat /\ closed' = {}
      /\ Stream("ch1")' = Odd(l \div 2) /\ Stream("ch2")' = Even((l + 1) \div 2)
  <2>1. k <= Many /\ Stream("ch1") = Odd(k \div 2) /\ Stream("ch2") = Even((k + 1) \div 2) /\ closed = {}
    BY DEF SelectRaceInv
  <2>2. CASE l = k /\ Stream("ch1")' = Stream("ch1") /\ Stream("ch2")' = Stream("ch2")
    BY <1>1, <1>6, <2>1, <2>2
  <2>3. CASE /\ k < Many /\ l = k + 1 /\ k % 2 = 0
             /\ Stream("ch1")' = Stream("ch1") /\ Stream("ch2")' = Append(Stream("ch2"), k)
    <3> DEFINE i == k \div 2
    <3>1. /\ i \in Nat /\ k = 2 * i /\ (k + 1) \div 2 = i /\ (l + 1) \div 2 = i + 1 /\ l \div 2 = i
          /\ l <= Many /\ l \in Nat
      <4> HIDE DEF l, k
      <4> QED BY <1>1, <2>3, ManyAssumption DEF i
    <3>2. Append(Even(i), 2 * i) = Even(i + 1)
      BY <3>1, SequencesNext
    <3> HIDE DEF i, l, k
    <3> QED BY <1>6, <2>1, <2>3, <3>1, <3>2
  <2>4. CASE /\ k < Many /\ l = k + 1 /\ k % 2 # 0
             /\ Stream("ch2")' = Stream("ch2") /\ Stream("ch1")' = Append(Stream("ch1"), k)
    <3> DEFINE i == k \div 2
    <3>1. /\ i \in Nat /\ k = 2 * i + 1 /\ (k + 1) \div 2 = i + 1 /\ (l + 1) \div 2 = i + 1 /\ l \div 2 = i + 1
          /\ l <= Many /\ l \in Nat
      <4> HIDE DEF l, k
      <4> QED BY <1>1, <2>4, ManyAssumption DEF i
    <3>2. Append(Odd(i), 2 * i + 1) = Odd(i + 1)
      BY <3>1, SequencesNext
    <3> HIDE DEF i, l, k
    <3> QED BY <1>6, <2>1, <2>4, <3>1, <3>2
  <2> QED BY <1>6, <2>2, <2>3, <2>4
<1>8. LET m2 == local'["main"] IN
      m2.at <= 1 /\ m2.v >= -1 /\ (m2.v % 2 = 1 => seen'["ch1"] = Odd((m2.v + 1) \div 2))
  <2>1. m.at <= 1 /\ m.v >= -1 /\ (m.v % 2 = 1 => seen["ch1"] = Odd((m.v + 1) \div 2))
    BY DEF SelectRaceInv
  <2>2. l \div 2 \in Nat /\ (l + 1) \div 2 \in Nat
    BY <1>7
  <2>3. CASE \E c, x : Took("main", c, x) /\ c.ch = "ch1"
    <3>1. PICK c, x : Took("main", c, x) /\ c.ch = "ch1"
      BY <2>3
    <3>2. /\ local'["main"].at = 1 /\ local'["main"].v = x /\ x \in Int /\ seen'["ch1"] = Append(seen["ch1"], x)
      BY <1>3, <3>1, CasesAre DEF Took
    <3> DEFINE n == l \div 2  i == Len(seen["ch1"]) + 1
    <3>3. /\ n \in Nat /\ i \in 1 .. n /\ x = Odd(n)[i] /\ Len(seen'["ch1"]) = i
      <4>1. n \in Nat /\ Stream("ch1")' = Odd(n)
        BY <1>7, <2>2
      <4>2. /\ Len(seen["ch1"]) \in Nat /\ Len(seen["ch1"]) + 1 <= n /\ x = Odd(n)[Len(seen["ch1"]) + 1]
            /\ Len(seen'["ch1"]) = Len(seen["ch1"]) + 1
        <5> HIDE DEF n
        <5> QED BY <1>1, <3>2, <4>1, TookIs
      <4> HIDE DEF n
      <4> QED BY <4>1, <4>2
    <3>4. seen'["ch1"] = Odd(i)
      <4>1. seen'["ch1"] \in Seq(Int) /\ buf'["ch1"] \in Seq(Int) /\ Left(seen'["ch1"], buf'["ch1"], Odd(n))
        BY <1>1, <1>7 DEF GoType, Stream, Left
      <4> HIDE DEF n
      <4> QED BY <3>3, <4>1, OddIs
    <3>5. x = 2 * i - 1
      <4> HIDE DEF n, i
      <4> QED BY <3>3, SequencesAre
    <3>6. (x + 1) \div 2 = i /\ x >= -1
      <4> HIDE DEF n, i
      <4> QED BY <3>3, <3>5
    <3> QED BY <3>2, <3>4, <3>6
  <2>4. CASE \E c, x : Took("main", c, x) /\ c.ch = "ch2"
    <3>1. PICK c, x : Took("main", c, x) /\ c.ch = "ch2"
      BY <2>4
    <3>2. /\ local'["main"].at = 1 /\ local'["main"].v = x /\ x \in Int /\ seen'["ch2"] = Append(seen["ch2"], x)
      BY <1>3, <3>1, CasesAre DEF Took
    <3> DEFINE n == (l + 1) \div 2  i == Len(seen["ch2"]) + 1
    <3>3. n \in Nat /\ i \in 1 .. n /\ x = Even(n)[i]
      <4>1. n \in Nat /\ Stream("ch2")' = Even(n)
        BY <1>7, <2>2
      <4>2. Len(seen["ch2"]) \in Nat /\ Len(seen["ch2"]) + 1 <= n /\ x = Even(n)[Len(seen["ch2"]) + 1]
        <5> HIDE DEF n
        <5> QED BY <1>1, <3>2, <4>1, TookIs
      <4> HIDE DEF n
      <4> QED BY <4>1, <4>2
    <3>4. x = 2 * (i - 1) /\ i \in Nat /\ i >= 1
      <4> HIDE DEF n, i
      <4> QED BY <3>3, SequencesAre
    <3>5. x % 2 = 0 /\ x >= -1
      <4> HIDE DEF i
      <4> QED BY <3>4
    <3> QED BY <3>2, <3>5
  <2>5. ~\E c : SawClosed("main", c)
    BY <1>7 DEF SawClosed
  <2>6. CASE seen'["ch1"] = seen["ch1"] /\ (local'["main"] = m \/ Passed("main"))
    BY <1>1, <1>3, <1>4, <2>1, <2>6
  <2>7. \A c, x : Took("main", c, x) => c.ch = "ch1" \/ c.ch = "ch2"
    BY <1>3, CasesAre DEF Took
  <2> QED BY <1>5, <2>3, <2>4, <2>5, <2>6, <2>7 DEF Reads
<1> QED BY <1>7, <1>8 DEF SelectRaceInv

-----------------------------------------------------------------------------
(* The inductive invariant.                                                *)

GoInv == GoType /\ ChannelInv /\ SampleInv

\* No other sample counts down a WaitGroup.
LEMMA OnlyWaitsCount ==
  ASSUME sample \in Samples, sample \notin Waits, NEW g \in {"main"} \cup Crew
  PROVE  Code(g).op # "wgDone"
<1>1. CASE sample \notin Closing
  BY <1>1, OtherCode
<1>2. CASE sample = "ChannelPop"
  BY <1>2, OpsAre DEF Code, ChannelPop
<1>3. CASE sample = "ChannelPopForRange"
  BY <1>3, OpsAre DEF Code, ChannelPopForRange
<1>4. CASE sample = "ChannelClose"
  BY <1>4, OpsAre DEF Code, ChannelClose
<1> QED BY <1>1, <1>2, <1>3, <1>4 DEF Closing, Waits

\* Every step keeps SampleInv.
LEMMA SampleStep ==
  ASSUME GoType, GoType', SampleInv, Views
  PROVE  SampleInv'
<1>1. sample' = sample
  BY DEF Views
<1>2. (sample \notin Closing => closed \subseteq NeverSent) /\ (sample \notin Waits => wg = 0)
  BY DEF SampleInv
<1>3. ASSUME sample \notin Closing PROVE closed' \subseteq NeverSent
  <2>1. \A h \in started : Code(h).op = "close" => Code(h).arg \subseteq NeverSent
    BY <1>3, OtherCode DEF GoType
  <2>2. {"done"} \subseteq NeverSent
    BY DEF NeverSent
  <2> QED BY <1>2, <1>3, <2>1, <2>2 DEF Views
<1>4. ASSUME sample \notin Waits PROVE wg' = 0
  <2>1. \A h \in started : Code(h).op # "wgDone"
    BY <1>4, OnlyWaitsCount DEF GoType
  <2> QED BY <1>2, <1>4, <2>1 DEF Views
<1>5. sample = "ChannelPop" => PopInv'
  BY PopStep DEF SampleInv
<1>6. sample = "ChannelPopForRange" => ForRangeInv'
  BY ForRangeStep DEF SampleInv
<1>7. sample = "ChannelForSelect" => ForSelectInv'
  BY ForSelectStep DEF SampleInv
<1>8. sample = "ChannelRangeAndHidenSize" => RangeInv'
  BY RangeStep DEF SampleInv
<1>9. sample = "ChannelClose" => CloseInv'
  BY CloseInvStep DEF SampleInv
<1>10. sample = "ChannelRaceInSelect" => RaceInv'
  BY RaceStep DEF SampleInv
<1>11. sample \in {"CancelContext", "CancelContextM"} => CancelInv'
  BY CancelStep DEF SampleInv
<1>12. sample = "SelectRace" => SelectRaceInv'
  BY SelectRaceStep DEF SampleInv
<1> QED BY <1>1, <1>3, <1>4, <1>5, <1>6, <1>7, <1>8, <1>9, <1>10, <1>11, <1>12
       DEF SampleInv, Closing, Waits, NeverSent

\* Every step keeps the invariant, and looks to each goroutine and channel as Views says.
LEMMA StepViews ==
  ASSUME GoInv, Next
  PROVE  GoInv' /\ Views
<1>1. StepOK
  BY ClosingsSafe, StepIsOK DEF GoInv
<1> QED BY <1>1, SampleStep DEF GoInv, StepOK

\* The invariant holds at the start, is kept by a stutter, and implies ChannelsOK.
LEMMA GoStutter ==
  ASSUME GoInv, UNCHANGED vars
  PROVE  GoInv'
<1>1. GoType'
  BY DEF GoInv, GoType, OrderOK, Crew, vars
<1>2. ChannelInv'
  <2>1. \A ch \in Channels : /\ Len(buf[ch]) \in Nat /\ Len(buf[ch]) <= Cap(ch) /\ Cap(ch) \in Nat
                             /\ Waiting("send", ch) # {} => Len(buf[ch]) = Cap(ch) /\ ch \notin closed
                             /\ Waiting("recv", ch) # {} => buf[ch] = <<>> /\ ch \notin closed
    BY ParkedFacts DEF GoInv
  <2>2. sample' = sample /\ parked' = parked /\ local' = local /\ buf' = buf /\ closed' = closed
    BY DEF vars
  <2> QED BY <2>1, <2>2, StayParked DEF GoInv
<1>3. SampleInv'
  <2>1. Views
    BY DEF Views, View, Stream, vars
  <2> QED BY <1>1, <2>1, SampleStep DEF GoInv
<1> QED BY <1>1, <1>2, <1>3 DEF GoInv

LEMMA GoInit == Init => GoInv
<1> SUFFICES ASSUME Init PROVE GoInv
  OBVIOUS
<1>1. GoType
  <2>1. [at |-> 0, v |-> -1, ok |-> TRUE] \in Locals
    BY DEF Locals
  <2>2. <<>> \in Seq(Int)
    OBVIOUS
  <2> QED BY <2>1, <2>2 DEF Init, GoType, OrderOK
<1>2. ChannelInv
  <2>1. \A dir, ch : Waiting(dir, ch) = {}
    BY DEF Init, Waiting
  <2>2. \A ch \in Channels : buf[ch] = <<>> /\ Len(buf[ch]) = 0 /\ Cap(ch) \in Nat
    BY CapIs DEF Init
  <2>3. parked = {}
    BY DEF Init
  <2> QED BY <2>1, <2>2, <2>3 DEF ChannelInv
<1>3. SampleInv
  <2>1. /\ closed = {} /\ \A g \in Goroutines : local[g].at = 0 /\ local[g].v = -1 /\ local[g].ok = TRUE
        /\ wg = IF sample \in Waits THEN 1 ELSE 0
    BY DEF Init
  <2>2. \A ch \in Channels : seen[ch] = <<>> /\ Len(seen[ch]) = 0 /\ Stream(ch) = <<>>
    <3>1. <<>> \o <<>> = <<>> /\ Len(<<>>) = 0
      OBVIOUS
    <3> QED BY <3>1 DEF Init, Stream
  <2>3. /\ {"main", "g1", "g3"} \subseteq Goroutines /\ {"ch", "ch1", "ch2", "printCh"} \subseteq Channels
        /\ {"ChannelForSelect", "ChannelRangeAndHidenSize", "ChannelRaceInSelect"} \subseteq Waits
    BY DEF Goroutines, Channels, Waits
  <2>4. UpTo(0) = <<>> /\ Ones(0) = <<>> /\ Odd(0) = <<>> /\ Even(0) = <<>>
    BY SequencesNext
  <2>5. \A n \in Nat : Lesser(0, n) = 0
    BY DEF Lesser
  <2>6. PopInv
    BY <2>1, <2>2, <2>3, <2>4, <2>5 DEF PopInv
  <2>7. ForRangeInv
    BY <2>1, <2>2, <2>3, <2>4, <2>5, ManyAssumption DEF ForRangeInv
  <2>8. sample \in Waits => ForSelectInv
    BY <2>1, <2>2, <2>3, <2>4, <2>5, ManyAssumption DEF ForSelectInv
  <2>9. sample \in Waits => RangeInv
    BY <2>1, <2>2, <2>3, <2>4 DEF RangeInv
  <2>10. CloseInv /\ CancelInv
    BY <2>1, <2>2, <2>3, <2>4 DEF CloseInv, CancelInv
  <2>11. sample \in Waits => RaceInv
    BY <2>1, <2>3, ManyAssumption DEF RaceInv
  <2>12. SelectRaceInv
    <3>1. 0 \div 2 = 0 /\ (0 + 1) \div 2 = 0 /\ ((-1) + 1) \div 2 = 0
      OBVIOUS
    <3> QED BY <2>1, <2>2, <2>3, <2>4, <3>1, ManyAssumption DEF SelectRaceInv
  <2> QED BY <2>1, <2>3, <2>6, <2>7, <2>8, <2>9, <2>10, <2>11, <2>12 DEF SampleInv
<1> QED BY <1>1, <1>2, <1>3 DEF GoInv

\* The channels and the samples keep their invariants.
THEOREM GoInvariant == Spec => []GoInv
<1>1. Init => GoInv
  BY GoInit
<1>2. GoInv /\ [Next]_vars => GoInv'
  BY StepViews, GoStutter
<1> QED BY <1>1, <1>2, PTL DEF Spec

-----------------------------------------------------------------------------
(* Go's rules.                                                             *)

LEMMA ChannelsFine == GoInv => ChannelsOK
<1> SUFFICES ASSUME GoInv PROVE ChannelsOK
  OBVIOUS
<1>1. TypeOK
  <2>1. wg \in {0, 1}
    <3>1. CASE sample \notin Waits
      BY <3>1 DEF GoInv, SampleInv
    <3>2. CASE sample = "ChannelForSelect"
      BY <3>2 DEF GoInv, SampleInv, ForSelectInv
    <3>3. CASE sample = "ChannelRangeAndHidenSize"
      <4>1. local["g1"].at \in Nat /\ local["g1"].at <= 1 /\ wg = 1 - local["g1"].at
        BY <3>3, TwoGoroutines DEF GoInv, SampleInv, RangeInv, Closing, Locals
      <4> QED BY <4>1
    <3>4. CASE sample = "ChannelRaceInSelect"
      BY <3>4 DEF GoInv, SampleInv, RaceInv
    <3> QED BY <3>1, <3>2, <3>3, <3>4 DEF Waits
  <2> QED BY <2>1 DEF GoInv, GoType, ChannelInv, TypeOK
<1>2. NoPanic
  BY DEF GoInv, GoType, Locals, NoPanic, Panicked
<1> QED BY <1>1, <1>2 DEF ChannelsOK

\* A buffer is never over its capacity, nobody is parked who could go on, a value never lies
\* in a buffer while someone waits for it, nobody sends on a closed channel, and no
\* channel but a context's is closed twice: for any number of rounds and any capacity.
THEOREM ChannelsAreOK == Spec => []ChannelsOK
  BY GoInvariant, ChannelsFine, PTL

-----------------------------------------------------------------------------
(* What a test has seen.                                                   *)

\* What has been received of n numbers is the first of them.
LEMMA FirstOnes ==
  ASSUME NEW s \in Seq(Int), NEW t \in Seq(Int), NEW n \in Nat
  PROVE  /\ Left(s, t, UpTo(n)) => s = UpTo(Len(s)) /\ Len(s) \in Nat /\ Len(s) <= n
         /\ Left(s, t, Even(n)) => s = Even(Len(s)) /\ Len(s) \in Nat /\ Len(s) <= n
<1>1. /\ UpTo(n) \in Seq(Int) /\ Len(UpTo(n)) = n /\ \A i \in 1 .. n : UpTo(n)[i] = i - 1
      /\ Even(n) \in Seq(Int) /\ Len(Even(n)) = n /\ \A i \in 1 .. n : Even(n)[i] = 2 * (i - 1)
  BY SequencesAre
<1>2. /\ Len(s) \in Nat
      /\ UpTo(Len(s)) \in Seq(Int) /\ Len(UpTo(Len(s))) = Len(s)
      /\ \A i \in 1 .. Len(s) : UpTo(Len(s))[i] = i - 1
      /\ Even(Len(s)) \in Seq(Int) /\ Len(Even(Len(s))) = Len(s)
      /\ \A i \in 1 .. Len(s) : Even(Len(s))[i] = 2 * (i - 1)
  BY SequencesAre, LenProperties
<1>3. ASSUME Left(s, t, UpTo(n)) PROVE s = UpTo(Len(s)) /\ Len(s) <= n
  <2>1. Len(s) <= n /\ \A i \in 1 .. Len(s) : s[i] = UpTo(n)[i]
    BY <1>1, <1>3, Beginning DEF Left
  <2>2. \A i \in 1 .. Len(s) : s[i] = UpTo(Len(s))[i]
    BY <1>1, <1>2, <2>1
  <2> QED BY <1>2, <2>1, <2>2, SeqEqual
<1>4. ASSUME Left(s, t, Even(n)) PROVE s = Even(Len(s)) /\ Len(s) <= n
  <2>1. Len(s) <= n /\ \A i \in 1 .. Len(s) : s[i] = Even(n)[i]
    BY <1>1, <1>4, Beginning DEF Left
  <2>2. \A i \in 1 .. Len(s) : s[i] = Even(Len(s))[i]
    BY <1>1, <1>2, <2>1
  <2> QED BY <1>2, <2>1, <2>2, SeqEqual
<1> QED BY <1>2, <1>3, <1>4

\* What was received of the even numbers is a beginning of them.
LEMMA EvenPrefix ==
  ASSUME NEW n \in Nat, NEW i \in 0 .. n
  PROVE  IsPrefix(Even(i), Even(n))
<1>1. i \in Nat
  OBVIOUS
<1>2. /\ Even(i) \in Seq(Int) /\ Len(Even(i)) = i /\ \A k \in 1 .. i : Even(i)[k] = 2 * (k - 1)
      /\ Even(n) \in Seq(Int) /\ Len(Even(n)) = n /\ \A k \in 1 .. n : Even(n)[k] = 2 * (k - 1)
  BY <1>1, SequencesAre
<1> DEFINE a == SubSeq(Even(i), 1, i)  b == SubSeq(Even(n), 1, i)
<1>3. /\ a \in Seq(Int) /\ Len(a) = i /\ \A k \in 1 .. i : a[k] = Even(i)[k]
      /\ b \in Seq(Int) /\ Len(b) = i /\ \A k \in 1 .. i : b[k] = Even(n)[k]
  BY <1>2
<1>4. a = b
  <2> HIDE DEF a, b
  <2>1. \A k \in 1 .. i : a[k] = b[k]
    BY <1>2, <1>3
  <2> QED BY <1>3, <2>1, SeqEqual
<1> QED BY <1>2, <1>4 DEF IsPrefix

\* What is seen is a beginning of the stream, all but the buffer.
LEMMA TypeOfStream ==
  ASSUME GoInv, NEW ch \in Channels, NEW x, Stream(ch) = x
  PROVE  /\ seen[ch] \in Seq(Int) /\ buf[ch] \in Seq(Int) /\ Left(seen[ch], buf[ch], x)
         /\ Len(buf[ch]) <= Cap(ch)
  BY DEF GoInv, GoType, ChannelInv, Stream, Left

\* The invariant of each sample says what its test has seen when main has ended.
LEMMA SawAll == GoInv => TestSawAll
<1> SUFFICES ASSUME GoInv, Ended("main")
             PROVE  CASE sample = "ChannelPop" -> seen["ch"] = UpTo(2)
                      [] sample = "ChannelPopForRange" -> seen["ch1"] = UpTo(Many)
                      [] sample = "ChannelForSelect" -> seen["ch1"] = UpTo(4)
                      [] sample = "ChannelRangeAndHidenSize" -> seen["ch"] = [i \in 1 .. 6 |-> i]
                      [] sample \in {"CancelContext", "CancelContextM"} -> seen["printCh"] = <<1, 2, 3>>
                      [] sample = "SelectRace" -> /\ seen["ch1"] = Odd(Many \div 2)
                                                  /\ IsPrefix(seen["ch2"], Even(Many \div 2))
                      [] OTHER -> TRUE
  BY DEF TestSawAll
<1> DEFINE s == local["main"]
<1>1. s \in Locals /\ s.at \in Nat /\ {"ch", "ch1", "ch2", "printCh"} \subseteq Channels
  <2>1. s \in Locals
    BY DEF GoInv, GoType, Goroutines
  <2> QED BY <2>1 DEF Locals, Channels
<1>2. CASE sample = "ChannelPop"
  <2>1. s.at > Many
    BY <1>1, <1>2, PopCode
  <2> DEFINE j == Lesser(local["g1"].at, 2)
  <2>2. /\ Stream("ch") = UpTo(j) /\ j \in Nat /\ j <= 2
        /\ Len(seen["ch"]) >= s.at - 1 \/ seen["ch"] = UpTo(2)
    <3>1. PopInv /\ local["g1"].at \in Nat
      BY <1>2, TwoGoroutines DEF GoInv, SampleInv, Closing, Locals
    <3> QED BY <3>1 DEF PopInv, Lesser
  <2> HIDE DEF j
  <2>3. seen["ch"] = UpTo(Len(seen["ch"])) /\ Len(seen["ch"]) \in Nat /\ Len(seen["ch"]) <= j
    BY <1>1, <2>2, TypeOfStream, FirstOnes
  <2>4. Len(seen["ch"]) = 2 \/ seen["ch"] = UpTo(2)
    BY <1>1, <2>1, <2>2, <2>3, ManyAssumption
  <2> QED BY <1>2, <2>3, <2>4
<1>3. CASE sample = "ChannelPopForRange"
  <2>1. s.at # 0 /\ ~(s.at = 1 /\ s.ok)
    BY <1>1, <1>3, ForRangeCode
  <2>2. s.at <= 1 /\ (~s.ok => seen["ch1"] = UpTo(Many))
    BY <1>3 DEF GoInv, SampleInv, ForRangeInv
  <2> QED BY <1>1, <1>3, <2>1, <2>2
<1>4. CASE sample = "ChannelForSelect"
  <2>1. s.at >= 2 /\ ~(s.at = 2 /\ s.v # 3)
    BY <1>1, <1>4, ForSelectCode
  <2> DEFINE j == Lesser(local["g1"].at, Many)
  <2>2. Stream("ch1") = UpTo(j) /\ j \in Nat /\ s.at <= 2 /\ s.v = Len(seen["ch1"]) - 1
    <3>1. ForSelectInv /\ local["g1"].at \in Nat
      BY <1>4, TwoGoroutines DEF GoInv, SampleInv, Locals
    <3> QED BY <3>1, ManyAssumption DEF ForSelectInv, Lesser
  <2> HIDE DEF j
  <2>3. seen["ch1"] = UpTo(Len(seen["ch1"])) /\ Len(seen["ch1"]) \in Nat
    BY <1>1, <2>2, TypeOfStream, FirstOnes
  <2>4. Len(seen["ch1"]) = 4
    BY <1>1, <2>1, <2>2, <2>3
  <2> QED BY <1>4, <2>3, <2>4
<1>5. CASE sample = "ChannelRangeAndHidenSize"
  <2>1. s.at > 8
    BY <1>1, <1>5, RangeCode
  <2>2. s.at <= 9 /\ (s.at = 9 => seen["ch"] = Ones(6))
    BY <1>5 DEF GoInv, SampleInv, RangeInv
  <2> QED BY <1>1, <1>5, <2>1, <2>2 DEF Ones
<1>6. CASE sample \in {"CancelContext", "CancelContextM"}
  <2>1. s.at > 4
    BY <1>1, <1>6, CancelCode
  <2>2. s.at <= 5 /\ Stream("printCh") = Ones(IF s.at = 0 THEN 0 ELSE Lesser(s.at - 1, 3))
    BY <1>6 DEF GoInv, SampleInv, CancelInv
  <2>3. Stream("printCh") = Ones(3)
    <3>1. s.at = 5
      BY <1>1, <2>1, <2>2
    <3> QED BY <2>2, <3>1 DEF Lesser
  <2>4. /\ seen["printCh"] \in Seq(Int) /\ buf["printCh"] \in Seq(Int)
        /\ Left(seen["printCh"], buf["printCh"], Ones(3)) /\ Len(buf["printCh"]) <= 0
    <3>1. Cap("printCh") = 0
      BY <1>6 DEF Cap
    <3> QED BY <1>1, <2>3, <3>1, TypeOfStream
  <2>5. buf["printCh"] = <<>>
    BY <2>4
  <2>6. seen["printCh"] = Ones(3)
    <3> DEFINE n == 3
    <3>1. n \in Nat /\ Left(seen["printCh"], buf["printCh"], Ones(n))
      BY <2>4
    <3> HIDE DEF n
    <3>2. seen["printCh"] = Ones(n)
      BY <2>4, <2>5, <3>1, ReadIs
    <3> QED BY <3>2 DEF n
  <2>7. Ones(3) = <<1, 2, 3>>
    BY DEF Ones
  <2> QED BY <1>6, <2>6, <2>7
<1>7. CASE sample = "SelectRace"
  <2>1. s.at # 0 /\ ~(s.at = 1 /\ s.v # Many - 1)
    BY <1>1, <1>7, SelectRaceCode
  <2> DEFINE k == local["g1"].at  n == (k + 1) \div 2  i == Len(seen["ch2"])
  <2>2. /\ k \in Nat /\ k <= Many /\ Stream("ch2") = Even(n) /\ s.at <= 1
        /\ s.v % 2 = 1 => seen["ch1"] = Odd((s.v + 1) \div 2)
    <3>1. SelectRaceInv /\ local["g1"].at \in Nat
      BY <1>7, TwoGoroutines DEF GoInv, SampleInv, Locals
    <3> QED BY <3>1 DEF SelectRaceInv
  <2>3. /\ (Many - 1) % 2 = 1 /\ ((Many - 1) + 1) \div 2 = Many \div 2 /\ n \in Nat /\ n <= Many \div 2
        /\ Many \div 2 \in Nat
    <3> HIDE DEF k
    <3> QED BY <2>2, ManyAssumption
  <2>4. s.v = Many - 1
    BY <1>1, <2>1, <2>2
  <2> HIDE DEF n, k
  <2>5. seen["ch2"] = Even(i) /\ i \in Nat /\ i <= n
    BY <1>1, <2>2, <2>3, TypeOfStream, FirstOnes
  <2>6. IsPrefix(seen["ch2"], Even(Many \div 2))
    <3> HIDE DEF i
    <3>1. i \in 0 .. Many \div 2
      BY <2>3, <2>5
    <3> QED BY <2>3, <2>5, <3>1, EvenPrefix
  <2> QED BY <1>7, <2>2, <2>3, <2>4, <2>6
<1> QED BY <1>2, <1>3, <1>4, <1>5, <1>6, <1>7

\* When a test function returns, what it was to see has arrived, complete and in order.
THEOREM TestsSeeAll == Spec => []TestSawAll
  BY GoInvariant, SawAll, PTL

-----------------------------------------------------------------------------
(* The context that times out.                                             *)

\* The program of TimeoutContext.
LEMMA TimeoutCode ==
  ASSUME sample = "TimeoutContext", NEW h \in {"main", "g1"}, NEW s \in Locals, s = local[h]
  PROVE  /\ h = "g1" => \A c : /\ ~Offers(h, "send", c)
                               /\ Offers(h, "recv", c) => Code(h).next # Block
         /\ h = "main" => \A c : /\ Offers(h, "recv", c) => c.ch = "done"
                                 /\ Offers(h, "send", c) => RcvCase("done", Inc(s)) \in Code(h).arg
<1>1. CASE h = "g1"
  <2>1. Code(h) = IF s.at = 1 THEN Stop
                  ELSE SelectDefault({RcvCase("done", Inc(s)), RcvCase("printCh", s)}, s)
    BY <1>1 DEF Code, TimeoutContext, BlockingFnA
  <2>2. Stop.op # "comm" /\ SelectDefault({RcvCase("done", Inc(s)), RcvCase("printCh", s)}, s).next = s
    BY OpsAre DEF SelectDefault, Stmt
  <2>3. s # Block
    BY IncIs
  <2>4. \A c : ~Offers(h, "send", c)
    BY <2>1, <2>2, OffersAre, CasesAre DEF Offers
  <2> QED BY <1>1, <2>1, <2>2, <2>3, <2>4 DEF Offers
<1>2. CASE h = "main"
  <2> DEFINE cases == {SndCase("printCh", s.at, Inc(s)), RcvCase("done", Inc(s))}
  <2>1. Code(h) = CASE s.at = 0 -> GoAll({"g1"}, Inc(s))
                    [] s.at \in 1 .. 3 -> Select(cases)
                    [] s.at = 4 -> Close({"done"}, Inc(s))
                    [] OTHER -> Stop
    BY <1>2 DEF Code, TimeoutContext
  <2>2. Select(cases).arg = cases
    BY DEF Select, SelectDefault, Stmt
  <2>3. \A dir, c : Offers(h, dir, c) => Code(h) = Select(cases)
    BY <2>1, OpsAre DEF Offers
  <2>4. \A c : Offers(h, "recv", c) => c.ch = "done"
    <3>1. \A c : Offers(h, "recv", c) => c \in cases /\ c.dir = "recv"
      BY <2>2, <2>3 DEF Offers
    <3> QED BY <3>1, CasesAre
  <2> QED BY <1>2, <2>2, <2>3, <2>4
<1> QED BY <1>1, <1>2

\* Nobody is parked at the printing channel once the context is done.
LEMMA NobodyPrints ==
  ASSUME GoInv, sample = "TimeoutContext"
  PROVE  /\ Waiting("recv", "printCh") = {} /\ buf["printCh"] = <<>>
         /\ "done" \in closed => Waiting("send", "printCh") = {}
<1>1. /\ parked \subseteq {"main", "g1"}
      /\ \A h \in parked : local[h] \in Locals /\ NoneReady(h) /\ Code(h).next = Block
      /\ "printCh" \in Channels
  BY DEF GoInv, GoType, ChannelInv, Crew, Goroutines, Channels
<1>2. Waiting("recv", "printCh") = {}
  <2>1. ASSUME NEW h \in Waiting("recv", "printCh") PROVE FALSE
    <3>1. PICK c : h \in parked /\ Offers(h, "recv", c) /\ c.ch = "printCh"
      BY WaitingIs
    <3> QED BY <1>1, <3>1, TimeoutCode
  <2> QED BY <2>1
<1>3. buf["printCh"] = <<>>
  <2>1. buf["printCh"] \in Seq(Int) /\ Len(buf["printCh"]) <= 0
    BY <1>1 DEF GoInv, GoType, ChannelInv, Cap
  <2> QED BY <2>1
<1>4. ASSUME "done" \in closed, NEW h \in Waiting("send", "printCh") PROVE FALSE
  <2>1. PICK c : h \in parked /\ Offers(h, "send", c) /\ c.ch = "printCh"
    BY <1>4, WaitingIs
  <2>2. RcvCase("done", Inc(local[h])) \in Code(h).arg
    BY <1>1, <2>1, TimeoutCode
  <2>3. ~Ready(RcvCase("done", Inc(local[h])))
    BY <1>1, <2>1, <2>2 DEF NoneReady
  <2> QED BY <1>4, <2>3, CasesAre DEF Ready
<1> QED BY <1>2, <1>3, <1>4

\* Once the context is done nothing is printed any more.
THEOREM NothingIsPrinted == Spec => NothingAfterDone
<1>1. ASSUME GoInv, [Next]_vars, sample = "TimeoutContext", "done" \in closed
      PROVE  seen'["printCh"] = seen["printCh"]
  <2>1. /\ Waiting("recv", "printCh") = {} /\ buf["printCh"] = <<>> /\ Waiting("send", "printCh") = {}
        /\ seen \in [Channels -> Seq(Int)]
    BY <1>1, NobodyPrints DEF GoInv, GoType
  <2>2. CASE UNCHANGED vars \/ Expire
    BY <2>2 DEF vars, Expire
  <2>3. CASE \E g \in Goroutines : Run(g)
    <3>1. PICK g \in Goroutines : Run(g)
      BY <2>3
    <3>2. CASE Communicate(g)
      <4>1. PICK c \in Code(g).arg : IF c.dir = "send" THEN DoSend(g, c) ELSE DoReceive(g, c)
        BY <3>2 DEF Communicate
      <4>2. CASE seen' = seen
        BY <4>2
      <4>3. CASE SendToReceiver(g, c)
        <5>1. c.ch # "printCh" /\ seen' = [seen EXCEPT ![c.ch] = Append(@, c.v)]
          BY <2>1, <4>3 DEF SendToReceiver, Note
        <5> QED BY <2>1, <5>1 DEF Channels
      <4>4. CASE ReceiveFromBuffer(g, c)
        <5>1. c.ch # "printCh" /\ seen' = [seen EXCEPT ![c.ch] = Append(@, Head(buf[c.ch]))]
          BY <2>1, <4>4 DEF ReceiveFromBuffer, Note
        <5> QED BY <2>1, <5>1 DEF Channels
      <4>5. CASE ReceiveFromSender(g, c)
        <5>1. c.ch # "printCh" /\ \E x : seen' = [seen EXCEPT ![c.ch] = Append(@, x)]
          BY <2>1, <4>5 DEF ReceiveFromSender, Note
        <5> QED BY <2>1, <5>1 DEF Channels
      <4> QED BY <4>1, <4>2, <4>3, <4>4, <4>5 DEF DoSend, SendToBuffer, DoReceive, ReceiveClosed
    <3>3. CASE TakeDefault(g) \/ Park(g) \/ CloseChannels(g) \/ Start(g) \/ WaitGroupOp(g)
      BY <3>3 DEF TakeDefault, Park, CloseChannels, Start, WaitGroupOp
    <3> QED BY <3>1, <3>2, <3>3 DEF Run
  <2> QED BY <1>1, <2>2, <2>3 DEF Next
<1>2. GoInv /\ [Next]_vars =>
        [sample = "TimeoutContext" /\ "done" \in closed => seen'["printCh"] = seen["printCh"]]_vars
  BY <1>1
<1> QED BY <1>2, GoInvariant, PTL DEF Spec, NothingAfterDone
=============================================================================
