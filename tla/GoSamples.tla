------------------------------ MODULE GoSamples ------------------------------
(***************************************************************************)
(* The samples of go/test on goroutines, channels, select and contexts,    *)
(* each as the programs of its goroutines, over channels that work as      *)
(* Go's do: a goroutine that cannot go on parks, and is released by the    *)
(* one that sends to it, receives from it or closes the channel.           *)
(*                                                                         *)
(* A sleep is any delay.  The process outlives the test function, so a     *)
(* goroutine that a test leaves behind goes on.                            *)
(***************************************************************************)
EXTENDS Integers, FiniteSets, SequencesExt

CONSTANTS
  Samples,     \* the samples to run
  Many,        \* bound: in place of 10, 140 or 1000 rounds; an even number
  Buffered     \* bound: in place of a capacity of 100

ASSUME SamplesAssumption == Samples \subseteq
  {"ChannelSize", "ChannelPop", "ChannelPopForRange", "ChannelForSelect",
   "ChannelRangeAndHidenSize", "ChannelWithGoroutine", "ChannelRaceInSelect", "ChannelClose",
   "CancelContext", "CancelContextM", "TimeoutContext", "CancelContextCancelParent",
   "CancelContextCancelChild", "DoRepeatedJob", "DoBlockingJob", "SelectDefault",
   "SelectFor", "SelectRace"}
ASSUME ManyAssumption == Many \in Nat /\ Many >= 2 /\ Many % 2 = 0
ASSUME BufferedAssumption == Buffered \in Nat

VARIABLES
  sample,      \* the sample that runs
  local,       \* local[g]: where g is (at) and what it received last (v, ok)
  started,     \* the goroutines there are
  parked,      \* those that wait in a channel operation
  earlier,     \* <<g, h>>: g has parked before h
  buf,         \* buf[ch]: what the channel's buffer holds
  closed,      \* the channels that are closed
  wg,          \* the counter of the WaitGroup
  seen         \* history: seen[ch]: what was received from ch

vars == <<sample, local, started, parked, earlier, buf, closed, wg, seen>>

Goroutines == {"main", "g1", "g2", "g3", "g4"}
Contexts   == {"done", "parent", "child"}            \* the Done() of a context
Channels   == {"ch", "ch1", "ch2", "printCh"} \cup Contexts

-----------------------------------------------------------------------------
(* Statements.  A case of a communication names the state after it.        *)

At(s, k) == [s EXCEPT !.at = k]
Inc(s)   == At(s, s.at + 1)
Block    == [at |-> -1, v |-> 0, ok |-> FALSE]          \* a select without default

SndCase(ch, v, n) == [dir |-> "send", ch |-> ch, v |-> v, next |-> n]
RcvCase(ch, n)    == [dir |-> "recv", ch |-> ch, v |-> 0, next |-> n]
Stmt(op, arg, n)  == [op |-> op, arg |-> arg, next |-> n]

SelectDefault(cases, n) == Stmt("comm", cases, n)
Select(cases)   == SelectDefault(cases, Block)
Send(ch, v, n)  == Select({SndCase(ch, v, n)})
Receive(ch, n)  == Select({RcvCase(ch, n)})
Close(chs, n)   == Stmt("close", chs, n)      \* a cancel closes the contexts below it too
GoAll(gs, n)    == Stmt("go", gs, n)
Wait(n)         == Stmt("wait", {}, n)
Done(n)         == Stmt("wgDone", {}, n)
Stop            == Stmt("stop", {}, Block)

-----------------------------------------------------------------------------
(* channel_test.go.                                                        *)

ChannelSize(g, s) ==
  CASE s.at = 2 -> Stop
    [] g = "main" -> IF s.at = 0 THEN GoAll({"g1"}, Inc(s)) ELSE Send("ch", 1, Inc(s))
    [] g = "g1" -> Receive("ch", At(s, 2))

ChannelPop(g, s) ==
  IF g = "main"
  THEN CASE s.at = 0 -> GoAll({"g1"}, Inc(s))
         [] s.at \in 1 .. Many -> Receive("ch", Inc(s))
         [] OTHER -> Stop
  ELSE CASE s.at < 2 -> Send("ch", s.at, Inc(s))
         [] s.at = 2 -> Close({"ch"}, Inc(s))
         [] OTHER -> Stop

ChannelPopForRange(g, s) ==
  IF g = "main"
  THEN CASE s.at = 0 -> GoAll({"g1"}, Inc(s))
         [] s.at = 1 /\ s.ok -> Receive("ch1", s)
         [] OTHER -> Stop
  ELSE CASE s.at < Many -> Send("ch1", s.at, Inc(s))
         [] s.at = Many -> Close({"ch1"}, Inc(s))
         [] OTHER -> Stop

ChannelForSelect(g, s) ==
  IF g = "main"
  THEN CASE s.at = 0 -> GoAll({"g1"}, Inc(s))
         [] s.at = 1 -> Wait(Inc(s))
         [] s.at = 2 /\ s.v # 3 -> Select({RcvCase("ch1", s), RcvCase("ch2", s)})
         [] OTHER -> Stop
  ELSE CASE s.at < Many -> Send("ch1", s.at, Inc(s))
         [] s.at = Many -> Done(Inc(s))
         [] OTHER -> Stop

RangeReaderDoneEach(s) ==
  CASE s.at = 0 /\ s.ok -> Receive("ch", Inc(s))
    [] s.at = 1 -> Done(At(s, IF s.ok THEN 0 ELSE 2))
    [] OTHER -> Stop

RangeReader(s) ==
  CASE s.at = 0 /\ s.ok -> Receive("ch", s)
    [] s.at = 0 /\ ~s.ok -> Done(Inc(s))
    [] OTHER -> Stop

RangeNoWait(g, s) ==
  IF g = "g1" THEN RangeReader(s)
  ELSE CASE s.at = 0 -> GoAll({"g1"}, Inc(s))
         [] s.at \in 1 .. 6 -> Send("ch", s.at, Inc(s))
         [] s.at = 7 -> Close({"ch"}, Inc(s))
         [] OTHER -> Stop

RangeClosesEarly(g, s) ==
  IF g = "g1" THEN RangeReader(s)
  ELSE CASE s.at = 0 -> GoAll({"g1"}, Inc(s))
         [] s.at \in 1 .. 5 -> Send("ch", s.at, Inc(s))
         [] s.at = 6 -> Close({"ch"}, Inc(s))
         [] s.at = 7 -> Send("ch", 6, Inc(s))
         [] s.at = 8 -> Wait(Inc(s))
         [] OTHER -> Stop

ChannelRangeAndHidenSize(g, s) ==
  IF g = "g1" THEN RangeReader(s)
  ELSE CASE s.at = 0 -> GoAll({"g1"}, Inc(s))
         [] s.at \in 1 .. 6 -> Send("ch", s.at, Inc(s))
         [] s.at = 7 -> Close({"ch"}, Inc(s))
         [] s.at = 8 -> Wait(Inc(s))
         [] OTHER -> Stop

ChannelWithGoroutine(g, s) ==
  IF g = "main"
  THEN CASE s.at = 0 -> GoAll({"g1", "g2", "g3", "g4"}, Inc(s))
         [] s.at = 1 -> Receive("ch", Inc(s))
         [] OTHER -> Stop
  ELSE IF s.at = 0 THEN Send("ch", 1, Inc(s)) ELSE Stop

ChannelRaceInSelect(g, s) ==
  CASE g = "main" -> CASE s.at = 0 -> GoAll({"g1", "g2", "g3"}, Inc(s))
                       [] s.at = 1 -> Wait(Inc(s))
                       [] s.at = 2 -> Close({"done"}, Inc(s))
                       [] OTHER -> Stop
    [] g = "g3" -> CASE s.at < Many -> Select({RcvCase("ch1", Inc(s)), RcvCase("ch2", Inc(s))})
                     [] s.at = Many -> Done(Inc(s))
                     [] OTHER -> Stop
    [] OTHER -> IF s.at = 1 THEN Stop
                ELSE Select({RcvCase("done", Inc(s)),
                             SndCase(IF g = "g1" THEN "ch1" ELSE "ch2", 1, s)})

ChannelCloseInLoop(g, s) ==
  IF g = "main"
  THEN CASE s.at < 3 -> Send("ch", 1, Inc(s))
         [] s.at \in {3, 4} -> Close({"ch"}, Inc(s))
         [] s.at = 5 -> GoAll({"g1"}, Inc(s))
         [] OTHER -> Stop
  ELSE IF s.ok THEN Receive("ch", s) ELSE Stop

ChannelClose(g, s) ==
  IF g = "main"
  THEN CASE s.at < 3 -> Send("ch", 1, Inc(s))
         [] s.at = 3 -> Close({"ch"}, Inc(s))
         [] s.at = 4 -> GoAll({"g1"}, Inc(s))
         [] OTHER -> Stop
  ELSE IF s.ok THEN Receive("ch", s) ELSE Stop

-----------------------------------------------------------------------------
(* context_test.go and contextwithcancel_test.go.  The channel of a        *)
(* context is its Done().                                                  *)

BlockingFnABreak(s) == SelectDefault({RcvCase("done", s), RcvCase("printCh", s)}, s)

BlockingFnA(s) ==
  IF s.at = 1 THEN Stop
  ELSE SelectDefault({RcvCase("done", Inc(s)), RcvCase("printCh", s)}, s)

CancelContext(gs, g, s) ==
  IF g # "main" THEN BlockingFnA(s)
  ELSE CASE s.at = 0 -> GoAll(gs, Inc(s))
         [] s.at \in 1 .. 3 -> Send("printCh", s.at, Inc(s))
         [] s.at = 4 -> Close({"done"}, Inc(s))
         [] OTHER -> Stop

TimeoutPlainSend(g, s) == CancelContext({"g1"}, g, s)

\* "break" leaves the select and not the loop; the deferred cancel ends the test.
TimeoutContext(g, s) ==
  IF g # "main" THEN BlockingFnA(s)
  ELSE CASE s.at = 0 -> GoAll({"g1"}, Inc(s))
         [] s.at \in 1 .. 3 -> Select({SndCase("printCh", s.at, Inc(s)), RcvCase("done", Inc(s))})
         [] s.at = 4 -> Close({"done"}, Inc(s))
         [] OTHER -> Stop

BlockingFnD(s) == SelectDefault({RcvCase("parent", s), RcvCase("child", s)}, s)

CancelContextCancelParent(g, s) ==
  IF g # "main" THEN BlockingFnD(s)
  ELSE CASE s.at = 0 -> GoAll({"g1"}, Inc(s))
         [] s.at = 1 -> Close({"parent", "child"}, Inc(s))
         [] s.at = 2 -> Close({"child"}, Inc(s))
         [] s.at = 3 -> Close({"parent", "child"}, Inc(s))
         [] OTHER -> Stop

CancelContextCancelChild(g, s) ==
  IF g # "main" THEN BlockingFnD(s)
  ELSE CASE s.at = 0 -> GoAll({"g1"}, Inc(s))
         [] s.at \in {1, 2} -> Close({"child"}, Inc(s))
         [] s.at = 3 -> Close({"parent", "child"}, Inc(s))
         [] OTHER -> Stop

DoRepeatedJob(g, s) ==
  IF g = "main"
  THEN CASE s.at = 0 -> GoAll({"g1"}, Inc(s))
         [] s.at = 1 -> Close({"done"}, Inc(s))
         [] OTHER -> Stop
  ELSE IF s.at = 1 THEN Stop ELSE SelectDefault({RcvCase("done", Inc(s))}, s)

DoBlockingJob(g, s) ==
  IF g = "main" THEN DoRepeatedJob(g, s)
  ELSE IF s.at > 0 THEN Stop ELSE SelectDefault({RcvCase("done", At(s, 1))}, At(s, 2))

-----------------------------------------------------------------------------
(* select_default_test.go.                                                 *)

ToBoth(g) == IF g = "g1" THEN "ch1" ELSE "ch2"

SelectWithDefault(g, s) ==
  IF g = "main"
  THEN CASE s.at = 0 -> GoAll({"g1", "g2"}, Inc(s))
         [] s.at = 1 -> SelectDefault({RcvCase("ch1", Inc(s)), RcvCase("ch2", Inc(s))}, Inc(s))
         [] OTHER -> Stop
  ELSE IF s.at = 0 THEN Send(ToBoth(g), 42, Inc(s)) ELSE Stop

SelectFor(g, s) ==
  IF g = "main"
  THEN CASE s.at = 0 -> GoAll({"g1", "g2"}, Inc(s))
         [] s.at \in 1 .. Many -> Select({RcvCase("ch1", Inc(s)), RcvCase("ch2", Inc(s))})
         [] OTHER -> Stop
  ELSE Send(ToBoth(g), 43, s)

\* The last number is odd: it is the last of ch1.
SelectRace(g, s) ==
  IF g = "main"
  THEN CASE s.at = 0 -> GoAll({"g1"}, Inc(s))
         [] s.at = 1 /\ s.v # Many - 1 -> SelectDefault({RcvCase("ch1", s), RcvCase("ch2", s)}, s)
         [] OTHER -> Stop
  ELSE IF s.at < Many THEN Send(IF s.at % 2 = 0 THEN "ch2" ELSE "ch1", s.at, Inc(s)) ELSE Stop

-----------------------------------------------------------------------------

Code(g) ==
  LET s == local[g] IN
  CASE sample = "ChannelSize" -> ChannelSize(g, s)
    [] sample = "ChannelPop" -> ChannelPop(g, s)
    [] sample = "ChannelPopForRange" -> ChannelPopForRange(g, s)
    [] sample = "ChannelForSelect" -> ChannelForSelect(g, s)
    [] sample = "ChannelRangeAndHidenSize" -> ChannelRangeAndHidenSize(g, s)
    [] sample = "ChannelWithGoroutine" -> ChannelWithGoroutine(g, s)
    [] sample = "ChannelRaceInSelect" -> ChannelRaceInSelect(g, s)
    [] sample = "ChannelClose" -> ChannelClose(g, s)
    [] sample = "CancelContext" -> CancelContext({"g1"}, g, s)
    [] sample = "CancelContextM" -> CancelContext({"g1", "g2", "g3"}, g, s)
    [] sample = "TimeoutContext" -> TimeoutContext(g, s)
    [] sample = "CancelContextCancelParent" -> CancelContextCancelParent(g, s)
    [] sample = "CancelContextCancelChild" -> CancelContextCancelChild(g, s)
    [] sample = "DoRepeatedJob" -> DoRepeatedJob(g, s)
    [] sample = "DoBlockingJob" -> DoBlockingJob(g, s)
    [] sample = "SelectDefault" -> SelectWithDefault(g, s)
    [] sample = "SelectFor" -> SelectFor(g, s)
    [] sample = "SelectRace" -> SelectRace(g, s)

\* The capacities that make(chan) is called with.
Cap(ch) ==
  CASE sample = "ChannelPopForRange" -> Buffered
    [] sample \in {"ChannelForSelect", "SelectRace"} -> Many
    [] sample \in {"ChannelRangeAndHidenSize", "ChannelWithGoroutine", "ChannelClose"} -> 3
    [] sample = "ChannelRaceInSelect" /\ ch # "done" -> 1
    [] OTHER -> 0

\* The samples in which main waits for a WaitGroup.
Waits == {"ChannelForSelect", "ChannelRangeAndHidenSize", "ChannelRaceInSelect"}

Init ==
  /\ sample \in Samples
  /\ local = [g \in Goroutines |-> [at |-> 0, v |-> -1, ok |-> TRUE]]
  /\ started = {"main"} /\ parked = {} /\ earlier = {}
  /\ buf = [ch \in Channels |-> <<>>] /\ closed = {}
  /\ wg = IF sample \in Waits THEN 1 ELSE 0
  /\ seen = [ch \in Channels |-> <<>>]

-----------------------------------------------------------------------------
(* Goroutines and channels.                                                *)

Ended(g)   == Code(g) = Stop
Panicked(g) == local[g].at = -2
Running(g) == g \in started /\ g \notin parked

Cases(g, dir, ch) == IF Code(g).op # "comm" THEN {}
                     ELSE {c \in Code(g).arg : c.dir = dir /\ c.ch = ch}

\* Who waits to send to or receive from ch; who came first is served first.
Waiting(dir, ch) == {g \in parked : Cases(g, dir, ch) # {}}
First(gs) == CHOOSE g \in gs : \A h \in gs \ {g} : <<g, h>> \in earlier
CaseOf(g, dir, ch) == CHOOSE c \in Cases(g, dir, ch) : TRUE

Ready(c) ==
  \/ c.ch \in closed
  \/ c.dir = "send" /\ (Len(buf[c.ch]) < Cap(c.ch) \/ Waiting("recv", c.ch) # {})
  \/ c.dir = "recv" /\ (buf[c.ch] # <<>> \/ Waiting("send", c.ch) # {})

Received(c, v) == [c.next EXCEPT !.v = v, !.ok = TRUE]
ReadClosed(c)  == [c.next EXCEPT !.v = 0, !.ok = FALSE]
Note(ch, v)    == seen' = [seen EXCEPT ![ch] = Append(@, v)]
Unpark(gs) ==
  /\ parked' = parked \ gs
  /\ earlier' = {p \in earlier : p[1] \notin gs /\ p[2] \notin gs}

SendToBuffer(g, c) ==
  /\ Waiting("recv", c.ch) = {} /\ Len(buf[c.ch]) < Cap(c.ch)
  /\ buf' = [buf EXCEPT ![c.ch] = Append(@, c.v)]
  /\ local' = [local EXCEPT ![g] = c.next]
  /\ UNCHANGED <<parked, earlier, seen>>

SendToReceiver(g, c) ==
  LET r == First(Waiting("recv", c.ch)) IN
  /\ Waiting("recv", c.ch) # {}
  /\ local' = [local EXCEPT ![g] = c.next, ![r] = Received(CaseOf(r, "recv", c.ch), c.v)]
  /\ Unpark({r}) /\ Note(c.ch, c.v) /\ UNCHANGED buf

DoSend(g, c) ==
  IF c.ch \in closed
  THEN local' = [local EXCEPT ![g].at = -2] /\ UNCHANGED <<buf, parked, earlier, seen>>
  ELSE SendToBuffer(g, c) \/ SendToReceiver(g, c)

ReceiveClosed(g, c) ==
  /\ c.ch \in closed /\ buf[c.ch] = <<>> /\ Waiting("send", c.ch) = {}
  /\ local' = [local EXCEPT ![g] = ReadClosed(c)]
  /\ UNCHANGED <<buf, parked, earlier, seen>>

ReceiveFromBuffer(g, c) ==
  /\ buf[c.ch] # <<>> /\ Waiting("send", c.ch) = {}
  /\ local' = [local EXCEPT ![g] = Received(c, Head(buf[c.ch]))]
  /\ buf' = [buf EXCEPT ![c.ch] = Tail(@)] /\ Note(c.ch, Head(buf[c.ch]))
  /\ UNCHANGED <<parked, earlier>>

\* A sender that waits for room is released: its value goes into the buffer, or to
\* the receiver if there is no buffer.
ReceiveFromSender(g, c) ==
  LET s == First(Waiting("send", c.ch))
      sent == CaseOf(s, "send", c.ch)
      supply == Append(buf[c.ch], sent.v)
  IN
  /\ Waiting("send", c.ch) # {}
  /\ local' = [local EXCEPT ![g] = Received(c, Head(supply)), ![s] = sent.next]
  /\ buf' = [buf EXCEPT ![c.ch] = Tail(supply)] /\ Note(c.ch, Head(supply))
  /\ Unpark({s})

DoReceive(g, c) == ReceiveClosed(g, c) \/ ReceiveFromBuffer(g, c) \/ ReceiveFromSender(g, c)

\* Of several cases that are ready any one is taken; the default only if none is.
Communicate(g) ==
  /\ Code(g).op = "comm"
  /\ \E c \in Code(g).arg : IF c.dir = "send" THEN DoSend(g, c) ELSE DoReceive(g, c)
  /\ UNCHANGED <<started, closed, wg>>

NoneReady(g) == Code(g).op = "comm" /\ \A c \in Code(g).arg : ~Ready(c)

TakeDefault(g) ==
  /\ NoneReady(g) /\ Code(g).next # Block
  /\ local' = [local EXCEPT ![g] = Code(g).next]
  /\ UNCHANGED <<started, parked, earlier, buf, closed, wg, seen>>

Park(g) ==
  /\ NoneReady(g) /\ Code(g).next = Block
  /\ parked' = parked \cup {g} /\ earlier' = earlier \cup (parked \X {g})
  /\ UNCHANGED <<local, started, buf, closed, wg, seen>>

\* Everyone who waits to receive from one of the channels is released.
Woken(chs) == {g \in parked : \E ch \in chs : Cases(g, "recv", ch) # {}}
AfterClose(chs) ==
  [g \in Goroutines |->
     IF g \in Woken(chs)
     THEN LET ch == CHOOSE x \in chs : Cases(g, "recv", x) # {} IN ReadClosed(CaseOf(g, "recv", ch))
     ELSE local[g]]
CloseAll(chs) ==
  /\ closed' = closed \cup chs
  /\ Unpark(Woken(chs \ closed))

\* A context may be cancelled again; a second close of another channel panics.
CloseChannels(g) ==
  /\ Code(g).op = "close"
  /\ IF Code(g).arg \cap closed \subseteq Contexts
     THEN /\ CloseAll(Code(g).arg)
          /\ local' = [AfterClose(Code(g).arg \ closed) EXCEPT ![g] = Code(g).next]
     ELSE local' = [local EXCEPT ![g].at = -2] /\ UNCHANGED <<closed, parked, earlier>>
  /\ UNCHANGED <<started, buf, wg, seen>>

Start(g) ==
  /\ Code(g).op = "go" /\ started' = started \cup Code(g).arg
  /\ local' = [local EXCEPT ![g] = Code(g).next]
  /\ UNCHANGED <<parked, earlier, buf, closed, wg, seen>>

WaitGroupOp(g) ==
  /\ \/ Code(g).op = "wait" /\ wg = 0 /\ UNCHANGED wg
     \/ Code(g).op = "wgDone" /\ wg' = wg - 1
  /\ local' = [local EXCEPT ![g] = Code(g).next]
  /\ UNCHANGED <<started, parked, earlier, buf, closed, seen>>

Run(g) ==
  /\ Running(g) /\ ~Panicked(g)
  /\ \/ Communicate(g) \/ TakeDefault(g) \/ Park(g) \/ CloseChannels(g) \/ Start(g) \/ WaitGroupOp(g)
  /\ UNCHANGED sample

\* The time of TimeoutContext's context is up, at any moment.
Expire ==
  /\ sample = "TimeoutContext" /\ "done" \notin closed
  /\ CloseAll({"done"}) /\ local' = AfterClose({"done"})
  /\ UNCHANGED <<sample, started, buf, wg, seen>>

Next == Expire \/ \E g \in Goroutines : Run(g)

\* Every goroutine that can run does, and time passes.
Spec == Init /\ [][Next]_vars /\ WF_vars(Expire) /\ \A g \in Goroutines : WF_vars(Run(g))

-----------------------------------------------------------------------------
(* Properties.                                                             *)

\* A buffer is never over its capacity, no one is parked who could go on, and
\* nobody sends while someone waits to receive what is in the buffer.
TypeOK ==
  /\ \A ch \in Channels : Len(buf[ch]) <= Cap(ch) /\ (buf[ch] # <<>> => Waiting("recv", ch) = {})
  /\ parked \subseteq started
  /\ \A g \in parked : NoneReady(g) /\ Code(g).next = Block
  /\ wg \in {0, 1}

\* Nobody sends to a channel that was closed (the closers are the senders), and none is
\* closed again, but for the contexts.
NoPanic == \A g \in Goroutines : ~Panicked(g)

Odd(n)  == [i \in 1 .. n |-> 2 * i - 1]
Even(n) == [i \in 1 .. n |-> 2 * (i - 1)]
UpTo(n) == [i \in 1 .. n |-> i - 1]

\* When the test function returns, what it was to see has arrived, complete and in
\* order: in particular the reader behind the WaitGroup has read all of it, and
\* SelectRace, which leaves the loop by the last odd number, may have missed some
\* of the even ones but nothing of ch1.
TestSawAll ==
  Ended("main") =>
    CASE sample = "ChannelPop" -> seen["ch"] = UpTo(2)
      [] sample = "ChannelPopForRange" -> seen["ch1"] = UpTo(Many)
      [] sample = "ChannelForSelect" -> seen["ch1"] = UpTo(4)
      [] sample = "ChannelRangeAndHidenSize" -> seen["ch"] = [i \in 1 .. 6 |-> i]
      [] sample \in {"CancelContext", "CancelContextM"} -> seen["printCh"] = <<1, 2, 3>>
      [] sample = "SelectRace" -> /\ seen["ch1"] = Odd(Many \div 2)
                                  /\ IsPrefix(seen["ch2"], Even(Many \div 2))
      [] OTHER -> TRUE

\* Once the context is done nothing is printed any more, although the loop goes on
\* after "break" and its select could still choose to send: the worker looks into
\* the channel only in passing, and the sender is never parked again
\* (context_test.go:92-100).
NothingAfterDone ==
  [][sample = "TimeoutContext" /\ "done" \in closed => seen'["printCh"] = seen["printCh"]]_vars

\* The test function returns.
TestReturns == <>Ended("main")

\* The goroutines end as well, but for the samples that leave some behind: those
\* whose senders have no receiver, and BlockingFnD, which polls for ever what is
\* done already.
Leaves == {"SelectDefault", "SelectFor", "CancelContextCancelParent", "CancelContextCancelChild"}
GoroutinesEnd ==
  sample \notin Leaves => <>(\A g \in started : Ended(g))

\* The channels are used as Go wants it: buffers, wait queues and closes.
ChannelsOK == TypeOK /\ NoPanic

\* The test function returns, and its goroutines end.
EverythingEnds == TestReturns /\ GoroutinesEnd
=============================================================================
