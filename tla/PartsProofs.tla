----------------------------- MODULE PartsProofs -----------------------------
(***************************************************************************)
(* The small protocols of the composition MCParts, each for any number of  *)
(* callers, processes and signals: open_tcp_port, pidof and runbg.sh; the  *)
(* lines CmdStdoutPipe reads from any output through a pipe and a buffer   *)
(* of any size; the task lists of CompletableFutureTests for any number of *)
(* workers; and the record that parse makes of a text of any length.       *)
(***************************************************************************)
EXTENDS LibraryProofs, Firewall, Pidof, RunBg, CmdPipe, TaskQueue

(* open_tcp_port.                                                          *)

FirewallType ==
  /\ rules \in Nat /\ opens \in Int /\ faults \in Nat /\ raced \in BOOLEAN
  /\ iptables \in {"found", "null", "garbage"}
  /\ opening \in [Callers -> Commands \cup {"out"}]
  /\ status \in [Callers -> {Nothing, "0", "1", "killed"}]
  /\ opened \in [Callers -> {Nothing, "TRUE", "FALSE"}]
  /\ copied \subseteq Callers

\* The callers that add the rule next: they found none, or their check failed.
Adders == {c \in Callers : \/ opening[c] = "-A" /\ status[c] = Nothing
                           \/ opening[c] = "-C" /\ status[c] = "1"}

\* Only a call under way has a child, and a status 0 is that of a command that found
\* the rule or added it.
StatusInv ==
  \A c \in Callers :
    /\ status[c] # Nothing => opening[c] # "out"
    /\ status[c] = "0" => rules > 0 \/ c \in copied

\* What is added, and what is about to be, was paid for by a fault, or by a
\* caller that found no rule at a time when there was none.
RulesInv ==
  /\ rules + Cardinality(Adders) <= Cardinality(Callers) + faults
  /\ ~raced => /\ \A c, d \in Callers : opening[c] # "out" /\ opening[d] # "out" => c = d
               /\ rules + Cardinality(Adders) <= 1 + faults

FirewallInv == FirewallType /\ StatusInv /\ TrueMeansOpen /\ RulesInv

LEMMA AtMostOne ==
  ASSUME NEW S, \A c, d \in S : c = d
  PROVE  IsFiniteSet(S) /\ Cardinality(S) <= 1
<1>1. CASE S = {}
  BY <1>1, FS_EmptySet
<1>2. CASE S # {}
  <2>1. PICK c : S = {c}
    BY <1>2
  <2>2. IsFiniteSet({c}) /\ Cardinality({c}) = 1
    BY FS_Singleton, Zenon
  <2> QED BY <2>1, <2>2
<1> QED BY <1>1, <1>2

LEMMA AddersBound ==
  /\ IsFiniteSet(Adders) /\ Cardinality(Adders) \in Nat
  /\ Cardinality(Callers) \in Nat /\ Cardinality(Adders) <= Cardinality(Callers)
<1>1. IsFiniteSet(Adders) /\ Cardinality(Adders) <= Cardinality(Callers)
  BY CallersAssumption, FS_Subset DEF Adders
<1> QED BY <1>1, CallersAssumption, FS_CardinalityType

LEMMA FirewallInitInv == FirewallInit => FirewallInv
<1> SUFFICES ASSUME FirewallInit PROVE FirewallInv
  OBVIOUS
<1>1. FirewallType
  <2>1. /\ opening \in [Callers -> Commands \cup {"out"}]
        /\ status \in [Callers -> {Nothing, "0", "1", "killed"}]
        /\ opened \in [Callers -> {Nothing, "TRUE", "FALSE"}]
    BY DEF FirewallInit
  <2>2. rules \in Nat /\ opens \in Int /\ faults \in Nat
    BY DEF FirewallInit
  <2>3. raced \in BOOLEAN /\ iptables \in {"found", "null", "garbage"} /\ copied \subseteq Callers
    BY Zenon DEF FirewallInit
  <2> QED BY <2>1, <2>2, <2>3 DEF FirewallType
<1>5. StatusInv /\ TrueMeansOpen
  BY DEF FirewallInit, StatusInv, TrueMeansOpen, Nothing
<1>2. Adders = {}
  BY DEF FirewallInit, Adders, Nothing
<1>3. Cardinality(Adders) = 0
  BY <1>2, FS_EmptySet
<1>4. RulesInv
  BY <1>3, AddersBound DEF FirewallInit, RulesInv
<1> QED BY <1>1, <1>4, <1>5 DEF FirewallInv

\* A step of a caller that makes no adder of it leaves the bound.
LEMMA FewerAdders ==
  ASSUME FirewallInv, Adders' \subseteq Adders
  PROVE  Cardinality(Adders') <= Cardinality(Adders) /\ Cardinality(Adders') \in Nat
<1>1. IsFiniteSet(Adders) /\ Adders' \in SUBSET Adders
  BY AddersBound
<1>2. IsFiniteSet(Adders') /\ Cardinality(Adders') <= Cardinality(Adders)
  BY <1>1, FS_Subset
<1> QED BY <1>2, FS_CardinalityType

LEMMA OneMoreAdder ==
  ASSUME FirewallInv, NEW c, Adders' \subseteq Adders \cup {c}
  PROVE  Cardinality(Adders') <= Cardinality(Adders) + 1 /\ Cardinality(Adders') \in Nat
<1>1. IsFiniteSet(Adders) /\ Cardinality(Adders) \in Nat
  BY AddersBound
<1>2. /\ IsFiniteSet(Adders \cup {c})
      /\ Cardinality(Adders \cup {c}) = IF c \in Adders THEN Cardinality(Adders)
                                                      ELSE Cardinality(Adders) + 1
  BY <1>1, FS_AddElement
<1>3. IsFiniteSet(Adders') /\ Cardinality(Adders') <= Cardinality(Adders \cup {c})
  BY <1>2, FS_Subset
<1> QED BY <1>1, <1>2, <1>3, FS_CardinalityType

LEMMA OneAdderLess ==
  ASSUME FirewallInv, NEW c \in Adders, Adders' \subseteq Adders \ {c}
  PROVE  Cardinality(Adders') + 1 <= Cardinality(Adders) /\ Cardinality(Adders') \in Nat
<1>1. IsFiniteSet(Adders) /\ Cardinality(Adders) \in Nat
  BY AddersBound
<1>2. IsFiniteSet(Adders \ {c}) /\ Cardinality(Adders \ {c}) = Cardinality(Adders) - 1
  BY <1>1, FS_RemoveElement
<1>3. IsFiniteSet(Adders') /\ Cardinality(Adders') <= Cardinality(Adders \ {c})
  BY <1>2, FS_Subset
<1> QED BY <1>1, <1>2, <1>3, FS_CardinalityType

\* Between two calls, or with the same calls under way, the bound stays if what is
\* there and about to be added does not grow by more than the faults do.
LEMMA BoundKept ==
  ASSUME FirewallInv, rules' \in Nat, faults' \in Nat, Cardinality(Adders') \in Nat,
         rules' + Cardinality(Adders') - faults' <= rules + Cardinality(Adders) - faults,
         \A c \in Callers : opening'[c] # "out" => opening[c] # "out",
         raced' = raced
  PROVE  RulesInv'
<1>1. Cardinality(Adders) \in Nat /\ Cardinality(Callers) \in Nat
  BY AddersBound
<1> QED BY <1>1 DEF FirewallInv, FirewallType, RulesInv

LEMMA OpenStep ==
  ASSUME FirewallInv, NEW c \in Callers, Open(c)
  PROVE  FirewallInv'
<1> USE DEF FirewallInv
<1>0. /\ opening[c] = "out" /\ opens' = opens + 1 /\ copied' = copied \ {c}
      /\ raced' = (raced \/ \E d \in Callers \ {c} : opening[d] # "out")
      /\ UNCHANGED <<rules, iptables, status, faults>>
      /\ opening' \in {opening, [opening EXCEPT ![c] = "-C"]}
      /\ opened' \in {[opened EXCEPT ![c] = "FALSE"], [opened EXCEPT ![c] = Nothing]}
  BY DEF Open
<1>1. FirewallType'
  BY <1>0 DEF FirewallType, Commands, Nothing
<1>2. status[c] = Nothing
  BY <1>0 DEF StatusInv, FirewallType
<1>3. StatusInv'
  BY <1>0, <1>2 DEF StatusInv, FirewallType, Nothing
<1>4. TrueMeansOpen'
  BY <1>0 DEF TrueMeansOpen, FirewallType, Nothing
<1>5. Adders' \subseteq Adders
  BY <1>0, <1>2 DEF Adders, FirewallType, Nothing
<1>6. RulesInv'
  <2>1. Cardinality(Adders') <= Cardinality(Adders) /\ Cardinality(Adders') \in Nat
    BY <1>5, FewerAdders
  <2>2. Cardinality(Adders) \in Nat /\ Cardinality(Callers) \in Nat
    BY AddersBound
  <2>3. ~raced' => \A d, e \in Callers : opening'[d] # "out" /\ opening'[e] # "out" => d = e
    <3>1. ~raced' => \A d \in Callers \ {c} : opening[d] = "out"
      BY <1>0, Zenon
    <3>2. \A d \in Callers \ {c} : opening'[d] = opening[d]
      BY <1>0 DEF FirewallType
    <3> QED BY <3>1, <3>2
  <2>4. ~raced' => ~raced
    BY <1>0, Zenon
  <2> QED BY <1>0, <2>1, <2>2, <2>3, <2>4 DEF RulesInv, FirewallType
<1> QED BY <1>1, <1>3, <1>4, <1>6

\* A call that ends without adding anything.
LEMMA ReturnStep ==
  ASSUME FirewallInv, NEW c \in Callers, NEW answer \in {"TRUE", "FALSE"}, Return(c, answer),
         answer = "TRUE" => rules > 0 \/ c \in copied,
         status' \in {status, [status EXCEPT ![c] = Nothing]},
         status'[c] = Nothing, faults' \in {faults, faults + 1},
         UNCHANGED <<rules, iptables, opens, copied, raced>>
  PROVE  FirewallInv'
<1> USE DEF FirewallInv
<1>0. /\ opening' = [opening EXCEPT ![c] = "out"] /\ opened' = [opened EXCEPT ![c] = answer]
  BY DEF Return
<1>1. FirewallType'
  BY <1>0 DEF FirewallType, Nothing
<1>2. StatusInv'
  BY <1>0 DEF StatusInv, FirewallType, Nothing
<1>3. TrueMeansOpen'
  BY <1>0 DEF TrueMeansOpen, FirewallType
<1>4. Adders' \subseteq Adders
  BY <1>0 DEF Adders, FirewallType
<1>5. RulesInv'
  <2>1. Cardinality(Adders') <= Cardinality(Adders) /\ Cardinality(Adders') \in Nat
    BY <1>4, FewerAdders
  <2>2. Cardinality(Adders) \in Nat
    BY AddersBound
  <2> QED BY <1>0, <1>1, <2>1, <2>2, BoundKept DEF FirewallType
<1> QED BY <1>1, <1>2, <1>3, <1>5

LEMMA CheckRuleStep ==
  ASSUME FirewallInv, NEW c \in Callers, CheckRule(c)
  PROVE  FirewallInv'
<1> USE DEF FirewallInv
<1>0. /\ opening[c] = "-C" /\ status[c] = Nothing
      /\ UNCHANGED <<rules, iptables, opening, opened, opens, copied, raced>>
  BY DEF CheckRule
<1>1. PICK how \in {"0", "1", "killed"} :
        /\ status' = [status EXCEPT ![c] = how]
        /\ how = "0" => rules > 0
        /\ \/ faults' = faults /\ (how = "1" => rules = 0)
           \/ faults' = faults + 1
  BY DEF CheckRule, Ends, Fault, FirewallType
<1>2. FirewallType'
  BY <1>0, <1>1 DEF FirewallType
<1>3. StatusInv'
  BY <1>0, <1>1 DEF StatusInv, FirewallType
<1>4. TrueMeansOpen'
  BY <1>0 DEF TrueMeansOpen
<1>5. Adders' \subseteq Adders \cup {c} /\ (how # "1" => Adders' \subseteq Adders)
  BY <1>0, <1>1 DEF Adders, FirewallType, Nothing
<1>6. RulesInv'
  <2>0. Cardinality(Adders) \in Nat /\ Cardinality(Callers) \in Nat
    BY AddersBound
  <2>1. CASE faults' = faults + 1
    <3>1. Cardinality(Adders') <= Cardinality(Adders) + 1 /\ Cardinality(Adders') \in Nat
      BY <1>5, OneMoreAdder
    <3> QED BY <1>0, <1>2, <2>0, <2>1, <3>1, BoundKept DEF FirewallType
  <2>2. CASE faults' = faults /\ how # "1"
    <3>1. Cardinality(Adders') <= Cardinality(Adders) /\ Cardinality(Adders') \in Nat
      BY <1>5, <2>2, FewerAdders
    <3> QED BY <1>0, <1>2, <2>0, <2>2, <3>1, BoundKept DEF FirewallType
  <2>3. CASE faults' = faults /\ how = "1"
    <3>1. rules = 0 /\ rules' = 0
      BY <1>0, <1>1, <2>3 DEF FirewallType
    <3>2. Adders' \subseteq Callers /\ (~raced => \A d, e \in Adders' : d = e)
      BY <1>0, <1>1 DEF Adders, RulesInv, Nothing, FirewallType
    <3>3. IsFiniteSet(Adders') /\ Cardinality(Adders') <= Cardinality(Callers)
      BY <3>2, CallersAssumption, FS_Subset
    <3>4. Cardinality(Adders') \in Nat
      BY <3>3, FS_CardinalityType
    <3>5. ~raced => Cardinality(Adders') <= 1
      BY <3>2, <3>3, AtMostOne
    <3> QED BY <1>0, <1>2, <2>0, <3>1, <3>3, <3>4, <3>5 DEF RulesInv, FirewallType
  <2> QED BY <1>1, <2>1, <2>2, <2>3
<1> QED BY <1>2, <1>3, <1>4, <1>6

LEMMA AddStep ==
  ASSUME FirewallInv, NEW c \in Callers, Add(c)
  PROVE  FirewallInv'
<1> USE DEF FirewallInv
<1>0. /\ opening[c] = "-A" /\ status[c] = Nothing
      /\ UNCHANGED <<iptables, opening, opened, opens, copied, raced>>
  BY DEF Add
<1>1. PICK how \in {"0", "1", "killed"} :
        /\ status' = [status EXCEPT ![c] = how]
        /\ rules' \in {rules, rules + 1} /\ faults' \in {faults, faults + 1}
        /\ how = "0" => rules' = rules + 1
  BY DEF Add, Ends, Fault
<1>2. FirewallType'
  BY <1>0, <1>1 DEF FirewallType
<1>3. StatusInv'
  BY <1>0, <1>1 DEF StatusInv, FirewallType
<1>4. TrueMeansOpen'
  BY <1>0, <1>1 DEF TrueMeansOpen, FirewallType
<1>5. c \in Adders /\ Adders' \subseteq Adders \ {c}
  BY <1>0, <1>1 DEF Adders, FirewallType, Nothing
<1>6. RulesInv'
  <2>1. Cardinality(Adders') + 1 <= Cardinality(Adders) /\ Cardinality(Adders') \in Nat
    BY <1>5, OneAdderLess
  <2>2. Cardinality(Adders) \in Nat
    BY AddersBound
  <2> QED BY <1>0, <1>1, <1>2, <2>1, <2>2, BoundKept DEF FirewallType
<1> QED BY <1>2, <1>3, <1>4, <1>6

LEMMA CopyStep ==
  ASSUME FirewallInv, NEW c \in Callers, Copy(c)
  PROVE  FirewallInv'
<1> USE DEF FirewallInv
<1>0. /\ opening[c] \in Commands /\ status[c] = Nothing
      /\ faults' = faults + 1 /\ copied' = copied \cup {c}
      /\ UNCHANGED <<rules, iptables, opening, opened, opens, raced>>
  BY DEF Copy, Fault
<1>1. PICK how \in {"0", "1", "killed"} : status' = [status EXCEPT ![c] = how]
  BY Zenon DEF Copy, Ends
<1>2. FirewallType'
  BY <1>0, <1>1 DEF FirewallType
<1>3. StatusInv'
  BY <1>0, <1>1 DEF StatusInv, FirewallType, Commands
<1>4. TrueMeansOpen'
  BY <1>0 DEF TrueMeansOpen
<1>5. Adders' \subseteq Adders \cup {c}
  BY <1>0, <1>1 DEF Adders, FirewallType
<1>6. RulesInv'
  <2>1. Cardinality(Adders') <= Cardinality(Adders) + 1 /\ Cardinality(Adders') \in Nat
    BY <1>5, OneMoreAdder
  <2>2. Cardinality(Adders) \in Nat
    BY AddersBound
  <2> QED BY <1>0, <1>2, <2>1, <2>2, BoundKept DEF FirewallType
<1> QED BY <1>2, <1>3, <1>4, <1>6

LEMMA WaitStep ==
  ASSUME FirewallInv, NEW c \in Callers, Wait(c)
  PROVE  FirewallInv'
<1> USE DEF FirewallInv
<1>0. /\ status[c] # Nothing /\ status' = [status EXCEPT ![c] = Nothing]
      /\ UNCHANGED <<rules, iptables, opens, faults, copied, raced>>
  BY DEF Wait, Ends
<1>1. CASE opening[c] = "-C" /\ status[c] = "1"
  <2>0. opening' = [opening EXCEPT ![c] = "-A"] /\ UNCHANGED opened
    BY <1>1 DEF Wait, AfterWait
  <2>1. FirewallType'
    BY <1>0, <2>0 DEF FirewallType, Commands
  <2>2. StatusInv' /\ TrueMeansOpen'
    BY <1>0, <2>0 DEF StatusInv, TrueMeansOpen, FirewallType, Nothing
  <2>3. Adders' \subseteq Adders
    BY <1>0, <1>1, <2>0 DEF Adders, FirewallType
  <2>4. RulesInv'
    <3>1. Cardinality(Adders') <= Cardinality(Adders) /\ Cardinality(Adders') \in Nat
      BY <2>3, FewerAdders
    <3>2. Cardinality(Adders) \in Nat
      BY AddersBound
    <3> QED BY <1>0, <1>1, <2>0, <2>1, <3>1, <3>2, BoundKept DEF FirewallType
  <2> QED BY <2>1, <2>2, <2>4
<1>2. CASE ~ (opening[c] = "-C" /\ status[c] = "1")
  <2>1. Return(c, IF status[c] = "0" THEN "TRUE" ELSE "FALSE")
    BY <1>2 DEF Wait, AfterWait
  <2>2. status'[c] = Nothing
    BY <1>0 DEF FirewallType
  <2>3. status[c] = "0" => rules > 0 \/ c \in copied
    BY DEF StatusInv
  <2> QED BY <1>0, <2>1, <2>2, <2>3, ReturnStep, Zenon
<1> QED BY <1>1, <1>2

LEMMA ExecuteThrowsStep ==
  ASSUME FirewallInv, NEW c \in Callers, ExecuteThrows(c)
  PROVE  FirewallInv'
<1>1. /\ status[c] = Nothing /\ Return(c, "FALSE") /\ faults' \in {faults, faults + 1}
      /\ UNCHANGED <<rules, iptables, status, opens, copied, raced>>
  BY DEF ExecuteThrows, Fault
<1> QED BY <1>1, ReturnStep

LEMMA FirewallNextInv == FirewallInv /\ [FirewallNext]_FirewallVars => FirewallInv'
<1> SUFFICES ASSUME FirewallInv, [FirewallNext]_FirewallVars PROVE FirewallInv'
  OBVIOUS
<1>1. CASE FirewallNext
  BY <1>1, OpenStep, ExecuteThrowsStep, CheckRuleStep, AddStep, CopyStep, WaitStep DEF FirewallNext
<1>2. CASE UNCHANGED FirewallVars
  <2>1. Adders' = Adders
    BY <1>2 DEF Adders, FirewallVars
  <2> QED BY <1>2, <2>1 DEF FirewallVars, FirewallInv, FirewallType, StatusInv, TrueMeansOpen, RulesInv
<1> QED BY <1>1, <1>2

LEMMA FirewallSpecInv == FirewallSpec => []FirewallInv
  BY FirewallInitInv, FirewallNextInv, PTL DEF FirewallSpec

\* A TRUE means that the port is open, and calls that do not overlap add one rule at
\* most besides those of failed commands (firewall.cc:22-37).
THEOREM PortOpenOnceTheorem == FirewallSpec => []PortOpenOnce
<1>1. FirewallInv => PortOpenOnce
  <2> SUFFICES ASSUME FirewallInv PROVE PortOpenOnce
    OBVIOUS
  <2>1. Cardinality(Adders) \in Nat /\ Cardinality(Callers) \in Nat
    BY AddersBound
  <2> QED BY <2>1 DEF FirewallInv, FirewallType, RulesInv, PortOpenOnce, NoDuplicate
<1> QED BY <1>1, FirewallSpecInv, PTL

-----------------------------------------------------------------------------
(* pidof.                                                                  *)

\* A set of natural numbers that is not empty has a smallest element.
LEMMA MinIsLeast ==
  ASSUME NEW S \in SUBSET Nat, S # {}
  PROVE  Min(S) \in S /\ \A n \in S : Min(S) <= n
<1> DEFINE R == OpToRel(<, Nat)
<1>1. IsWellFoundedOn(R, Nat)
  BY NatLessThanWellFounded, Zenon
<1>2. \A m, n \in Nat : m < n => <<m, n>> \in R
  BY DEF OpToRel
<1> HIDE DEF R
<1>3. PICK x \in S : \A n \in S : ~ (<<n, x>> \in R)
  BY <1>1, WFMin, Zenon
<1>4. \A n \in S : n \in Nat /\ x \in Nat /\ ~ (n < x)
  BY <1>2, <1>3, Zenon
<1>5. \A n \in S : x <= n
  BY <1>4
<1> QED BY <1>5, Zenon DEF Min

PidofType ==
  /\ table \in [Pids -> Programs \cup {NoProgram}] /\ zombies \subseteq Pids
  /\ cursor \in Nat /\ to_examine \subseteq Pids /\ pids \subseteq Pids
  /\ reader \in {"idle", "list", "examine", "readlink", "returned", "thrown"}
  /\ reader # "idle" => query.fn \in Functions4
  /\ vanished \in BOOLEAN

\* A zombie is in the table, and no process that stayed is one.
TableInv ==
  /\ \A p \in zombies : ~Gone(p)
  /\ stayed \subseteq Pids /\ \A p \in stayed : ~Gone(p) /\ p \notin zombies
  /\ reader # "idle" => \A p \in Pids :
       ~Gone(p) => <<p, table[p]>> \in IF p \in zombies THEN ran \cup unreaped ELSE ran

Answers(p) == /\ Shows(table[p], query.fn) = query.name
              /\ query.fn = "pidofexe" => ~table[p].denied

\* Every process that stayed and answers was found, or is still to be listed or
\* examined.
StayedInv ==
  /\ reader = "idle" => cursor = 0
  /\ reader = "list" => \A p \in stayed : p > cursor \/ p \in to_examine
  /\ reader \in {"examine", "readlink", "returned"} =>
       \A p \in stayed : Answers(p) => p \in to_examine \cup pids
  /\ reader = "returned" => to_examine = {}

FoundInv ==
  /\ reader \in {"idle", "list"} => pids = {}
  /\ query.name \notin {"", "."} =>
       \A p \in pids : \E r \in MayBeFound : r[1] = p /\ Shows(r[2], query.fn) = query.name

\* A process that is to be examined was there when it was listed.
VanishedInv ==
  /\ reader = "idle" => to_examine = {}
  /\ (\E p \in to_examine : Gone(p)) => vanished
  /\ reader = "readlink" => query.fn = "pidofexe"
  /\ reader = "thrown" => query.fn = "pidofexe" /\ vanished

PidofInv == PidofType /\ TableInv /\ StayedInv /\ FoundInv /\ VanishedInv

LEMMA PidofInitInv == PidofInit => PidofInv
<1> SUFFICES ASSUME PidofInit PROVE PidofInv
  OBVIOUS
<1>1. PidofType
  <2>1. vanished \in BOOLEAN /\ reader = "idle" /\ table = AtStart
    BY Zenon DEF PidofInit
  <2> QED BY <2>1, AtStartAssumption DEF PidofInit, PidofType
<1>2. TableInv /\ StayedInv /\ FoundInv /\ VanishedInv
  BY DEF PidofInit, MayBeFound, TableInv, StayedInv, FoundInv, VanishedInv
<1> QED BY <1>1, <1>2 DEF PidofInv

\* What is read of a process that is there, and not a zombie, is what its program
\* shows; what is read of any other is empty, or the name of the empty path.
LEMMA AttributeShows ==
  ASSUME PidofType, NEW p \in Pids, NEW fn \in Functions4 \ {"pidofexe"}
  PROVE  /\ ~Gone(p) /\ p \notin zombies => Attribute(fn, p) = Shows(table[p], fn)
         /\ Attribute(fn, p) \notin {"", "."} =>
              ~Gone(p) /\ Attribute(fn, p) = Shows(table[p], fn) /\ (p \in zombies => fn = "pidof")
<1> USE FileAssumption, NoProgramAssumption DEF PidofType, Gone
<1>1. CASE fn = "pidof"
  BY <1>1, Zenon DEF Attribute, Shows, nameof
<1>2. CASE fn = "pidofcmd"
  BY <1>2, Zenon DEF Attribute, Shows, filenameof, cmdof
<1>3. CASE fn = "pidofcmd fullpath"
  BY <1>3, Zenon DEF Attribute, Shows, cmdof
<1> QED BY <1>1, <1>2, <1>3, Zenon DEF Functions4

LEMMA CallPidofStep ==
  ASSUME PidofInv, CallPidof
  PROVE  PidofInv'
<1> USE DEF PidofInv
<1>0. /\ reader = "idle" /\ reader' = "list"
      /\ stayed' = {p \in Pids : ~Gone(p) /\ p \notin zombies}
      /\ ran' = {<<p, table[p]>> : p \in stayed'}
      /\ unreaped' = {<<p, table[p]>> : p \in zombies}
      /\ UNCHANGED <<table, zombies, events, vanished, cursor, to_examine, pids>>
  BY Zenon DEF CallPidof
<1>1. query'.fn \in Functions4
  <2>1. PICK fn \in Functions4 : \E name : query' = [fn |-> fn, name |-> name]
    BY Zenon DEF CallPidof
  <2> QED BY <2>1
<1>2. PidofType'
  BY <1>0, <1>1 DEF PidofType
<1>3. TableInv'
  BY <1>0 DEF TableInv, Gone
<1>4. StayedInv'
  BY <1>0, MaxPidAssumption DEF StayedInv, Pids
<1> QED BY <1>0, <1>2, <1>3, <1>4, Zenon DEF MayBeFound, FoundInv, VanishedInv, Gone

LEMMA ListProcStep ==
  ASSUME PidofInv, proc_pids
  PROVE  PidofInv'
<1> USE DEF PidofInv
<1> DEFINE rest == {p \in Pids : p > cursor /\ ~Gone(p)}
<1>0. reader = "list" /\ UNCHANGED <<processes, query, pids>>
  BY DEF proc_pids
<1>1. CASE rest = {}
  <2>0. reader' = "examine" /\ UNCHANGED <<cursor, to_examine>>
    BY <1>1 DEF proc_pids
  <2>1. \A p \in stayed : p \in to_examine
    BY <1>0, <1>1 DEF StayedInv, TableInv
  <2>2. PidofType' /\ TableInv'
    BY <1>0, <2>0 DEF PidofType, TableInv, Gone, processes
  <2> QED BY <1>0, <2>0, <2>1, <2>2, Zenon DEF MayBeFound, StayedInv, FoundInv, VanishedInv, Gone, processes
<1>2. CASE rest # {}
  <2>0. cursor' = Min(rest) /\ to_examine' = to_examine \cup {Min(rest)} /\ UNCHANGED reader
    BY <1>2 DEF proc_pids
  <2>1. Min(rest) \in rest /\ \A p \in rest : Min(rest) <= p
    <3>1. rest \in SUBSET Nat
      BY MaxPidAssumption DEF Pids
    <3> HIDE DEF rest
    <3> QED BY <1>2, <3>1, MinIsLeast
  <2>2. Min(rest) \in Pids /\ Min(rest) \in Nat /\ ~Gone(Min(rest))
    BY <2>1, MaxPidAssumption DEF Pids
  <2>3. \A p \in stayed : p > cursor => p = Min(rest) \/ p > Min(rest)
    BY <2>1, <2>2, MaxPidAssumption DEF TableInv, Pids
  <2> HIDE DEF rest
  <2>4. PidofType' /\ TableInv'
    BY <1>0, <2>0, <2>2 DEF PidofType, TableInv, Gone, processes
  <2>5. StayedInv'
    BY <1>0, <2>0, <2>3 DEF StayedInv, processes
  <2>6. FoundInv' /\ VanishedInv'
    BY <1>0, <2>0, <2>2, Zenon DEF MayBeFound, FoundInv, VanishedInv, Gone, processes
  <2> QED BY <2>4, <2>5, <2>6
<1> QED BY <1>1, <1>2

\* One process is examined: found if it stayed and answers; and if it is found, it has
\* run what was asked for.
LEMMA ExaminedStep ==
  ASSUME PidofInv, reader \in {"examine", "readlink"}, UNCHANGED <<processes, query, cursor>>,
         NEW p \in to_examine, NEW found \in BOOLEAN, Examined(p, found),
         p \in stayed /\ Answers(p) => found,
         query.name \notin {"", "."} /\ found =>
           ~Gone(p) /\ Shows(table[p], query.fn) = query.name /\ (p \in zombies => query.fn = "pidof")
  PROVE  PidofInv'
<1> USE DEF PidofInv
<1>0. /\ pids' = IF found THEN pids \cup {p} ELSE pids
      /\ to_examine' = to_examine \ {p} /\ reader' = "examine"
  BY Zenon DEF Examined
<1>1. p \in Pids
  BY Zenon DEF PidofType
<1>2. PidofType'
  BY <1>0, <1>1, Zenon DEF PidofType, processes
<1>3. TableInv'
  BY <1>0, Zenon DEF TableInv, Gone, processes
<1>4. StayedInv'
  BY <1>0, Zenon DEF StayedInv, Answers, processes
<1>5. FoundInv'
  <2> SUFFICES ASSUME query.name \notin {"", "."}, NEW q \in pids'
               PROVE  \E r \in MayBeFound : r[1] = q /\ Shows(r[2], query.fn) = query.name
    BY <1>0, Zenon DEF FoundInv, MayBeFound, processes
  <2>1. CASE q \in pids
    BY <2>1, Zenon DEF FoundInv
  <2>2. CASE q \notin pids
    <3>1. /\ q = p /\ ~Gone(p) /\ Shows(table[p], query.fn) = query.name
          /\ p \in zombies => query.fn = "pidof"
      BY <1>0, <2>2, Zenon
    <3>2. <<p, table[p]>> \in MayBeFound
      <4>1. <<p, table[p]>> \in IF p \in zombies THEN ran \cup unreaped ELSE ran
        BY <1>1, <3>1, Zenon DEF TableInv
      <4> QED BY <3>1, <4>1, Zenon DEF MayBeFound
    <3> DEFINE r == <<p, table[p]>>
    <3>3. r[1] = q /\ Shows(r[2], query.fn) = query.name
      BY <3>1, Zenon
    <3> QED BY <3>2, <3>3, Zenon
  <2> QED BY <2>1, <2>2, Zenon
<1>6. VanishedInv'
  BY <1>0, Zenon DEF VanishedInv, Gone, processes
<1> QED BY <1>2, <1>3, <1>4, <1>5, <1>6, Zenon

\* The process whose turn it is, is to be examined.
LEMMA TurnListed ==
  ASSUME PidofType, NEW p, Turn(p)
  PROVE  p \in to_examine
<1>1. to_examine \in SUBSET Nat /\ to_examine # {}
  BY MaxPidAssumption DEF PidofType, Pids, Turn
<1> QED BY <1>1, MinIsLeast DEF Turn

LEMMA ReadTextStep ==
  ASSUME PidofInv, NEW p \in Pids, ReadText(p)
  PROVE  PidofInv'
<1> DEFINE found == Attribute(query.fn, p) = query.name
<1>0. /\ reader = "examine" /\ query.fn \in Functions4 \ {"pidofexe"} /\ Turn(p)
      /\ Examined(p, found) /\ UNCHANGED <<processes, query, cursor>>
  BY DEF ReadText, PidofInv, PidofType
<1>1. p \in to_examine
  BY <1>0, TurnListed DEF PidofInv
<1>2. p \in stayed /\ Answers(p) => found
  BY <1>0, AttributeShows, Zenon DEF PidofInv, TableInv, Answers
<1>3. query.name \notin {"", "."} /\ found =>
        ~Gone(p) /\ Shows(table[p], query.fn) = query.name /\ (p \in zombies => query.fn = "pidof")
  BY <1>0, AttributeShows, Zenon DEF PidofInv
<1> HIDE DEF found
<1>4. found \in BOOLEAN
  BY DEF found
<1> QED BY <1>0, <1>1, <1>2, <1>3, <1>4, ExaminedStep, Zenon

LEMMA ReadlinkStep ==
  ASSUME PidofInv, NEW p \in Pids, Readlink(p)
  PROVE  PidofInv'
<1>0. reader = "readlink" /\ Turn(p) /\ UNCHANGED <<processes, query, cursor>>
  BY Zenon DEF Readlink
<1>1. p \in to_examine /\ query.fn = "pidofexe"
  BY <1>0, TurnListed DEF PidofInv, VanishedInv
<1>2. Shows(table[p], query.fn) = table[p].exe
  BY <1>1 DEF Shows
<1>3. CASE Gone(p)
  <2>1. PICK found \in {query.name = "", FALSE} : Examined(p, found)
    BY <1>3, Zenon DEF Readlink
  <2>2. p \notin stayed
    BY <1>3, Zenon DEF PidofInv, TableInv
  <2>3. found \in BOOLEAN /\ (query.name \notin {"", "."} => ~found)
    BY <2>1, Zenon
  <2> QED BY <1>0, <1>1, <2>1, <2>2, <2>3, ExaminedStep, Zenon
<1>4. CASE ~Gone(p)
  <2> DEFINE found == ~table[p].denied /\ (IF p \in zombies THEN "" ELSE table[p].exe) = query.name
  <2>1. Examined(p, found)
    BY <1>4, Zenon DEF Readlink
  <2>2. p \in stayed /\ Answers(p) => found
    BY <1>1, <1>2, Zenon DEF PidofInv, TableInv, Answers
  <2>3. query.name \notin {"", "."} /\ found =>
          ~Gone(p) /\ Shows(table[p], query.fn) = query.name /\ (p \in zombies => query.fn = "pidof")
    BY <1>2, <1>4, Zenon
  <2> HIDE DEF found
  <2>4. found \in BOOLEAN
    BY DEF found
  <2> QED BY <1>0, <1>1, <2>1, <2>2, <2>3, <2>4, ExaminedStep, Zenon
<1> QED BY <1>3, <1>4

LEMMA IsSymlinkStep ==
  ASSUME PidofInv, NEW p \in Pids, IsSymlink(p)
  PROVE  PidofInv'
<1> USE DEF PidofInv
<1>0. /\ reader = "examine" /\ query.fn = "pidofexe" /\ Turn(p)
      /\ reader' = IF Gone(p) THEN "thrown" ELSE "readlink"
      /\ UNCHANGED <<processes, query, cursor, to_examine, pids>>
  BY DEF IsSymlink
<1>1. p \in to_examine
  BY <1>0, TurnListed
<1>2. PidofType' /\ TableInv'
  BY <1>0 DEF PidofType, TableInv, Gone, processes
<1>3. StayedInv' /\ FoundInv'
  BY <1>0, Zenon DEF MayBeFound, StayedInv, FoundInv, Answers, processes
<1>4. VanishedInv'
  BY <1>0, <1>1 DEF VanishedInv, Gone, processes
<1> QED BY <1>2, <1>3, <1>4

LEMMA ReturnPidsStep ==
  ASSUME PidofInv, ReturnPids
  PROVE  PidofInv'
<1> USE DEF PidofInv
<1>0. /\ reader = "examine" /\ to_examine = {} /\ reader' = "returned"
      /\ UNCHANGED <<processes, query, cursor, to_examine, pids>>
  BY DEF ReturnPids
<1>1. PidofType' /\ TableInv'
  BY <1>0 DEF PidofType, TableInv, Gone, processes
<1>2. StayedInv' /\ FoundInv' /\ VanishedInv'
  BY <1>0, Zenon DEF MayBeFound, StayedInv, FoundInv, VanishedInv, Answers, Gone, processes
<1> QED BY <1>1, <1>2

LEMMA ExecStep ==
  ASSUME PidofInv, NEW p \in Pids, NEW x \in Programs, Exec(p, x)
  PROVE  PidofInv'
<1> USE DEF PidofInv
<1>0. /\ p \notin zombies /\ table' = [table EXCEPT ![p] = x]
      /\ ran' = IF reader = "idle" THEN ran ELSE ran \cup {<<p, x>>}
      /\ stayed' = stayed \ {p}
      /\ UNCHANGED <<query, reader, cursor, to_examine, pids, zombies, unreaped, vanished>>
  BY Zenon DEF Exec, Happens
<1>1. x # NoProgram
  BY NoProgramAssumption
<1>2. PidofType'
  BY <1>0 DEF PidofType
<1>3. TableInv'
  BY <1>0, <1>1 DEF TableInv, Gone, PidofType
<1>4. StayedInv'
  BY <1>0 DEF StayedInv, Answers, PidofType, TableInv
<1>5. FoundInv'
  <2>1. MayBeFound \subseteq MayBeFound'
    BY <1>0 DEF MayBeFound
  <2> QED BY <1>0, <2>1, Zenon DEF FoundInv
<1>6. VanishedInv'
  BY <1>0, <1>1 DEF VanishedInv, Gone, PidofType
<1> QED BY <1>2, <1>3, <1>4, <1>5, <1>6

LEMMA ExitProcessStep ==
  ASSUME PidofInv, NEW p \in Pids, ExitProcess(p)
  PROVE  PidofInv'
<1> USE DEF PidofInv
<1>0. /\ ~Gone(p) /\ zombies' = zombies \cup {p} /\ stayed' = stayed \ {p}
      /\ UNCHANGED <<query, reader, cursor, to_examine, pids, table, ran, unreaped, vanished>>
  BY DEF ExitProcess, Happens
<1>1. PidofType' /\ TableInv'
  BY <1>0 DEF PidofType, TableInv, Gone
<1>2. StayedInv' /\ FoundInv' /\ VanishedInv'
  BY <1>0, Zenon DEF MayBeFound, StayedInv, FoundInv, VanishedInv, Answers, Gone
<1> QED BY <1>1, <1>2

LEMMA ReapProcessStep ==
  ASSUME PidofInv, NEW p \in Pids, ReapProcess(p)
  PROVE  PidofInv'
<1> USE DEF PidofInv
<1>0. /\ p \in zombies /\ zombies' = zombies \ {p}
      /\ table' = [table EXCEPT ![p] = NoProgram]
      /\ reader \notin {"returned", "thrown"} /\ vanished' = (reader # "idle")
      /\ UNCHANGED <<query, reader, cursor, to_examine, pids, ran, unreaped, stayed>>
  BY DEF ReapProcess, Happens
<1>1. p \notin stayed
  BY <1>0 DEF TableInv
<1>2. PidofType'
  BY <1>0 DEF PidofType
<1>3. TableInv'
  BY <1>0, <1>1 DEF TableInv, Gone, PidofType
<1>4. StayedInv' /\ FoundInv'
  BY <1>0, <1>1, Zenon DEF MayBeFound, StayedInv, FoundInv, Answers, PidofType, TableInv
<1>5. VanishedInv'
  BY <1>0, Zenon DEF VanishedInv
<1> QED BY <1>2, <1>3, <1>4, <1>5

LEMMA PidofNextInv == PidofInv /\ [PidofNext]_PidofVars => PidofInv'
<1> SUFFICES ASSUME PidofInv, [PidofNext]_PidofVars PROVE PidofInv'
  OBVIOUS
<1>1. CASE PidofStep
  BY <1>1, CallPidofStep, ListProcStep, ReturnPidsStep, ReadTextStep, IsSymlinkStep, ReadlinkStep
     DEF PidofStep
<1>2. ASSUME NEW p \in Pids, ExitProcess(p) \/ ReapProcess(p) \/ \E x \in Programs : Exec(p, x)
      PROVE  PidofInv'
  BY <1>2, ExitProcessStep, ReapProcessStep, ExecStep
<1>3. CASE UNCHANGED PidofVars
  <2>1. PidofType' /\ TableInv'
    BY <1>3 DEF PidofInv, PidofType, TableInv, Gone, PidofVars, processes
  <2>2. StayedInv' /\ FoundInv' /\ VanishedInv'
    BY <1>3, Zenon DEF PidofInv, MayBeFound, StayedInv, FoundInv, VanishedInv, Answers, Gone, PidofVars, processes
  <2> QED BY <2>1, <2>2 DEF PidofInv
<1> QED BY <1>1, <1>2, <1>3 DEF PidofNext

LEMMA PidofSpecInv == PidofSpec => []PidofInv
  BY PidofInitInv, PidofNextInv, PTL DEF PidofSpec

\* Whoever is returned has run the program while the call lasted, or of pidof was a zombie
\* of it before, whichever processes came, went and had their identifiers reused
\* (process.cc:44-49, 205-246).
THEOREM FoundRanItTheorem == PidofSpec => []FoundRanIt
<1>1. PidofInv => FoundRanIt
  BY Zenon DEF PidofInv, FoundInv, FoundRanIt
<1> QED BY <1>1, PidofSpecInv, PTL

\* Whoever ran the program throughout is returned, and only pidofexe throws, for a
\* process that has vanished (process.cc:64, 205-246).
THEOREM FindsAllTheorem == PidofSpec => []FindsAll
<1>1. PidofInv => FindsAll
  BY DEF PidofInv, StayedInv, VanishedInv, Answers, FindsAll, MissesNone, ThrowsOnlyIfVanished
<1> QED BY <1>1, PidofSpecInv, PTL

-----------------------------------------------------------------------------
(* runbg.sh.                                                               *)

Frames   == [signal : Signals, at : {"kill", "wait"}, interrupts : BOOLEAN]
Statuses == ByTerm \cup ByUsr1 \cup ByItself \cup {Ignored}

RunBgType ==
  /\ command \in [SIGTERM : ByTerm, SIGUSR1 : ByUsr1]
  /\ job \in [state : {"none", "running", "ended"}, status : Statuses]
  /\ line \in {"job", "PID", "wait", "exited"} /\ PID \in BOOLEAN
  /\ traps \in Seq(Frames) /\ caught \subseteq Signals /\ sent \in Seq(Signals)
  /\ early \in BOOLEAN

\* The variable is set once the job is there; the script is not at its wait before.
LineInv ==
  /\ line \in {"job", "PID"} => ~PID
  /\ line = "wait" => PID
  /\ line = "job" => job.state = "none"
  /\ line = "PID" \/ PID => job.state # "none"

\* A trap that interrupts a wait, or waits, does so after the variable was set; one of
\* SIGTERM before it was set is for a signal that came early.
TrapInv ==
  /\ \A i \in DOMAIN traps :
       /\ traps[i].interrupts \/ traps[i].at = "wait" => PID
       /\ traps[i].signal = "SIGTERM" /\ ~PID => early
  /\ "SIGTERM" \in caught /\ ~PID => early
  /\ Exited => traps = <<>>

Terminating == \E i \in DOMAIN traps : traps[i].signal = "SIGTERM"
TermBegun   == "SIGTERM" \in ToSet(sent) \ caught

\* A terminate that has begun is never left but by the end of the script.
EndInv ==
  /\ sent = <<>> => caught = {} /\ traps = <<>>
  /\ TermBegun /\ ~Exited => Terminating
  /\ Exited /\ sent = <<>> => job.state = "ended"

RunBgInv == RunBgType /\ LineInv /\ TrapInv /\ EndInv /\ NoOrphan /\ StatusSays

LEMMA RunBgInitInv == RunBgInit => RunBgInv
<1> SUFFICES ASSUME RunBgInit PROVE RunBgInv
  OBVIOUS
<1> USE DEF RunBgInit
<1>1. RunBgType
  <2>1. PID \in BOOLEAN /\ early \in BOOLEAN
    BY Zenon
  <2> QED BY <2>1 DEF RunBgType, Statuses
<1>2. LineInv /\ TrapInv /\ EndInv /\ NoOrphan /\ StatusSays
  BY DEF LineInv, TrapInv, EndInv, NoOrphan, StatusSays, Exited, TermBegun, ToSet
<1> QED BY <1>1, <1>2 DEF RunBgInv

\* The innermost trap.
LEMMA FrameFacts ==
  ASSUME RunBgType, traps # <<>>
  PROVE  /\ Len(traps) \in DOMAIN traps /\ Frame = traps[Len(traps)] /\ Frame \in Frames
         /\ Front(traps) \in Seq(Frames) /\ DOMAIN Front(traps) = 1 .. Len(traps) - 1
         /\ \A i \in DOMAIN Front(traps) : i \in DOMAIN traps /\ Front(traps)[i] = traps[i]
<1>1. Len(traps) \in Nat \ {0} /\ DOMAIN traps = 1 .. Len(traps)
  BY EmptySeq, LenProperties DEF RunBgType
<1>2. Frame = traps[Len(traps)] /\ Frame \in Frames
  BY <1>1, ElementOfSeq DEF RunBgType, Frame, Last
<1>3. /\ Front(traps) \in Seq(Frames) /\ DOMAIN Front(traps) = 1 .. Len(traps) - 1
      /\ \A i \in 1 .. Len(traps) - 1 : Front(traps)[i] = traps[i]
  BY <1>1, SubSeqProperties DEF RunBgType, Front
<1> QED BY <1>1, <1>2, <1>3

\* A trap that ends, or a command of one that ends the script, does so in one of these
\* ways; what is left to show for each is why.
LEMMA ExitWithStep ==
  ASSUME RunBgInv, ~Exited, NEW n, ExitWith(n), UNCHANGED <<command, PID, caught, sent, early>>,
         job' = job,
         job.state = "running" => early,
         sent = <<>> => n = job.status /\ job.state = "ended",
         n = 0 => job = [state |-> "ended", status |-> 0],
         TermBegun => n # 0
  PROVE  RunBgInv'
<1> USE DEF RunBgInv, ExitWith
<1>1. RunBgType'
  BY EmptySeq DEF RunBgType
<1>2. LineInv'
  BY DEF LineInv
<1>3. TrapInv'
  BY DEF TrapInv, Exited
<1>4. EndInv'
  BY DEF EndInv, Exited
<1>5. NoOrphan' /\ StatusSays'
  BY DEF NoOrphan, StatusSays, Exited, TermBegun
<1> QED BY <1>1, <1>2, <1>3, <1>4, <1>5

\* The innermost trap ends: by the end of the script, or back to what it interrupted.
LEMMA EndOfTrapStep ==
  ASSUME RunBgInv, ~Exited, traps # <<>>, EndOfTrap, job.state = "running" => ~PID,
         UNCHANGED <<command, PID, caught, sent, early, job>>
  PROVE  RunBgInv'
<1> USE DEF RunBgInv
<1>0. /\ Frame = traps[Len(traps)] /\ Len(traps) \in DOMAIN traps /\ Frame \in Frames
      /\ Front(traps) \in Seq(Frames)
      /\ \A i \in DOMAIN Front(traps) : i \in DOMAIN traps /\ Front(traps)[i] = traps[i]
      /\ DOMAIN Front(traps) = 1 .. Len(traps) - 1
  BY FrameFacts
<1>1. sent # <<>>
  BY DEF EndInv
<1>2. Frame.interrupts => PID
  BY <1>0 DEF TrapInv
<1>3. Frame.signal = "SIGTERM" /\ ~PID => early
  BY <1>0 DEF TrapInv
<1>4. CASE Frame.signal = "SIGTERM"
  <2>1. ExitWith(143)
    BY <1>4 DEF EndOfTrap
  <2> QED BY <1>1, <1>3, <1>4, <2>1, ExitWithStep
<1>5. CASE Frame.signal # "SIGTERM" /\ Frame.interrupts
  <2>1. ExitWith(138)
    BY <1>5 DEF EndOfTrap, EndOfSigusr1
  <2> QED BY <1>1, <1>2, <1>5, <2>1, ExitWithStep
<1>6. CASE Frame.signal # "SIGTERM" /\ ~Frame.interrupts
  <2>1. traps' = Front(traps) /\ UNCHANGED <<line, exit_status>>
    BY <1>6 DEF EndOfTrap, EndOfSigusr1
  <2>2. RunBgType'
    BY <1>0, <2>1 DEF RunBgType
  <2>3. LineInv'
    BY <2>1 DEF LineInv
  <2>4. TrapInv'
    BY <1>0, <2>1 DEF TrapInv, Exited
  <2>5. Terminating => Terminating'
    <3>1. \A i \in DOMAIN traps : traps[i].signal = "SIGTERM" => i \in DOMAIN Front(traps)
      <4>1. Len(traps) \in Nat /\ DOMAIN traps = 1 .. Len(traps)
        BY LenProperties DEF RunBgType
      <4> QED BY <1>0, <1>6, <4>1
    <3> QED BY <1>0, <2>1, <3>1 DEF Terminating
  <2>6. EndInv'
    BY <1>1, <2>1, <2>5 DEF EndInv, TermBegun, Exited
  <2>7. NoOrphan' /\ StatusSays'
    BY <2>1 DEF NoOrphan, StatusSays, Exited
  <2> QED BY <2>2, <2>3, <2>4, <2>6, <2>7
<1> QED BY <1>4, <1>5, <1>6

LEMMA StartJobStep ==
  ASSUME RunBgInv, StartJob, UNCHANGED <<command, caught, sent, early>>
  PROVE  RunBgInv'
<1> USE DEF RunBgInv
<1>0. /\ traps = <<>> /\ line = "job" /\ line' = "PID"
      /\ job' = [state |-> "running", status |-> Ignored] /\ UNCHANGED <<PID, traps, exit_status>>
  BY DEF StartJob
<1>1. RunBgType'
  <2>1. job' \in [state : {"none", "running", "ended"}, status : Statuses]
    BY <1>0 DEF Statuses
  <2> QED BY <1>0, <2>1 DEF RunBgType
<1>2. LineInv' /\ TrapInv'
  BY <1>0 DEF LineInv, TrapInv, Exited
<1>3. EndInv' /\ NoOrphan' /\ StatusSays'
  BY <1>0 DEF EndInv, NoOrphan, StatusSays, Exited, TermBegun, Terminating
<1> QED BY <1>1, <1>2, <1>3

LEMMA SetPIDStep ==
  ASSUME RunBgInv, SetPID, UNCHANGED <<command, caught, sent, early>>
  PROVE  RunBgInv'
<1> USE DEF RunBgInv
<1>0. /\ traps = <<>> /\ line = "PID" /\ line' = "wait" /\ PID' = TRUE
      /\ UNCHANGED <<job, traps, exit_status>>
  BY DEF SetPID
<1>1. RunBgType'
  BY <1>0 DEF RunBgType
<1>2. LineInv' /\ TrapInv'
  BY <1>0 DEF LineInv, TrapInv, Exited
<1>3. EndInv' /\ NoOrphan' /\ StatusSays'
  BY <1>0 DEF EndInv, NoOrphan, StatusSays, Exited, TermBegun, Terminating
<1> QED BY <1>1, <1>2, <1>3

LEMMA WaitJobStep ==
  ASSUME RunBgInv, WaitJob, UNCHANGED <<command, caught, sent, early>>
  PROVE  RunBgInv'
<1>1. /\ traps = <<>> /\ ~Exited /\ job.state = "ended" /\ ExitWith(job.status)
      /\ UNCHANGED <<job, PID>>
  BY DEF WaitJob, Exited
<1>2. job.status = 0 => job = [state |-> "ended", status |-> 0]
  BY <1>1 DEF RunBgInv, RunBgType
<1>3. ~TermBegun
  BY <1>1 DEF RunBgInv, EndInv, Terminating
<1> QED BY <1>1, <1>2, <1>3, ExitWithStep

LEMMA TrapKillStep ==
  ASSUME RunBgInv, TrapKill, UNCHANGED <<command, caught, sent, early>>
  PROVE  RunBgInv'
<1> USE DEF RunBgInv
<1>0. traps # <<>> /\ Frame.at = "kill" /\ ~Exited /\ UNCHANGED PID
  BY DEF TrapKill, TrapInv
<1>1. CASE ~PID /\ EndOfTrap /\ UNCHANGED job
  BY <1>0, <1>1, EndOfTrapStep
<1>2. CASE PID /\ job.state = "ended" /\ ExitWith(1) /\ UNCHANGED job
  BY <1>0, <1>2, ExitWithStep DEF EndInv
<1>3. CASE PID /\ Goes("wait") /\ Receives(Frame.signal)
  <2>0. /\ traps' = [traps EXCEPT ![Len(traps)].at = "wait"] /\ UNCHANGED <<line, exit_status>>
        /\ Len(traps) \in DOMAIN traps /\ Frame = traps[Len(traps)] /\ Frame \in Frames
    BY <1>0, <1>3, FrameFacts DEF Goes
  <2>1. [Frame EXCEPT !.at = "wait"] \in Frames
    BY <2>0 DEF Frames
  <2>2. traps' = [traps EXCEPT ![Len(traps)] = [Frame EXCEPT !.at = "wait"]]
    BY <2>0
  <2>3. traps' \in Seq(Frames) /\ DOMAIN traps' = DOMAIN traps
    BY <2>0, <2>1, <2>2, ExceptSeq DEF RunBgType
  <2>4. \A i \in DOMAIN traps : /\ traps'[i].signal = traps[i].signal
                                /\ traps'[i].interrupts = traps[i].interrupts
    BY <2>0, <2>2, <2>3 DEF Frames, RunBgType
  <2>5. /\ job'.state = job.state
        /\ job' \in [state : {"none", "running", "ended"}, status : Statuses]
    <3>1. command[Frame.signal] \in Statuses
      BY <2>0 DEF RunBgType, Statuses, Frames, Signals
    <3> QED BY <1>3, <3>1 DEF Receives, RunBgType
  <2>6. RunBgType'
    BY <1>0, <2>0, <2>3, <2>5 DEF RunBgType
  <2>7. LineInv'
    BY <1>0, <2>0, <2>5 DEF LineInv
  <2>8. TrapInv'
    BY <1>0, <1>3, <2>0, <2>3, <2>4 DEF TrapInv, Exited
  <2>9. EndInv'
    BY <1>0, <2>0, <2>3, <2>4, <2>5 DEF EndInv, TermBegun, Exited, Terminating
  <2>10. NoOrphan' /\ StatusSays'
    BY <1>0, <2>0 DEF NoOrphan, StatusSays, Exited
  <2> QED BY <2>6, <2>7, <2>8, <2>9, <2>10
<1> QED BY <1>1, <1>2, <1>3 DEF TrapKill

LEMMA TrapWaitStep ==
  ASSUME RunBgInv, TrapWait, UNCHANGED <<command, caught, sent, early>>
  PROVE  RunBgInv'
<1> USE DEF RunBgInv
<1>0. traps # <<>> /\ job.state = "ended" /\ ~Exited /\ UNCHANGED <<job, PID>>
  BY DEF TrapWait, TrapInv
<1>1. CASE job.status # 0
  <2>1. ExitWith(job.status)
    BY <1>1 DEF TrapWait
  <2> QED BY <1>0, <1>1, <2>1, ExitWithStep DEF EndInv
<1>2. CASE job.status = 0
  <2>1. EndOfTrap
    BY <1>2 DEF TrapWait
  <2> QED BY <1>0, <2>1, EndOfTrapStep
<1> QED BY <1>1, <1>2

LEMMA StartTrapStep ==
  ASSUME RunBgInv, NEW signal \in Signals, StartTrap(signal)
  PROVE  RunBgInv'
<1> USE DEF RunBgInv
<1>0. /\ signal \in caught /\ caught' = caught \ {signal} /\ ~Exited
      /\ UNCHANGED <<command, job, line, PID, sent, exit_status, early>>
  BY DEF StartTrap
<1>1. PICK interrupts \in BOOLEAN :
        /\ interrupts => IF traps = <<>> THEN line = "wait" ELSE Frame.at = "wait"
        /\ traps' = Append(traps, [signal |-> signal, at |-> "kill", interrupts |-> interrupts])
  BY DEF StartTrap
<1> DEFINE frame == [signal |-> signal, at |-> "kill", interrupts |-> interrupts]
<1>2. frame \in Frames
  BY DEF Frames
<1>3. interrupts => PID
  <2>1. CASE traps = <<>>
    BY <1>1, <2>1 DEF LineInv
  <2>2. CASE traps # <<>>
    BY <1>1, <2>2, FrameFacts DEF TrapInv
  <2> QED BY <2>1, <2>2
<1>4. traps \in Seq(Frames) /\ Len(traps) \in Nat /\ DOMAIN traps = 1 .. Len(traps)
  BY LenProperties DEF RunBgType
<1>5. /\ traps' \in Seq(Frames) /\ traps' # <<>> /\ DOMAIN traps' = 1 .. Len(traps) + 1
      /\ \A i \in DOMAIN traps : traps'[i] = traps[i]
      /\ traps'[Len(traps) + 1] = frame
  <2> HIDE DEF frame
  <2> QED BY <1>1, <1>2, <1>4, AppendProperties DEF frame
<1>6. RunBgType'
  BY <1>0, <1>5 DEF RunBgType
<1>7. LineInv'
  BY <1>0 DEF LineInv
<1>8. frame.interrupts \/ frame.at = "wait" => PID
  BY <1>3
<1>9. frame.signal = "SIGTERM" /\ ~PID => early
  BY <1>0 DEF TrapInv
<1>10. frame.signal = signal
  OBVIOUS
<1>11. \A i \in DOMAIN traps' : i \in DOMAIN traps \/ traps'[i] = frame
  <2> HIDE DEF frame
  <2> QED BY <1>4, <1>5
<1>12. Len(traps) + 1 \in DOMAIN traps' /\ DOMAIN traps \subseteq DOMAIN traps'
  BY <1>4, <1>5
<1> HIDE DEF frame
<1>13. TrapInv'
  BY <1>0, <1>5, <1>8, <1>9, <1>11 DEF TrapInv, Exited
<1>14. Terminating \/ signal = "SIGTERM" => Terminating'
  BY <1>5, <1>10, <1>12 DEF Terminating
<1>15. EndInv'
  BY <1>0, <1>14 DEF EndInv, TermBegun, Exited
<1>16. NoOrphan' /\ StatusSays'
  BY <1>0 DEF NoOrphan, StatusSays, Exited
<1> QED BY <1>6, <1>7, <1>13, <1>15, <1>16

LEMMA JobEndsStep ==
  ASSUME RunBgInv, JobEnds
  PROVE  RunBgInv'
<1> USE DEF RunBgInv
<1>0. /\ job.state = "running"
      /\ UNCHANGED <<command, line, PID, traps, caught, sent, exit_status, early>>
  BY DEF JobEnds
<1>1. job'.state = "ended" /\ job' \in [state : {"none", "running", "ended"}, status : Statuses]
  BY DEF JobEnds, RunBgType, Statuses
<1>2. RunBgType'
  BY <1>0, <1>1 DEF RunBgType
<1>3. LineInv' /\ TrapInv'
  BY <1>0, <1>1 DEF LineInv, TrapInv, Exited
<1>4. EndInv'
  BY <1>0, <1>1 DEF EndInv, TermBegun, Exited, Terminating
<1>5. NoOrphan' /\ StatusSays'
  BY <1>0, <1>1 DEF NoOrphan, StatusSays, Exited, EndInv
<1> QED BY <1>2, <1>3, <1>4, <1>5

LEMMA SendSignalStep ==
  ASSUME RunBgInv, SendSignal
  PROVE  RunBgInv'
<1> USE DEF RunBgInv
<1>0. ~Exited /\ UNCHANGED <<command, job, line, PID, traps, exit_status>>
  BY DEF SendSignal
<1>1. PICK signal \in Signals :
        /\ sent' = Append(sent, signal) /\ caught' = caught \cup {signal}
        /\ early' = (early \/ (signal = "SIGTERM" /\ ~PID))
  BY DEF SendSignal
<1>2. sent' \in Seq(Signals) /\ sent' # <<>>
  BY <1>1, AppendProperties DEF RunBgType
<1>3. ToSet(sent') = ToSet(sent) \cup {signal}
  <2>1. sent \in Seq(Signals) /\ Len(sent) \in Nat /\ DOMAIN sent = 1 .. Len(sent)
    BY LenProperties DEF RunBgType
  <2>2. /\ DOMAIN sent' = 1 .. Len(sent) + 1
        /\ \A i \in 1 .. Len(sent) : sent'[i] = sent[i]
        /\ sent'[Len(sent) + 1] = signal
    BY <1>1, <2>1, AppendProperties
  <2> QED BY <2>1, <2>2 DEF ToSet
<1>4. RunBgType'
  <2>1. early' \in BOOLEAN /\ caught' \subseteq Signals
    BY <1>1 DEF RunBgType
  <2> QED BY <1>0, <1>2, <2>1, <1>1 DEF RunBgType, SendSignal
<1>5. LineInv' /\ TrapInv'
  BY <1>0, <1>1, Zenon DEF LineInv, TrapInv, Exited
<1>6. TermBegun' => TermBegun
  BY <1>1, <1>3 DEF TermBegun
<1>7. EndInv'
  BY <1>0, <1>2, <1>6 DEF EndInv, Exited, Terminating
<1>8. NoOrphan' /\ StatusSays'
  BY <1>0 DEF NoOrphan, StatusSays, Exited
<1> QED BY <1>4, <1>5, <1>7, <1>8

LEMMA RunBgNextInv == RunBgInv /\ [RunBgNext]_RunBgVars => RunBgInv'
<1> SUFFICES ASSUME RunBgInv, [RunBgNext]_RunBgVars PROVE RunBgInv'
  OBVIOUS
<1>1. CASE Script
  BY <1>1, StartJobStep, SetPIDStep, WaitJobStep, TrapKillStep, TrapWaitStep DEF Script
<1>2. CASE JobEnds \/ SendSignal \/ \E signal \in Signals : StartTrap(signal)
  BY <1>2, JobEndsStep, SendSignalStep, StartTrapStep
<1>3. CASE UNCHANGED RunBgVars
  <2>1. RunBgType' /\ LineInv' /\ TrapInv'
    BY <1>3 DEF RunBgInv, RunBgVars, RunBgType, LineInv, TrapInv, Exited
  <2>2. EndInv' /\ NoOrphan' /\ StatusSays'
    BY <1>3 DEF RunBgInv, RunBgVars, EndInv, NoOrphan, StatusSays, Exited, TermBegun, Terminating
  <2> QED BY <2>1, <2>2 DEF RunBgInv
<1> QED BY <1>1, <1>2, <1>3 DEF RunBgNext

LEMMA RunBgSpecInv == RunBgSpec => []RunBgInv
  BY RunBgInitInv, RunBgNextInv, PTL DEF RunBgSpec

\* However many signals come, and whatever the command makes of them, the script
\* leaves no job behind but after an early SIGTERM, and its status is
\* never a 0 that the job did not end with (runbg.sh:8-29).
THEOREM ExitMeansEndedTheorem == RunBgSpec => []ExitMeansEnded
<1>1. RunBgInv => ExitMeansEnded
  BY DEF RunBgInv, ExitMeansEnded
<1> QED BY <1>1, RunBgSpecInv, PTL

-----------------------------------------------------------------------------
(* CompletableFutureTests: the task lists, for any number of workers,      *)
(* threads and tasks, lose nothing and repeat nothing, although the loop   *)
(* of a worker tests isEmpty outside of the monitor.                       *)

\* w polled task t and has not processed it yet.
Holds(w, t) == pc[w] \in {"check", "process"} /\ task[w] = t

PolledOnce ==
  /\ \A t \in Tasks : t >= head => processed[t] = 0
  /\ \A w \in Workers, t \in Tasks :
       Holds(w, t) => t < head /\ processed[t] = 0
  /\ \A v, w \in Workers, t \in Tasks : Holds(v, t) /\ Holds(w, t) => v = w

\* A task that left the queue is processed, or some worker has it.
NothingDropped ==
  \A t \in Tasks : t < head => processed[t] = 1 \/ \E w \in Workers : Holds(w, t)

\* The stale test never sends a worker home early: a size that is read is one
\* the queue has had, and the queue only shrinks.
DoneAtEnd ==
  /\ \A w \in Workers : pc[w] = "done" => head = NTasks + 1
  /\ \A w \in Workers : pc[w] = "process" => task[w] # 0
  /\ main = "completed" => \A w \in Workers : pc[w] = "done"

IInv == QueueTypeOK /\ PolledOnce /\ NothingDropped /\ DoneAtEnd

-----------------------------------------------------------------------------

LEMMA InitIInv == QueueInit => IInv
  <1> SUFFICES ASSUME QueueInit PROVE IInv
    OBVIOUS
  <1> USE QueueAssumption DEF QueueInit, Tasks
  <1>1. QueueTypeOK
    BY DEF QueueTypeOK, Ran
  <1>2. PolledOnce /\ NothingDropped /\ DoneAtEnd
    BY DEF PolledOnce, NothingDropped, DoneAtEnd, Holds
  <1> QED BY <1>1, <1>2 DEF IInv

\* Every step of a worker that is not a poll or a processing leaves what is held
\* as it is; these three lemmas are the steps of a worker.

LEMMA LoopStep ==
  ASSUME IInv, NEW w \in Workers, Loop(w)
  PROVE  IInv'
  <1> USE QueueAssumption DEF IInv, Tasks
  <1>1. PICK h \in view[w] .. head :
          pc' = [pc EXCEPT ![w] = IF h > NTasks THEN "done" ELSE "poll"]
    BY Zenon DEF Loop, Goto
  <1>2. /\ pc[w] = "loop"
        /\ UNCHANGED <<head, view, task, main, processed>>
    BY DEF Loop
  <1>3. QueueTypeOK'
    BY <1>1, <1>2 DEF QueueTypeOK, Ran
  <1>4. \A v \in Workers, t \in Tasks : Holds(v, t)' <=> Holds(v, t)
    BY <1>1, <1>2, Zenon DEF Holds, QueueTypeOK
  <1>5. PolledOnce' /\ NothingDropped'
    BY <1>2, <1>4 DEF PolledOnce, NothingDropped
  <1>6. h > NTasks => head = NTasks + 1
    BY <1>1 DEF QueueTypeOK
  <1>7. DoneAtEnd'
    BY <1>1, <1>2, <1>6 DEF DoneAtEnd, QueueTypeOK
  <1> QED BY <1>3, <1>5, <1>7

LEMMA PollStep ==
  ASSUME IInv, NEW w \in Workers, Poll(w)
  PROVE  IInv'
  <1> USE QueueAssumption DEF IInv, Tasks
  <1>1. /\ pc[w] = "poll" /\ pc' = [pc EXCEPT ![w] = "check"]
        /\ UNCHANGED <<main, processed>>
    BY DEF Poll, Goto
  <1>2. CASE head <= NTasks
    <2>1. /\ head' = head + 1
          /\ task' = [task EXCEPT ![w] = head]
          /\ view' = [view EXCEPT ![w] = head + 1]
      BY <1>2 DEF Poll
    <2>2. QueueTypeOK'
      BY <1>1, <1>2, <2>1 DEF QueueTypeOK, Ran
    <2>3. \A v \in Workers, t \in Tasks :
            Holds(v, t)' <=> (IF v = w THEN t = head ELSE Holds(v, t))
      BY <1>1, <2>1 DEF Holds, QueueTypeOK
    <2>4. head \in Tasks /\ processed[head] = 0
      BY <1>2 DEF QueueTypeOK, PolledOnce
    <2>5. PolledOnce'
      BY <1>1, <2>1, <2>3, <2>4 DEF PolledOnce, QueueTypeOK
    <2>6. NothingDropped'
      <3> SUFFICES ASSUME NEW t \in Tasks, t < head'
                   PROVE  processed'[t] = 1 \/ \E v \in Workers : Holds(v, t)'
        BY DEF NothingDropped
      <3>1. CASE t = head
        BY <3>1, <2>3
      <3>2. CASE t < head
        <4>1. ~ Holds(w, t)
          BY <1>1 DEF Holds
        <4> QED BY <4>1, <3>2, <1>1, <2>3 DEF NothingDropped
      <3> QED BY <3>1, <3>2, <2>1 DEF QueueTypeOK
    <2>7. DoneAtEnd'
      BY <1>1, <1>2, <2>1 DEF DoneAtEnd, QueueTypeOK
    <2> QED BY <2>2, <2>5, <2>6, <2>7
  <1>3. CASE ~ (head <= NTasks)
    <2>1. /\ head' = head
          /\ task' = [task EXCEPT ![w] = 0]
          /\ view' = [view EXCEPT ![w] = head]
      BY <1>3 DEF Poll
    <2>2. QueueTypeOK'
      BY <1>1, <2>1 DEF QueueTypeOK, Ran
    <2>3. \A v \in Workers, t \in Tasks : Holds(v, t)' <=> Holds(v, t)
      BY <1>1, <2>1 DEF Holds, QueueTypeOK
    <2>4. PolledOnce' /\ NothingDropped'
      BY <1>1, <2>1, <2>3 DEF PolledOnce, NothingDropped
    <2>5. DoneAtEnd'
      BY <1>1, <2>1 DEF DoneAtEnd, QueueTypeOK
    <2> QED BY <2>2, <2>4, <2>5
  <1> QED BY <1>2, <1>3

LEMMA CheckStep ==
  ASSUME IInv, NEW w \in Workers, Check(w)
  PROVE  IInv'
  <1> USE QueueAssumption DEF IInv, Tasks
  <1>1. /\ pc[w] = "check"
        /\ pc' = [pc EXCEPT ![w] = IF task[w] # 0 THEN "process" ELSE "loop"]
        /\ UNCHANGED <<head, view, task, main, processed>>
    BY DEF Check, Goto
  <1>2. QueueTypeOK'
    BY <1>1 DEF QueueTypeOK, Ran
  <1>3. \A v \in Workers, t \in Tasks : Holds(v, t)' <=> Holds(v, t)
    BY <1>1 DEF Holds, QueueTypeOK
  <1>4. PolledOnce' /\ NothingDropped'
    BY <1>1, <1>3 DEF PolledOnce, NothingDropped
  <1>5. DoneAtEnd'
    BY <1>1 DEF DoneAtEnd, QueueTypeOK
  <1> QED BY <1>2, <1>4, <1>5

LEMMA ProcessStep ==
  ASSUME IInv, NEW w \in Workers, processTask(w)
  PROVE  IInv'
  <1> USE QueueAssumption DEF IInv, Tasks
  <1> DEFINE mine == task[w]
  <1>1. /\ pc[w] = "process"
        /\ pc' = [pc EXCEPT ![w] = "loop"]
        /\ processed' = [processed EXCEPT ![mine] = processed[mine] + 1]
        /\ UNCHANGED <<head, view, task, main>>
    BY DEF processTask, Goto
  <1>2. mine \in Tasks /\ Holds(w, mine)
    BY <1>1 DEF QueueTypeOK, DoneAtEnd, Holds
  <1>3. processed[mine] = 0 /\ mine < head
    BY <1>2 DEF PolledOnce
  <1>4. QueueTypeOK'
    BY <1>1, <1>2 DEF QueueTypeOK, Ran
  <1>5. \A v \in Workers, t \in Tasks : Holds(v, t)' <=> v # w /\ Holds(v, t)
    BY <1>1 DEF Holds, QueueTypeOK
  <1>6. /\ processed'[mine] = 1
        /\ \A t \in Tasks : t # mine => processed'[t] = processed[t]
    BY <1>1, <1>2, <1>3 DEF QueueTypeOK
  <1>7. \A v \in Workers : Holds(v, mine) => v = w
    BY <1>2 DEF PolledOnce
  <1>8. PolledOnce'
    BY <1>1, <1>3, <1>5, <1>6, <1>7 DEF PolledOnce, QueueTypeOK
  <1>9. NothingDropped'
    <2> SUFFICES ASSUME NEW t \in Tasks, t < head, t # mine
                 PROVE  processed'[t] = 1 \/ \E v \in Workers : Holds(v, t)'
      BY <1>1, <1>6 DEF NothingDropped
    <2>1. ~ Holds(w, t)
      BY DEF Holds
    <2> QED BY <2>1, <1>5, <1>6 DEF NothingDropped
  <1>10. DoneAtEnd'
    BY <1>1 DEF DoneAtEnd, QueueTypeOK
  <1> QED BY <1>4, <1>8, <1>9, <1>10

\* The steps that hold, poll and process nothing.
LEMMA OtherStep ==
  ASSUME IInv, NEW w \in Workers,
         AllSubmitted \/ Join \/ Submit(w) \/ Start(w) \/ UNCHANGED QueueVars
  PROVE  IInv'
  <1> USE QueueAssumption DEF IInv, Tasks
  <1>1. UNCHANGED <<head, view, task, processed>>
    BY DEF AllSubmitted, Join, Submit, Start, QueueVars
  <1>2. QueueTypeOK'
    BY <1>1, Zenon DEF AllSubmitted, Join, Submit, Start, Goto, QueueVars, QueueTypeOK, Ran
  <1>3. \A v \in Workers, t \in Tasks : Holds(v, t)' <=> Holds(v, t)
    BY <1>1, Zenon DEF AllSubmitted, Join, Submit, Start, Goto, QueueVars, Holds, QueueTypeOK
  <1>4. PolledOnce' /\ NothingDropped'
    BY <1>1, <1>3 DEF PolledOnce, NothingDropped
  <1>5. DoneAtEnd'
    BY <1>1 DEF AllSubmitted, Join, Submit, Start, Goto, QueueVars, DoneAtEnd, QueueTypeOK
  <1> QED BY <1>2, <1>4, <1>5

LEMMA NextIInv == IInv /\ [QueueNext]_QueueVars => IInv'
  <1> SUFFICES ASSUME IInv, [QueueNext]_QueueVars PROVE IInv'
    OBVIOUS
  <1> PICK some \in Workers : TRUE
    BY QueueAssumption
  <1>1. CASE \E w \in Workers : Loop(w)
    BY <1>1, LoopStep
  <1>2. CASE \E w \in Workers : Poll(w)
    BY <1>2, PollStep
  <1>3. CASE \E w \in Workers : Check(w)
    BY <1>3, CheckStep
  <1>4. CASE \E w \in Workers : processTask(w)
    BY <1>4, ProcessStep
  <1>5. CASE AllSubmitted \/ Join \/ UNCHANGED QueueVars
    BY <1>5, OtherStep
  <1>6. CASE \E w \in Workers : Submit(w) \/ Start(w)
    BY <1>6, OtherStep
  <1> QED BY <1>1, <1>2, <1>3, <1>4, <1>5, <1>6 DEF QueueNext, Work

LEMMA AlwaysIInv == QueueSpec => []IInv
  BY InitIInv, NextIInv, PTL DEF QueueSpec

-----------------------------------------------------------------------------

\* No task of the queue is handed to two workers or handed out again, for any
\* number of workers (CompletableFutureTests.java 94-103).
THEOREM OnceTheorem == QueueSpec => []NoTaskTwice
  <1>1. IInv => NoTaskTwice
    <2> SUFFICES ASSUME IInv, NEW t \in Tasks
                 PROVE /\ processed[t] <= 1
                       /\ \A w \in Workers : pc[w] = "process" /\ task[w] = t
                            => /\ processed[t] = 0
                               /\ \A v \in Workers \ {w} :
                                    ~(pc[v] = "process" /\ task[v] = t)
      BY DEF NoTaskTwice
    <2> USE QueueAssumption DEF IInv, Tasks
    <2>1. processed[t] <= 1
      <3>1. CASE t >= head
        BY <3>1 DEF PolledOnce
      <3>2. CASE t < head
        BY <3>2 DEF NothingDropped, PolledOnce
      <3> QED BY <3>1, <3>2 DEF QueueTypeOK
    <2> QED BY <2>1 DEF PolledOnce, Holds
  <1> QED BY AlwaysIInv, <1>1, PTL

\* When the main thread announces the end of the work, each task was processed,
\* and once (CompletableFutureTests.java 108-112).
THEOREM CompletedTheorem == QueueSpec => []CompletedMeansAllOnce
  <1>1. IInv => CompletedMeansAllOnce
    <2> SUFFICES ASSUME IInv, main = "completed", NEW t \in Tasks
                 PROVE  processed[t] = 1
      BY DEF CompletedMeansAllOnce
    <2> USE QueueAssumption DEF IInv, Tasks
    <2>1. \A w \in Workers : pc[w] = "done"
      BY DEF DoneAtEnd
    <2>2. head = NTasks + 1
      BY <2>1 DEF DoneAtEnd
    <2>3. \A w \in Workers : ~ Holds(w, t)
      BY <2>1 DEF Holds
    <2> QED BY <2>2, <2>3 DEF NothingDropped
  <1> QED BY AlwaysIInv, <1>1, PTL

-----------------------------------------------------------------------------
(* CmdStdoutPipe.                                                          *)

Chars == {"x", Newline}

\* The starts of lines before p, and up to p.
StartsBefore(p) == {q \in LineStarts : q < p}
StartsTo(p)     == {q \in LineStarts : q <= p}

\* The list has the lines that start before p.
Lists(list, p) ==
  /\ list \in Seq(Seq(Chars)) /\ Len(list) = Cardinality(StartsBefore(p))
  /\ \A q \in StartsBefore(p) : list[Cardinality(StartsTo(q))] = LineAt(q)

\* The next line starts at p, and the scanner took all lines before it.
ScansAt(p) ==
  /\ p \in LineStarts /\ (p = consumed + 1 \/ (p = consumed + 2 /\ consumed = Len(output)))
  /\ \A q \in StartsBefore(p) : ~Stops(q)
  /\ Lists(scanResult, p)

PipeType ==
  /\ output \in Seq(Chars)
  /\ written \in 0 .. Len(output) /\ taken \in 0 .. written /\ consumed \in 0 .. taken
  /\ taken - consumed <= MaxToken
  /\ exited \in BOOLEAN /\ (exited => written = Len(output))

CmdInv ==
  /\ PipeType
  /\ scanner \in {"start", "scan", "wait", "returned"}
  /\ scanner = "start" => /\ scanResult = <<>> /\ written = 0 /\ taken = 0 /\ consumed = 0 /\ ~exited
  /\ scanner = "scan" => \E p \in LineStarts : ScansAt(p)
  /\ scanner = "wait" => Lists(scanResult, StopAt)
  /\ scanner = "returned" => result = "error" \/ (result = scanResult /\ Lists(scanResult, StopAt))

-----------------------------------------------------------------------------

\* A set of numbers has a least one, which Min is.
LEMMA MinIs ==
  ASSUME NEW S \in SUBSET Nat, S # {}
  PROVE  Min(S) \in S /\ \A x \in S : Min(S) <= x
<1> DEFINE R == OpToRel(<, Nat)
<1>1. IsWellFoundedOn(R, Nat)
  BY NatLessThanWellFounded, Zenon
<1>2. \A a, b \in Nat : a < b => <<a, b>> \in R
  BY DEF OpToRel
<1> HIDE DEF R
<1>3. PICK x \in S : \A y \in S : ~(<<y, x>> \in R)
  BY <1>1, WFMin, Zenon
<1>4. \A y \in S : y \in Nat /\ x \in Nat /\ ~(y < x)
  BY <1>2, <1>3, Zenon
<1>5. \A y \in S : x <= y
  BY <1>4
<1> QED BY <1>5, Zenon DEF Min

LEMMA MinIsIt ==
  ASSUME NEW S \in SUBSET Nat, NEW m \in S, \A x \in S : m <= x
  PROVE  Min(S) = m
<1>1. Min(S) \in S /\ Min(S) <= m
  BY MinIs
<1>2. Min(S) \in Nat /\ m \in Nat /\ m <= Min(S)
  BY <1>1, Zenon
<1> QED BY <1>1, <1>2

LEMMA TextIs ==
  ASSUME output \in Seq(Chars)
  PROVE  /\ FullText \in Seq(Chars) /\ Len(output) \in Nat /\ Len(FullText) = Len(output) + 2
         /\ \A i \in 1 .. Len(output) : FullText[i] = output[i]
         /\ FullText[Len(output) + 1] = Newline /\ FullText[Len(output) + 2] = Newline
<1> DEFINE e == <<Newline, Newline>>
<1>1. e \in Seq(Chars) /\ Len(e) = 2 /\ e[1] = Newline /\ e[2] = Newline
  BY DEF Chars
<1> HIDE DEF e
<1>2. /\ output \o e \in Seq(Chars) /\ Len(output \o e) = Len(output) + 2 /\ Len(output) \in Nat
      /\ \A i \in 1 .. Len(output) : (output \o e)[i] = output[i]
      /\ (output \o e)[Len(output) + 1] = e[1] /\ (output \o e)[Len(output) + 2] = e[2]
  <2>1. /\ output \o e \in Seq(Chars) /\ Len(output \o e) = Len(output) + Len(e)
        /\ \A i \in 1 .. Len(output) + Len(e) :
             (output \o e)[i] = IF i <= Len(output) THEN output[i] ELSE e[i - Len(output)]
    BY <1>1, ConcatProperties, Zenon
  <2>2. Len(output) \in Nat
    OBVIOUS
  <2> HIDE DEF e
  <2> QED BY <1>1, <2>1, <2>2
<1> QED BY <1>1, <1>2 DEF FullText, e

\* A line ends at the first newline from its start on.
LEMMA LineEndIs ==
  ASSUME output \in Seq(Chars), NEW p \in 1 .. Len(FullText)
  PROVE  /\ LineEndFrom(p) \in p .. Len(FullText) /\ FullText[LineEndFrom(p)] = Newline
         /\ \A i \in p .. LineEndFrom(p) - 1 : FullText[i] # Newline
<1> DEFINE S == {i \in p .. Len(FullText) : FullText[i] = Newline}
<1>1. S \in SUBSET Nat /\ Len(FullText) \in S
  BY TextIs
<1>2. Min(S) \in S /\ \A x \in S : Min(S) <= x
  BY <1>1, MinIs, Zenon
<1>3. LineEndFrom(p) = Min(S)
  BY DEF LineEndFrom
<1> HIDE DEF LineEndFrom
<1>4. ASSUME NEW i \in p .. LineEndFrom(p) - 1 PROVE FullText[i] # Newline
  BY <1>2, <1>3, <1>4, TextIs
<1> QED BY <1>2, <1>3, <1>4

\* The line from p on is what lies before the newline at e.
LEMMA LineIs ==
  ASSUME output \in Seq(Chars), NEW p \in 1 .. Len(FullText), NEW e \in p .. Len(FullText),
         FullText[e] = Newline, \A i \in p .. e - 1 : FullText[i] # Newline
  PROVE  /\ LineEndFrom(p) = e /\ LineAt(p) \in Seq(Chars) /\ Len(LineAt(p)) = e - p
         /\ \A i \in 1 .. e - p : LineAt(p)[i] = FullText[p + i - 1]
<1>1. LineEndFrom(p) = e
  BY LineEndIs, TextIs
<1>2. /\ SubSeq(FullText, p, e - 1) \in Seq(Chars) /\ Len(SubSeq(FullText, p, e - 1)) = e - p
      /\ \A i \in 1 .. e - p : SubSeq(FullText, p, e - 1)[i] = FullText[p + i - 1]
  BY TextIs, SubSeqProperties
<1> QED BY <1>1, <1>2, Zenon DEF LineAt

\* The scan stops at p if it is the first line to stop at.
LEMMA StopIs ==
  ASSUME output \in Seq(Chars), NEW p \in LineStarts, Stops(p), \A q \in StartsBefore(p) : ~Stops(q)
  PROVE  StopAt = p
<1> DEFINE S == {q \in LineStarts : Stops(q)}
<1>1. S \in SUBSET Nat /\ p \in S /\ p \in Nat /\ \A q \in LineStarts : q \in Nat
  BY TextIs DEF LineStarts
<1>2. \A q \in S : p <= q
  BY <1>1 DEF StartsBefore
<1> HIDE DEF S
<1>3. Min(S) = p
  BY <1>1, <1>2, MinIsIt
<1> QED BY <1>3 DEF StopAt, S

\* There is such a line: the last one is empty.
LEMMA StopExists ==
  ASSUME output \in Seq(Chars)
  PROVE  StopAt \in Nat /\ \A q \in LineStarts : q \in Nat
<1> DEFINE S == {q \in LineStarts : Stops(q)}  l == Len(FullText)
<1>1. l \in 1 .. l /\ l \in LineStarts /\ FullText[l] = Newline
  BY TextIs DEF LineStarts
<1>2. LineAt(l) = <<>>
  <2>1. l \in l .. l /\ \A i \in l .. l - 1 : FullText[i] # Newline
    BY TextIs
  <2>2. LineAt(l) \in Seq(Chars) /\ Len(LineAt(l)) = l - l
    BY <1>1, <2>1, LineIs
  <2> QED BY <1>1, <2>2
<1>3. S \in SUBSET Nat /\ l \in S /\ \A q \in LineStarts : q \in Nat
  BY <1>1, <1>2, TextIs DEF LineStarts, Stops
<1> HIDE DEF S
<1>4. Min(S) \in Nat
  BY <1>3, MinIs, Zenon
<1> QED BY <1>3, <1>4 DEF StopAt, S

LEMMA StartsFinite ==
  ASSUME output \in Seq(Chars), NEW p
  PROVE  /\ IsFiniteSet(StartsBefore(p)) /\ Cardinality(StartsBefore(p)) \in Nat
         /\ IsFiniteSet(StartsTo(p)) /\ Cardinality(StartsTo(p)) \in Nat
<1>1. IsFiniteSet(1 .. Len(FullText))
  <2>1. 1 \in Int /\ Len(FullText) \in Int
    BY TextIs
  <2> QED BY <2>1, FS_Interval, Zenon
<1>2. StartsBefore(p) \subseteq 1 .. Len(FullText) /\ StartsTo(p) \subseteq 1 .. Len(FullText)
  BY DEF StartsBefore, StartsTo, LineStarts
<1>3. IsFiniteSet(StartsBefore(p)) /\ IsFiniteSet(StartsTo(p))
  BY <1>1, <1>2, FS_Subset
<1> QED BY <1>3, FS_CardinalityType

\* Behind the line from p on the next one starts, and the list grows by it.
LEMMA ListGrows ==
  ASSUME output \in Seq(Chars), NEW list, NEW p \in LineStarts, Lists(list, p),
         LineAt(p) \in Seq(Chars), NEW n, n = LineEndFrom(p) + 1, n <= Len(FullText)
  PROVE  /\ n \in LineStarts /\ StartsBefore(n) = StartsBefore(p) \cup {p}
         /\ Lists(Append(list, LineAt(p)), n)
<1>1. p \in 1 .. Len(FullText) /\ p \in Nat /\ Len(FullText) \in Nat
  BY TextIs DEF LineStarts
<1>2. /\ LineEndFrom(p) \in p .. Len(FullText) /\ FullText[LineEndFrom(p)] = Newline
      /\ \A i \in p .. LineEndFrom(p) - 1 : FullText[i] # Newline
  BY <1>1, LineEndIs
<1>3. n \in LineStarts
  BY <1>1, <1>2 DEF LineStarts
<1>4. StartsBefore(n) = StartsBefore(p) \cup {p} /\ p \notin StartsBefore(p)
  <2>1. ASSUME NEW q \in LineStarts, q < n PROVE q <= p
    <3>1. q \in 1 .. Len(FullText) /\ (q = 1 \/ FullText[q - 1] = Newline)
      BY <2>1 DEF LineStarts
    <3> QED BY <1>1, <1>2, <2>1, <3>1
  <2>2. \A q \in LineStarts : q \in Nat
    BY TextIs DEF LineStarts
  <2>3. \A q \in LineStarts : q < n <=> q < p \/ q = p
    BY <1>1, <1>2, <2>1, <2>2
  <2>4. p \notin StartsBefore(p)
    BY <1>1 DEF StartsBefore
  <2>5. StartsBefore(n) = StartsBefore(p) \cup {p}
    BY <2>3 DEF StartsBefore
  <2> QED BY <2>4, <2>5
<1>5. StartsTo(p) = StartsBefore(n)
  <2>1. \A q \in LineStarts : q \in Nat
    BY TextIs DEF LineStarts
  <2>2. \A q \in LineStarts : q <= p <=> q < p \/ q = p
    BY <1>1, <2>1
  <2> QED BY <1>4, <2>2 DEF StartsTo, StartsBefore
<1>6. /\ Cardinality(StartsBefore(n)) = Cardinality(StartsBefore(p)) + 1 /\ Cardinality(StartsBefore(p)) \in Nat
  BY <1>4, StartsFinite, FS_AddElement
<1>7. \A q \in StartsBefore(p) : Cardinality(StartsTo(q)) \in 1 .. Cardinality(StartsBefore(p))
  <2> SUFFICES ASSUME NEW q \in StartsBefore(p)
               PROVE  Cardinality(StartsTo(q)) \in 1 .. Cardinality(StartsBefore(p))
    OBVIOUS
  <2>1. StartsTo(q) \subseteq StartsBefore(p) /\ q \in StartsTo(q)
    BY <1>1 DEF StartsBefore, StartsTo, LineStarts
  <2>2. Cardinality(StartsTo(q)) <= Cardinality(StartsBefore(p)) /\ Cardinality(StartsTo(q)) \in Nat
    BY <2>1, StartsFinite, FS_Subset
  <2>3. Cardinality(StartsTo(q)) # 0
    BY <2>1, StartsFinite, FS_EmptySet
  <2> QED BY <1>6, <2>2, <2>3
<1>8. Lists(Append(list, LineAt(p)), n)
  <2> DEFINE k == Cardinality(StartsBefore(p))  l == Append(list, LineAt(p))
  <2>1. list \in Seq(Seq(Chars)) /\ Len(list) = k /\ k \in Nat
    BY <1>6 DEF Lists
  <2>2. l \in Seq(Seq(Chars)) /\ Len(l) = k + 1 /\ l[k + 1] = LineAt(p) /\ \A i \in 1 .. k : l[i] = list[i]
    BY <2>1, AppendProperties
  <2>3. ASSUME NEW q \in StartsBefore(n) PROVE l[Cardinality(StartsTo(q))] = LineAt(q)
    <3>1. CASE q = p
      <4> Cardinality(StartsTo(p)) = k + 1
        BY <1>5, <1>6
      <4> HIDE DEF k, l
      <4> QED BY <2>2, <3>1
    <3>2. CASE q \in StartsBefore(p)
      <4>1. list[Cardinality(StartsTo(q))] = LineAt(q)
        BY <3>2 DEF Lists
      <4>2. Cardinality(StartsTo(q)) \in 1 .. k
        BY <1>7, <3>2
      <4> HIDE DEF k, l
      <4> QED BY <2>2, <4>1, <4>2
    <3> QED BY <1>4, <2>3, <3>1, <3>2, Zenon
  <2> HIDE DEF k
  <2>4. Cardinality(StartsBefore(n)) = k + 1
    BY <1>6 DEF k
  <2> QED BY <2>2, <2>3, <2>4, Zenon DEF Lists
<1> QED BY <1>3, <1>4, <1>8

\* As long as the output is the same, so are its lines.
LEMMA TextStays ==
  ASSUME output' = output
  PROVE  /\ LineStarts' = LineStarts /\ StopAt' = StopAt
         /\ \A list, p : Lists(list, p)' <=> Lists(list, p)
         /\ \A p : /\ Stops(p)' <=> Stops(p)
                  /\ StartsBefore(p)' = StartsBefore(p)
  BY DEF LineStarts, StopAt, Lists, Stops, StartsBefore, StartsTo, LineAt, LineEndFrom, FullText

\* Whoever takes steps beside the scanner leaves what it has listed.
LEMMA CmdOthersStep ==
  ASSUME CmdInv, UNCHANGED <<output, scanner, consumed, scanResult, result>>, PipeType',
         scanner = "start" => UNCHANGED <<written, taken, exited>>
  PROVE  CmdInv'
<1>1. \A p : ScansAt(p) => ScansAt(p)'
  BY TextStays DEF ScansAt
<1> QED BY <1>1, TextStays DEF CmdInv

LEMMA StartCmdStep ==
  ASSUME CmdInv, StartCmd
  PROVE  CmdInv'
<1>1. scanResult = <<>> /\ written = 0 /\ taken = 0 /\ consumed = 0 /\ ~exited
  BY DEF CmdInv, StartCmd
<1>2. CASE scanner' = "returned" /\ result' = "error" /\ UNCHANGED <<output, fails>>
  BY <1>2 DEF CmdInv, StartCmd, PipeType
<1>3. CASE output' \in Outputs /\ scanner' = "scan"
  <2>1. output' \in Seq(Chars)
    BY <1>3 DEF Outputs, Chars
  <2>2. PipeType'
    BY <1>1, <2>1, SizesAssumption DEF StartCmd, PipeType, CmdInv
  <2>3. ScansAt(1)'
    <3>1. 1 \in LineStarts'
      <4>1. <<Newline, Newline>> \in Seq(Chars) /\ Len(<<Newline, Newline>>) = 2
        BY DEF Chars
      <4>2. Len(FullText') = Len(output') + 2 /\ Len(output') \in Nat
        BY <2>1, <4>1, ConcatProperties DEF FullText
      <4> QED BY <4>2 DEF LineStarts
    <3>2. StartsBefore(1)' = {}
      BY DEF LineStarts, StartsBefore
    <3>3. Lists(scanResult, 1)'
      BY <1>1, <3>2, FS_EmptySet DEF Lists, StartCmd
    <3> QED BY <1>1, <3>1, <3>2, <3>3 DEF ScansAt, StartCmd
  <2> QED BY <1>3, <2>2, <2>3 DEF CmdInv, ScansAt
<1> QED BY <1>2, <1>3 DEF StartCmd

LEMMA WriteOutputStep ==
  ASSUME CmdInv, WriteOutput
  PROVE  CmdInv'
<1>1. PipeType'
  BY DEF CmdInv, PipeType, WriteOutput
<1> QED BY <1>1, CmdOthersStep DEF WriteOutput

LEMMA ExitCmdStep ==
  ASSUME CmdInv, ExitCmd
  PROVE  CmdInv'
<1>1. PipeType'
  BY DEF CmdInv, PipeType, ExitCmd
<1> QED BY <1>1, CmdOthersStep, Zenon DEF ExitCmd

\* What the scanner's buffer holds.
LEMMA BufferIs ==
  ASSUME PipeType
  PROVE  /\ InBuffer \in Seq(Chars) /\ Len(InBuffer) = taken - consumed
         /\ Len(InBuffer) \in 0 .. MaxToken
         /\ \A i \in 1 .. taken - consumed : InBuffer[i] = output[consumed + i]
<1>1. /\ Len(output) \in Nat /\ written \in Nat /\ taken \in Nat /\ consumed \in Nat
      /\ consumed <= taken /\ taken <= Len(output) /\ MaxToken \in Nat
      /\ \A i \in 1 .. Len(output) : output[i] \in Chars
  BY SizesAssumption DEF PipeType
<1>2. /\ InBuffer \in Seq(Chars) /\ Len(InBuffer) = taken - consumed
      /\ \A i \in 1 .. taken - consumed : InBuffer[i] = output[consumed + i]
  BY <1>1, SubSeqProperties DEF InBuffer
<1> QED BY <1>1, <1>2 DEF PipeType

LEMMA ReadPipeStep ==
  ASSUME CmdInv, ReadPipe
  PROVE  CmdInv'
<1>1. PICK n \in 1 .. MaxToken - Len(InBuffer) : taken + n <= written /\ taken' = taken + n
  BY DEF ReadPipe
<1>2. PipeType /\ Len(InBuffer) = taken - consumed
  BY BufferIs DEF CmdInv
<1>3. PipeType'
  BY <1>1, <1>2, SizesAssumption DEF PipeType, ReadPipe
<1> QED BY <1>3, CmdOthersStep DEF ReadPipe

\* A line end in the buffer is the first newline in it.
LEMMA FirstLineEnd ==
  ASSUME PipeType
  PROVE  /\ LineEnd \in 0 .. taken - consumed
         /\ LineEnd # 0 => output[consumed + LineEnd] = Newline
         /\ LineEnd # 0 => \A i \in 1 .. LineEnd - 1 : output[consumed + i] # Newline
         /\ LineEnd = 0 => \A i \in 1 .. taken - consumed : output[consumed + i] # Newline
<1> DEFINE I == {i \in 1 .. Len(InBuffer) : InBuffer[i] = Newline}
<1>1. LineEnd = IF I # {} THEN Min(I) ELSE 0
  BY DEF LineEnd, SelectInSeq
<1>2. taken - consumed \in Nat /\ I \in SUBSET Nat
  BY BufferIs
<1>3. CASE I = {}
  BY <1>1, <1>2, <1>3, BufferIs
<1>4. CASE I # {}
  <2>1. LineEnd \in I /\ \A i \in I : LineEnd <= i
    BY <1>1, <1>2, <1>4, MinIs, Zenon
  <2>2. LineEnd \in 1 .. taken - consumed /\ output[consumed + LineEnd] = Newline
    BY <2>1, BufferIs
  <2>3. \A i \in 1 .. LineEnd - 1 : output[consumed + i] # Newline
    BY <1>2, <2>1, <2>2, BufferIs
  <2> QED BY <2>2, <2>3
<1> QED BY <1>3, <1>4

\* The line at the scanner's place lies in the buffer as far as it was read.
LEMMA InLine ==
  ASSUME PipeType, NEW p \in LineStarts, p = consumed + 1
  PROVE  /\ p \in 1 .. Len(FullText) /\ consumed \in Nat /\ taken \in Nat /\ taken <= Len(output)
         /\ Len(FullText) = Len(output) + 2 /\ Len(output) \in Nat /\ LineEnd \in Nat
         /\ LineEnd > 0 => LineEndFrom(p) = consumed + LineEnd /\ consumed + LineEnd <= taken
         /\ LineEnd = 0 => LineEndFrom(p) > taken
<1>1. /\ output \in Seq(Chars) /\ p \in 1 .. Len(FullText) /\ consumed \in Nat /\ taken \in Nat
      /\ taken <= Len(output) /\ Len(FullText) = Len(output) + 2 /\ Len(output) \in Nat
      /\ \A i \in 1 .. Len(output) : FullText[i] = output[i]
  BY TextIs DEF PipeType, LineStarts
<1>2. LineEnd \in Nat /\ LineEnd <= taken - consumed
  BY <1>1, FirstLineEnd
<1>3. CASE LineEnd > 0
  <2>1. /\ consumed + LineEnd \in p .. Len(FullText) /\ FullText[consumed + LineEnd] = Newline
        /\ consumed + LineEnd <= taken
    <3>1. consumed + LineEnd <= taken /\ consumed + LineEnd \in p .. Len(output)
      BY <1>1, <1>2, <1>3
    <3>2. output[consumed + LineEnd] = Newline
      BY <1>3, FirstLineEnd
    <3> QED BY <1>1, <3>1, <3>2
  <2>2. ASSUME NEW i \in p .. (consumed + LineEnd) - 1 PROVE FullText[i] # Newline
    <3>1. i - consumed \in 1 .. LineEnd - 1 /\ consumed + (i - consumed) = i /\ i \in 1 .. Len(output)
      BY <1>1, <1>2, <1>3, <2>1
    <3>2. output[consumed + (i - consumed)] # Newline
      BY <1>3, <3>1, FirstLineEnd
    <3> QED BY <1>1, <3>1, <3>2
  <2>3. LineEndFrom(p) = consumed + LineEnd
    BY <1>1, <2>1, <2>2, LineIs, Zenon
  <2> QED BY <1>1, <1>2, <1>3, <2>1, <2>3
<1>4. CASE LineEnd = 0
  <2>1. LineEndFrom(p) \in p .. Len(FullText) /\ FullText[LineEndFrom(p)] = Newline
    BY <1>1, LineEndIs
  <2>2. ASSUME LineEndFrom(p) <= taken PROVE FALSE
    <3> DEFINE i == LineEndFrom(p)
    <3>1. i - consumed \in 1 .. taken - consumed /\ consumed + (i - consumed) = i /\ i \in 1 .. Len(output)
      BY <1>1, <2>1, <2>2
    <3>2. output[consumed + (i - consumed)] # Newline
      BY <1>4, <3>1, FirstLineEnd
    <3> QED BY <1>1, <2>1, <3>1, <3>2
  <2> QED BY <1>1, <1>2, <1>4, <2>1, <2>2
<1> QED BY <1>2, <1>3, <1>4

\* A token is the line at the scanner's place, if that is not too long and either its
\* end is in the buffer or the output has ended.
LEMMA TokenIs ==
  ASSUME PipeType, NEW p \in LineStarts, p = consumed + 1, consumed < taken, ~TooLong,
         LineEnd > 0 \/ taken = Len(output)
  PROVE  /\ Token = LineAt(p) /\ LineAt(p) \in Seq(Chars) /\ Len(LineAt(p)) < MaxToken
         /\ LineEndFrom(p) = (IF LineEnd > 0 THEN consumed + LineEnd ELSE taken + 1)
         /\ LineEndFrom(p) + 1 <= Len(FullText)
<1> DEFINE e == IF LineEnd > 0 THEN consumed + LineEnd ELSE taken + 1
<1>1. /\ p \in 1 .. Len(FullText) /\ consumed \in Nat /\ taken \in Nat /\ taken <= Len(output)
      /\ Len(FullText) = Len(output) + 2 /\ Len(output) \in Nat /\ LineEnd \in Nat /\ MaxToken \in Nat
  BY InLine, SizesAssumption
<1>2. output \in Seq(Chars)
  BY DEF PipeType
<1>3. LineEndFrom(p) \in p .. Len(FullText) /\ FullText[LineEndFrom(p)] = Newline
      /\ \A i \in p .. LineEndFrom(p) - 1 : FullText[i] # Newline
  BY <1>1, <1>2, LineEndIs
<1>4. LineEndFrom(p) = e /\ e + 1 <= Len(FullText)
  <2>1. CASE LineEnd > 0
    BY <1>1, <2>1, InLine
  <2>2. CASE LineEnd = 0
    <3>1. LineEndFrom(p) > taken /\ taken = Len(output)
      BY <2>2, InLine
    <3>2. FullText[taken + 1] = Newline
      BY <1>2, <3>1, TextIs
    <3>3. taken + 1 \in p .. Len(FullText)
      BY <1>1, <3>1
    <3> QED BY <1>1, <1>3, <2>2, <3>1, <3>2, <3>3
  <2> QED BY <1>1, <2>1, <2>2
<1>5. /\ LineAt(p) \in Seq(Chars) /\ Len(LineAt(p)) = e - p
      /\ \A i \in 1 .. e - p : LineAt(p)[i] = FullText[p + i - 1]
  <2>1. e \in p .. Len(FullText) /\ FullText[e] = Newline /\ \A i \in p .. e - 1 : FullText[i] # Newline
    BY <1>3, <1>4, Zenon
  <2> HIDE DEF e
  <2> QED BY <1>1, <1>2, <2>1, LineIs, Zenon
<1>6. /\ Token \in Seq(Chars) /\ Len(Token) = e - p
      /\ \A i \in 1 .. e - p : Token[i] = output[consumed + i]
  <2>0. /\ InBuffer \in Seq(Chars) /\ Len(InBuffer) = taken - consumed
        /\ \A i \in 1 .. taken - consumed : InBuffer[i] = output[consumed + i]
        /\ \A i \in 1 .. Len(InBuffer) : InBuffer[i] \in Chars
    BY BufferIs
  <2>1. CASE LineEnd > 0
    <3>1. LineEnd - 1 \in Int /\ LineEnd <= taken - consumed /\ Token = SubSeq(InBuffer, 1, LineEnd - 1)
      BY <1>1, <2>1, FirstLineEnd DEF Token
    <3>2. \A i \in 1 .. LineEnd - 1 : InBuffer[i] \in Chars
      BY <1>1, <2>0, <3>1
    <3>3. /\ Token \in Seq(Chars) /\ Len(Token) = (IF 1 <= LineEnd - 1 THEN LineEnd - 1 - 1 + 1 ELSE 0)
          /\ \A i \in 1 .. LineEnd - 1 - 1 + 1 : Token[i] = InBuffer[1 + i - 1]
      BY <3>1, <3>2, SubSeqProperties
    <3>4. e - p = LineEnd - 1
      BY <1>1, <2>1
    <3>5. Len(Token) = e - p /\ e - p <= taken - consumed
      <4>1. Len(Token) = IF 1 <= LineEnd - 1 THEN LineEnd - 1 - 1 + 1 ELSE 0
        BY <3>3, Zenon
      <4>2. /\ LineEnd \in Nat /\ LineEnd > 0 /\ LineEnd <= taken - consumed
            /\ taken \in Nat /\ consumed \in Nat
        BY <1>1, <2>1, <3>1
      <4> HIDE DEF e
      <4> QED BY <3>4, <4>1, <4>2
    <3>6. \A i \in 1 .. e - p : i \in 1 .. taken - consumed /\ i \in 1 .. LineEnd - 1 - 1 + 1 /\ 1 + i - 1 = i
      BY <1>1, <2>1, <3>4, <3>5
    <3>7. \A i \in 1 .. e - p : Token[i] = InBuffer[1 + i - 1] /\ InBuffer[i] = output[consumed + i]
      BY <2>0, <3>3, <3>6, Zenon
    <3>8. \A i \in 1 .. e - p : Token[i] = output[consumed + i]
      BY <3>6, <3>7
    <3> QED BY <3>3, <3>5, <3>8, Zenon
  <2>2. CASE LineEnd = 0
    <3>1. e - p = taken - consumed /\ Token = InBuffer
      BY <1>1, <2>2 DEF Token
    <3> QED BY <2>0, <3>1
  <2> QED BY <1>1, <2>1, <2>2
<1>7. e - p \in Nat /\ e - p < MaxToken
  <2>1. Len(InBuffer) = taken - consumed /\ Len(InBuffer) <= MaxToken
    BY BufferIs
  <2>2. CASE LineEnd > 0
    BY <1>1, <1>3, <1>4, <2>1, <2>2, InLine
  <2>3. CASE LineEnd = 0
    BY <1>1, <2>1, <2>3 DEF TooLong
  <2> QED BY <1>1, <2>2, <2>3
<1>8. Token = LineAt(p)
  <2>1. \A i \in 1 .. e - p : consumed + i \in 1 .. Len(output) /\ p + i - 1 = consumed + i
    BY <1>1, <1>4
  <2>2. \A i \in 1 .. e - p : FullText[p + i - 1] = output[consumed + i]
    BY <1>2, <2>1, TextIs
  <2> HIDE DEF e
  <2>3. \A i \in 1 .. Len(Token) : Token[i] = LineAt(p)[i]
    BY <1>5, <1>6, <2>2
  <2>4. Len(Token) = Len(LineAt(p)) /\ Token \in Seq(Chars) /\ LineAt(p) \in Seq(Chars)
    BY <1>5, <1>6
  <2> HIDE DEF Token, LineAt
  <2> QED BY <2>3, <2>4, SeqEqual
<1> QED BY <1>4, <1>5, <1>7, <1>8

\* The scan goes on behind the line it has taken, or stops where it is to stop.
LEMMA ScanTokenStep ==
  ASSUME CmdInv, ScanToken
  PROVE  CmdInv'
<1>1. PipeType /\ output \in Seq(Chars) /\ scanner = "scan"
  BY DEF CmdInv, PipeType, ScanToken
<1>2. PICK p \in LineStarts : ScansAt(p)
  BY <1>1 DEF CmdInv
<1>3. /\ UNCHANGED <<output, written, exited, taken, result>>
      /\ LineEnd > 0 \/ TooLong \/ AtEof
      /\ Scanned(IF TooLong THEN <<>> ELSE Token)
      /\ consumed' = IF LineEnd > 0 THEN consumed + LineEnd ELSE taken
  BY DEF ScanToken
<1>4. /\ consumed \in Nat /\ taken \in Nat /\ consumed <= taken /\ taken <= Len(output) /\ Len(output) \in Nat
      /\ LineEnd \in 0 .. taken - consumed /\ MaxToken \in Nat \ {0} /\ Len(InBuffer) = taken - consumed
      /\ exited => written = Len(output)
  BY <1>1, FirstLineEnd, BufferIs, SizesAssumption DEF PipeType
<1>5. PipeType'
  BY <1>1, <1>3, <1>4 DEF PipeType
<1>6. /\ p \in LineStarts /\ (p = consumed + 1 \/ (p = consumed + 2 /\ consumed = Len(output)))
      /\ \A q \in StartsBefore(p) : ~Stops(q)
      /\ Lists(scanResult, p)
  BY <1>2 DEF ScansAt
<1>7. ASSUME Stops(p), scanner' = "wait", scanResult' = scanResult PROVE CmdInv'
  <2>1. StopAt = p
    BY <1>1, <1>6, <1>7, StopIs
  <2>2. Lists(scanResult, StopAt)'
    BY <1>3, <1>6, <1>7, <2>1, TextStays, Zenon DEF Lists
  <2> QED BY <1>5, <1>7, <2>2 DEF CmdInv
<1>8. CASE TooLong
  <2>1. LineEnd = 0 /\ taken - consumed = MaxToken /\ scanner' = "wait" /\ scanResult' = scanResult
    BY <1>3, <1>4, <1>8 DEF TooLong, Scanned
  <2>2. p = consumed + 1
    BY <1>4, <1>6, <2>1
  <2>3. LineEndFrom(p) > taken /\ p \in 1 .. Len(FullText)
    BY <1>1, <2>1, <2>2, InLine
  <2>4. LineEndFrom(p) \in p .. Len(FullText) /\ Len(LineAt(p)) = LineEndFrom(p) - p
    BY <1>1, <2>3, LineEndIs, LineIs, Zenon
  <2>5. Stops(p)
    BY <1>4, <2>1, <2>2, <2>3, <2>4 DEF Stops
  <2> QED BY <1>7, <2>1, <2>5
<1>9. CASE ~TooLong /\ consumed = taken
  <2>1. LineEnd = 0 /\ AtEof /\ taken = Len(output) /\ InBuffer = <<>>
    BY <1>3, <1>4, <1>9, BufferIs, <1>1 DEF AtEof
  <2>2. scanner' = "wait" /\ scanResult' = scanResult
    BY <1>3, <1>9, <2>1 DEF Scanned, Token
  <2>3. /\ p \in 1 .. Len(FullText) /\ FullText[p] = Newline /\ p \in Nat
    BY <1>1, <1>4, <1>6, <1>9, <2>1, TextIs DEF LineStarts
  <2>4. LineAt(p) \in Seq(Chars) /\ Len(LineAt(p)) = p - p
    <3>1. p \in p .. Len(FullText) /\ \A i \in p .. p - 1 : FullText[i] # Newline
      BY <1>1, <2>3, TextIs
    <3> QED BY <1>1, <2>3, <3>1, LineIs
  <2>5. Stops(p)
    <3>1. LineAt(p) = <<>>
      BY <2>3, <2>4
    <3> QED BY <3>1 DEF Stops
  <2> QED BY <1>7, <2>2, <2>5
<1>10. CASE ~TooLong /\ consumed < taken
  <2>1. p = consumed + 1 /\ (LineEnd > 0 \/ taken = Len(output))
    BY <1>3, <1>4, <1>6, <1>10 DEF AtEof
  <2>5. PICK n : n = LineEndFrom(p) + 1
    OBVIOUS
  <2>2. /\ Token = LineAt(p) /\ LineAt(p) \in Seq(Chars) /\ Len(LineAt(p)) < MaxToken
        /\ LineEndFrom(p) = (IF LineEnd > 0 THEN consumed + LineEnd ELSE taken + 1)
        /\ n <= Len(FullText)
    BY <1>1, <1>10, <2>1, <2>5, TokenIs
  <2>3. CASE Token = <<>>
    <3>1. Stops(p)
      BY <2>2, <2>3 DEF Stops
    <3> QED BY <1>3, <1>7, <1>10, <2>3, <3>1 DEF Scanned
  <2>4. CASE Token # <<>>
    <3>1. scanResult' = Append(scanResult, LineAt(p)) /\ scanner' = "scan"
      BY <1>1, <1>3, <1>10, <2>2, <2>4 DEF Scanned
    <3>2. ~Stops(p)
      BY <1>4, <2>2, <2>4 DEF Stops
    <3>3. n \in LineStarts /\ StartsBefore(n) = StartsBefore(p) \cup {p} /\ Lists(scanResult', n)
      BY <1>1, <1>6, <2>2, <2>5, <3>1, ListGrows, Zenon
    <3>4. n = consumed' + 1 \/ (n = consumed' + 2 /\ consumed' = Len(output))
      BY <1>3, <1>4, <2>1, <2>2, <2>5
    <3>5. ScansAt(n)'
      <4>1. Lists(scanResult, n)'
        BY <1>3, <3>3, TextStays, Zenon DEF Lists
      <4> QED BY <1>3, <1>6, <3>2, <3>3, <3>4, <4>1, TextStays DEF ScansAt
    <3> QED BY <1>3, <1>5, <3>1, <3>3, <3>5, TextStays DEF CmdInv
  <2> QED BY <2>3, <2>4
<1> QED BY <1>4, <1>8, <1>9, <1>10

LEMMA WaitCmdStep ==
  ASSUME CmdInv, WaitCmd
  PROVE  CmdInv'
<1>1. Lists(scanResult, StopAt) /\ PipeType
  BY DEF CmdInv, WaitCmd
<1>2. Lists(scanResult, StopAt)' /\ PipeType'
  BY <1>1, TextStays, Zenon DEF WaitCmd, PipeType, Lists
<1> QED BY <1>2 DEF WaitCmd, CmdInv

LEMMA CmdInitInv == CmdInit => CmdInv
<1> SUFFICES ASSUME CmdInit PROVE CmdInv
  OBVIOUS
<1>1. output \in Seq(Chars) /\ Len(output) = 0
  BY DEF CmdInit
<1>2. written = 0 /\ taken = 0 /\ consumed = 0 /\ exited = FALSE
  BY DEF CmdInit
<1>3. /\ written \in 0 .. Len(output) /\ taken \in 0 .. written /\ consumed \in 0 .. taken
      /\ taken - consumed <= MaxToken
  <2>1. 0 \in 0 .. 0 /\ 0 - 0 <= MaxToken
    BY SizesAssumption
  <2> QED BY <1>1, <1>2, <2>1
<1>4. exited \in BOOLEAN /\ (exited => written = Len(output))
  BY <1>2, Zenon
<1>5. PipeType
  BY <1>1, <1>3, <1>4 DEF PipeType
<1> QED BY <1>5 DEF CmdInit, CmdInv

LEMMA CmdNextInv == CmdInv /\ [CmdNext]_CmdVars => CmdInv'
<1> SUFFICES ASSUME CmdInv, [CmdNext]_CmdVars PROVE CmdInv'
  OBVIOUS
<1>1. CASE CmdNext
  BY <1>1, StartCmdStep, WriteOutputStep, ExitCmdStep, ReadPipeStep, ScanTokenStep, WaitCmdStep
     DEF CmdNext, Command, Reader
<1>2. CASE UNCHANGED CmdVars
  <2>1. PipeType'
    BY <1>2 DEF CmdVars, CmdInv, PipeType
  <2> QED BY <1>2, <2>1, CmdOthersStep DEF CmdVars
<1> QED BY <1>1, <1>2

LEMMA CmdSpecInv == CmdSpec => []CmdInv
  BY CmdInitInv, CmdNextInv, PTL DEF CmdSpec

\* However the output reaches the scanner: what is returned are the lines before the first
\* that is empty or does not fit.
THEOREM LinesBeforeEmptyTheorem == CmdSpec => []LinesBeforeEmpty
<1>1. CmdInv => LinesBeforeEmpty
  <2> SUFFICES ASSUME CmdInv, scanner = "returned", result # "error" PROVE LinesBeforeEmpty
    BY DEF LinesBeforeEmpty
  <2> DEFINE kept == {p \in LineStarts : p < StopAt}
  <2>1. result = scanResult /\ Lists(scanResult, StopAt) /\ kept = StartsBefore(StopAt)
    BY DEF CmdInv, StartsBefore
  <2>2. ASSUME NEW p \in kept PROVE {q \in kept : q <= p} = StartsTo(p)
    BY <2>2, StopExists DEF StartsTo, CmdInv, PipeType
  <2> QED BY <2>1, <2>2, Zenon DEF LinesBeforeEmpty, Lists
<1> QED BY CmdSpecInv, <1>1, PTL
-----------------------------------------------------------------------------
(* The parts of a URI make up its text.                                    *)

\* The text s from behind i to j.
Between(s, i, j) == SubSeq(s, i + 1, j)

\* A part of a text is a text; empty if it ends where it begins.
LEMMA BetweenIs ==
  ASSUME NEW C, NEW s \in Seq(C), NEW i \in Nat, NEW j \in Int, i <= j => j <= Len(s)
  PROVE  /\ Between(s, i, j) \in Seq(C)
         /\ Len(Between(s, i, j)) = (IF i <= j THEN j - i ELSE 0)
         /\ \A k \in 1 .. Len(Between(s, i, j)) : Between(s, i, j)[k] = s[i + k]
         /\ j <= i => Between(s, i, j) = <<>>
         /\ i < j => Between(s, i, j) # <<>>
<1>1. CASE i < j
  <2>1. Between(s, i, j) \in Seq(C) /\ Len(Between(s, i, j)) = j - i
    BY <1>1 DEF Between
  <2>2. \A k \in 1 .. j - i : Between(s, i, j)[k] = s[i + k]
    BY <1>1 DEF Between
  <2>3. Between(s, i, j) # <<>>
    BY <1>1, <2>1
  <2> QED BY <1>1, <2>1, <2>2, <2>3
<1>2. CASE j <= i
  <2>1. Between(s, i, j) = <<>>
    BY <1>2 DEF Between
  <2> QED BY <1>2, <2>1
<1> QED BY <1>1, <1>2

\* Two parts of a text, one behind the other, are one.
LEMMA BetweenJoins ==
  ASSUME NEW C, NEW s \in Seq(C), NEW i \in Nat, NEW j \in Nat, NEW k \in Nat, i <= j, j <= k, k <= Len(s)
  PROVE  Between(s, i, j) \o Between(s, j, k) = Between(s, i, k)
<1> DEFINE a == Between(s, i, j)  b == Between(s, j, k)  c == Between(s, i, k)
<1>1. /\ a \in Seq(C) /\ Len(a) = j - i /\ \A p \in 1 .. j - i : a[p] = s[i + p]
      /\ b \in Seq(C) /\ Len(b) = k - j /\ \A p \in 1 .. k - j : b[p] = s[j + p]
      /\ c \in Seq(C) /\ Len(c) = k - i /\ \A p \in 1 .. k - i : c[p] = s[i + p]
  BY BetweenIs
<1> HIDE DEF a, b, c
<1>2. a \o b \in Seq(C) /\ Len(a \o b) = k - i
  BY <1>1
<1>3. ASSUME NEW p \in 1 .. k - i PROVE (a \o b)[p] = c[p]
  <2>1. (a \o b)[p] = IF p <= j - i THEN a[p] ELSE b[p - (j - i)]
    BY <1>1
  <2> QED BY <1>1, <2>1
<1> QED BY <1>1, <1>2, <1>3, SeqEqual, Zenon DEF a, b, c

\* A part of one character.
LEMMA BetweenOne ==
  ASSUME NEW C, NEW s \in Seq(C), NEW i \in Nat, NEW c, At(s, i, c)
  PROVE  i + 1 <= Len(s) /\ c \in C /\ <<c>> = Between(s, i, i + 1)
<1>1. i + 1 \in 1 .. Len(s) /\ s[i + 1] = c
  BY DEF At
<1>2. c \in C
  BY <1>1
<1>3. /\ Between(s, i, i + 1) \in Seq(C) /\ Len(Between(s, i, i + 1)) = 1
      /\ Between(s, i, i + 1)[1] = c
  <2> DEFINE n == i + 1  b == Between(s, i, n)
  <2>1. n \in Int /\ i <= n /\ n <= Len(s) /\ n - i = 1
    BY <1>1
  <2> HIDE DEF n
  <2>2. b \in Seq(C) /\ Len(b) = n - i /\ \A k \in 1 .. Len(b) : b[k] = s[i + k]
    BY <2>1, BetweenIs
  <2> HIDE DEF b
  <2>3. Len(b) = 1 /\ b[1] = s[i + 1]
    BY <2>1, <2>2
  <2> QED BY <1>1, <2>2, <2>3 DEF b, n
<1>4. <<c>> \in Seq(C) /\ Len(<<c>>) = 1 /\ <<c>>[1] = c
  BY <1>2
<1>5. <<c>> = Between(s, i, i + 1)
  BY <1>3, <1>4, SeqEqual
<1> QED BY <1>1, <1>2, <1>5

-----------------------------------------------------------------------------
(* The groups of a match.                                                  *)

\* Where the group k may end.
GroupEnds(s, m, k) ==
  CASE k = 1 -> ProtocolEnds(s)
    [] k = 2 -> UsernameEnds(s, m)
    [] k = 3 -> PasswordEnds(s, m)
    [] k = 4 -> HostnameEnds(s, m)
    [] k = 5 -> PortEnds(s, m)
    [] k = 6 -> PathnameEnds(s, m)
    [] k = 7 -> QueryEnds(s, m)
    [] k = 8 -> HashEnds(s, m)

\* m has n of the groups, and each ends where it may.
Has(s, m, n) == m \in Seq(Nat) /\ Len(m) = n /\ \A k \in 1 .. n : m[k] \in GroupEnds(s, m, k)

\* Where a group may end is said by those before it.
LEMMA EndsStay ==
  ASSUME NEW s, NEW l, NEW m, NEW n \in 1 .. 8, \A k \in 1 .. n - 1 : m[k] = l[k]
  PROVE  GroupEnds(s, m, n) = GroupEnds(s, l, n)
<1>0. \A k \in 1 .. 7 : k < n => m[k] = l[k]
  OBVIOUS
<1>1. /\ 1 < n => m[1] = l[1]
      /\ 2 < n => m[2] = l[2]
      /\ 3 < n => m[3] = l[3]
      /\ 4 < n => m[4] = l[4]
      /\ 5 < n => m[5] = l[5]
      /\ 6 < n => m[6] = l[6]
      /\ 7 < n => m[7] = l[7]
  BY <1>0
<1>2. CASE n = 1
  BY <1>2 DEF GroupEnds
<1>3. CASE n = 2
  <2>1. UsernameEnds(s, m) = UsernameEnds(s, l)
    <3>1. m[1] = l[1]
      BY <1>1, <1>3
    <3> QED BY <3>1, Zenon DEF UsernameEnds
  <2> QED BY <1>3, <2>1 DEF GroupEnds
<1>4. CASE n = 3
  <2>1. PasswordEnds(s, m) = PasswordEnds(s, l)
    <3>1. m[1] = l[1] /\ m[2] = l[2]
      BY <1>1, <1>4
    <3> QED BY <3>1, Zenon DEF PasswordEnds
  <2> QED BY <1>4, <2>1 DEF GroupEnds
<1>5. CASE n = 4
  <2>1. HostnameEnds(s, m) = HostnameEnds(s, l)
    <3>1. m[1] = l[1] /\ m[2] = l[2] /\ m[3] = l[3]
      BY <1>1, <1>5
    <3>2. HostStart(m) = HostStart(l)
      BY <3>1, Zenon DEF HostStart
    <3> QED BY <3>2, Zenon DEF HostnameEnds
  <2> QED BY <1>5, <2>1 DEF GroupEnds
<1>6. CASE n = 5
  <2>1. PortEnds(s, m) = PortEnds(s, l)
    <3>1. m[4] = l[4]
      BY <1>1, <1>6
    <3> QED BY <3>1, Zenon DEF PortEnds
  <2> QED BY <1>6, <2>1 DEF GroupEnds
<1>7. CASE n = 6
  <2>1. PathnameEnds(s, m) = PathnameEnds(s, l)
    <3>1. m[5] = l[5]
      BY <1>1, <1>7
    <3> QED BY <3>1, Zenon DEF PathnameEnds
  <2> QED BY <1>7, <2>1 DEF GroupEnds
<1>8. CASE n = 7
  <2>1. QueryEnds(s, m) = QueryEnds(s, l)
    <3>1. m[6] = l[6]
      BY <1>1, <1>8
    <3> QED BY <3>1, Zenon DEF QueryEnds
  <2> QED BY <1>8, <2>1 DEF GroupEnds
<1>9. CASE n = 8
  <2>1. HashEnds(s, m) = HashEnds(s, l)
    <3>1. m[7] = l[7]
      BY <1>1, <1>9
    <3> QED BY <3>1, Zenon DEF HashEnds
  <2> QED BY <1>9, <2>1 DEF GroupEnds
<1> QED BY <1>2, <1>3, <1>4, <1>5, <1>6, <1>7, <1>8, <1>9

LEMMA EndsAreNat ==
  ASSUME NEW C, NEW s \in Seq(C), NEW n \in 1 .. 8, NEW l \in Seq(Nat), Len(l) = n - 1
  PROVE  GroupEnds(s, l, n) \subseteq Nat
<1>0. \A k \in 1 .. n - 1 : l[k] \in Nat
  OBVIOUS
<1>s. Len(s) \in Nat
  OBVIOUS
<1>p. \A i \in Nat : \A Bad : Span(s, i, Bad) \subseteq Nat
  BY <1>s DEF Span
<1> USE DEF GroupEnds
<1>1. CASE n = 1
  <2>1. \A j \in ProtocolEnds(s) : j \in Nat
    <3>1. Span(s, 0, {":", "/", "?", "#"}) \subseteq Nat
      BY <1>p
    <3> QED BY <3>1 DEF ProtocolEnds
  <2> QED BY <1>1, <2>1
<1>2. CASE n = 2
  <2>1. l[1] \in Nat
    BY <1>0, <1>2
  <2>2. Span(s, l[1], {"@", ":", "/", "?", "#"}) \subseteq Nat
    BY <1>p, <2>1
  <2> QED BY <1>2, <2>1, <2>2 DEF UsernameEnds
<1>3. CASE n = 3
  <2>1. l[1] \in Nat /\ l[2] \in Nat /\ l[2] + 1 \in Nat
    BY <1>0, <1>3
  <2>2. Span(s, l[2] + 1, {"@"}) \subseteq Nat
    BY <1>p, <2>1
  <2>3. PasswordEnds(s, l) \subseteq {l[2]} \cup Span(s, l[2] + 1, {"@"})
    BY Zenon DEF PasswordEnds
  <2> QED BY <1>3, <2>1, <2>2, <2>3
<1>4. CASE n = 4
  <2>1. HostStart(l) \in Nat
    BY <1>0, <1>4 DEF HostStart
  <2>2. Span(s, HostStart(l), {"@", ":", "/", "?", "#"}) \subseteq Nat
    BY <1>p, <2>1
  <2> QED BY <1>4, <1>s, <2>1, <2>2 DEF HostnameEnds
<1>5. CASE n = 5
  BY <1>0, <1>5 DEF PortEnds
<1>6. CASE n = 6
  <2>1. l[5] \in Nat /\ l[5] + 1 \in Nat
    BY <1>0, <1>6
  <2>2. Span(s, l[5] + 1, {"?", "#"}) \subseteq Nat
    BY <1>p, <2>1
  <2> QED BY <1>6, <2>1, <2>2 DEF PathnameEnds
<1>7. CASE n = 7
  <2>1. l[6] \in Nat /\ l[6] + 1 \in Nat
    BY <1>0, <1>7
  <2>2. Span(s, l[6] + 1, {"#"}) \subseteq Nat
    BY <1>p, <2>1
  <2> QED BY <1>7, <2>1, <2>2 DEF QueryEnds
<1>8. CASE n = 8
  BY <1>8, <1>s DEF HashEnds
<1> QED BY <1>1, <1>2, <1>3, <1>4, <1>5, <1>6, <1>7, <1>8

LEMMA HasNext ==
  ASSUME NEW C, NEW s \in Seq(C), NEW n \in 1 .. 7, NEW l, Has(s, l, n), NEW j \in GroupEnds(s, l, n + 1)
  PROVE  Has(s, Append(l, j), n + 1)
<1> DEFINE m == Append(l, j)
<1>1. l \in Seq(Nat) /\ Len(l) = n /\ \A k \in 1 .. n : l[k] \in GroupEnds(s, l, k)
  BY DEF Has
<1>2. j \in Nat
  <2>1. n + 1 \in 1 .. 8 /\ Len(l) = (n + 1) - 1
    BY <1>1
  <2> QED BY <1>1, <2>1, EndsAreNat, Zenon
<1>3. m \in Seq(Nat) /\ Len(m) = n + 1 /\ m[n + 1] = j /\ \A k \in 1 .. n : m[k] = l[k]
  BY <1>1, <1>2
<1> HIDE DEF m
<1>4. ASSUME NEW k \in 1 .. n + 1 PROVE m[k] \in GroupEnds(s, m, k)
  <2>1. k \in 1 .. 8 /\ \A i \in 1 .. k - 1 : m[i] = l[i]
    BY <1>3
  <2>2. GroupEnds(s, m, k) = GroupEnds(s, l, k)
    BY <2>1, EndsStay, Zenon
  <2>3. k \in 1 .. n \/ k = n + 1
    OBVIOUS
  <2> QED BY <1>1, <1>3, <2>2, <2>3
<1> QED BY <1>3, <1>4 DEF Has, m

\* Those of N are of M and one group more.
Continue(s, M, N, n) == \A m \in N : \E l \in M : \E j \in GroupEnds(s, l, n) : m = Append(l, j)

LEMMA HaveNext ==
  ASSUME NEW C, NEW s \in Seq(C), NEW n \in 1 .. 7, NEW M, \A l \in M : Has(s, l, n),
         NEW N, Continue(s, M, N, n + 1)
  PROVE  \A m \in N : Has(s, m, n + 1)
<1> TAKE m \in N
<1>1. PICK l \in M : \E j \in GroupEnds(s, l, n + 1) : m = Append(l, j)
  BY DEF Continue
<1>2. PICK j \in GroupEnds(s, l, n + 1) : m = Append(l, j)
  BY <1>1
<1>3. Has(s, l, n)
  OBVIOUS
<1> QED BY <1>2, <1>3, HasNext

\* The matches have the eight groups.
LEMMA MatchHas ==
  ASSUME NEW C, NEW s \in Seq(C)
  PROVE  \A m \in Matches(s) : Has(s, m, 8)
<1> DEFINE M1 == {<<j>> : j \in ProtocolEnds(s)}
           M2 == UNION {{Append(l, j) : j \in UsernameEnds(s, l)} : l \in M1}
           M3 == UNION {{Append(l, j) : j \in PasswordEnds(s, l)} : l \in M2}
           M4 == UNION {{Append(l, j) : j \in HostnameEnds(s, l)} : l \in M3}
           M5 == UNION {{Append(l, j) : j \in PortEnds(s, l)} : l \in M4}
           M6 == UNION {{Append(l, j) : j \in PathnameEnds(s, l)} : l \in M5}
           M7 == UNION {{Append(l, j) : j \in QueryEnds(s, l)} : l \in M6}
           M8 == UNION {{Append(l, j) : j \in HashEnds(s, l)} : l \in M7}
<1>0. Matches(s) = M8
  BY Zenon DEF Matches
<1>1. \A l \in M1 : Has(s, l, 1)
  <2>1. <<>> \in Seq(Nat) /\ Len(<<>>) = 1 - 1 /\ 1 \in 1 .. 8
    OBVIOUS
  <2>2. \A j \in GroupEnds(s, <<>>, 1) : j \in Nat
    BY <2>1, EndsAreNat, Zenon
  <2>3. \A l : GroupEnds(s, l, 1) = ProtocolEnds(s)
    BY DEF GroupEnds
  <2>4. ASSUME NEW j \in ProtocolEnds(s) PROVE Has(s, <<j>>, 1)
    <3>1. j \in Nat
      BY <2>2, <2>3
    <3>2. <<j>> \in Seq(Nat) /\ Len(<<j>>) = 1 /\ <<j>>[1] = j /\ 1 .. 1 = {1}
      BY <3>1
    <3> QED BY <2>3, <3>2 DEF Has
  <2> QED BY <2>4
<1> HIDE DEF M1
<1>2. \A l \in M2 : Has(s, l, 2)
  <2>1. \A m \in M2 : \E l \in M1 : \E j \in UsernameEnds(s, l) : m = Append(l, j)
    OBVIOUS
  <2> HIDE DEF M2
  <2>2. 1 \in 1 .. 7 /\ 1 + 1 = 2 /\ \A l : GroupEnds(s, l, 2) = UsernameEnds(s, l)
    BY DEF GroupEnds
  <2>3. Continue(s, M1, M2, 1 + 1)
    BY <2>1, <2>2 DEF Continue
  <2>4. \A l \in M2 : Has(s, l, 1 + 1)
    BY <1>1, <2>2, <2>3, HaveNext, Zenon
  <2> QED BY <2>2, <2>4
<1> HIDE DEF M2
<1>3. \A l \in M3 : Has(s, l, 3)
  <2>1. \A m \in M3 : \E l \in M2 : \E j \in PasswordEnds(s, l) : m = Append(l, j)
    OBVIOUS
  <2> HIDE DEF M3
  <2>2. 2 \in 1 .. 7 /\ 2 + 1 = 3 /\ \A l : GroupEnds(s, l, 3) = PasswordEnds(s, l)
    BY DEF GroupEnds
  <2>3. Continue(s, M2, M3, 2 + 1)
    BY <2>1, <2>2 DEF Continue
  <2>4. \A l \in M3 : Has(s, l, 2 + 1)
    BY <1>2, <2>2, <2>3, HaveNext, Zenon
  <2> QED BY <2>2, <2>4
<1> HIDE DEF M3
<1>4. \A l \in M4 : Has(s, l, 4)
  <2>1. \A m \in M4 : \E l \in M3 : \E j \in HostnameEnds(s, l) : m = Append(l, j)
    OBVIOUS
  <2> HIDE DEF M4
  <2>2. 3 \in 1 .. 7 /\ 3 + 1 = 4 /\ \A l : GroupEnds(s, l, 4) = HostnameEnds(s, l)
    BY DEF GroupEnds
  <2>3. Continue(s, M3, M4, 3 + 1)
    BY <2>1, <2>2 DEF Continue
  <2>4. \A l \in M4 : Has(s, l, 3 + 1)
    BY <1>3, <2>2, <2>3, HaveNext, Zenon
  <2> QED BY <2>2, <2>4
<1> HIDE DEF M4
<1>5. \A l \in M5 : Has(s, l, 5)
  <2>1. \A m \in M5 : \E l \in M4 : \E j \in PortEnds(s, l) : m = Append(l, j)
    OBVIOUS
  <2> HIDE DEF M5
  <2>2. 4 \in 1 .. 7 /\ 4 + 1 = 5 /\ \A l : GroupEnds(s, l, 5) = PortEnds(s, l)
    BY DEF GroupEnds
  <2>3. Continue(s, M4, M5, 4 + 1)
    BY <2>1, <2>2 DEF Continue
  <2>4. \A l \in M5 : Has(s, l, 4 + 1)
    BY <1>4, <2>2, <2>3, HaveNext, Zenon
  <2> QED BY <2>2, <2>4
<1> HIDE DEF M5
<1>6. \A l \in M6 : Has(s, l, 6)
  <2>1. \A m \in M6 : \E l \in M5 : \E j \in PathnameEnds(s, l) : m = Append(l, j)
    OBVIOUS
  <2> HIDE DEF M6
  <2>2. 5 \in 1 .. 7 /\ 5 + 1 = 6 /\ \A l : GroupEnds(s, l, 6) = PathnameEnds(s, l)
    BY DEF GroupEnds
  <2>3. Continue(s, M5, M6, 5 + 1)
    BY <2>1, <2>2 DEF Continue
  <2>4. \A l \in M6 : Has(s, l, 5 + 1)
    BY <1>5, <2>2, <2>3, HaveNext, Zenon
  <2> QED BY <2>2, <2>4
<1> HIDE DEF M6
<1>7. \A l \in M7 : Has(s, l, 7)
  <2>1. \A m \in M7 : \E l \in M6 : \E j \in QueryEnds(s, l) : m = Append(l, j)
    OBVIOUS
  <2> HIDE DEF M7
  <2>2. 6 \in 1 .. 7 /\ 6 + 1 = 7 /\ \A l : GroupEnds(s, l, 7) = QueryEnds(s, l)
    BY DEF GroupEnds
  <2>3. Continue(s, M6, M7, 6 + 1)
    BY <2>1, <2>2 DEF Continue
  <2>4. \A l \in M7 : Has(s, l, 6 + 1)
    BY <1>6, <2>2, <2>3, HaveNext, Zenon
  <2> QED BY <2>2, <2>4
<1> HIDE DEF M7
<1>8. \A l \in M8 : Has(s, l, 8)
  <2>1. \A m \in M8 : \E l \in M7 : \E j \in HashEnds(s, l) : m = Append(l, j)
    OBVIOUS
  <2> HIDE DEF M8
  <2>2. 7 \in 1 .. 7 /\ 7 + 1 = 8 /\ \A l : GroupEnds(s, l, 8) = HashEnds(s, l)
    BY DEF GroupEnds
  <2>3. Continue(s, M7, M8, 7 + 1)
    BY <2>1, <2>2 DEF Continue
  <2>4. \A l \in M8 : Has(s, l, 7 + 1)
    BY <1>7, <2>2, <2>3, HaveNext, Zenon
  <2> QED BY <2>2, <2>4
<1> QED BY <1>0, <1>8, Zenon

-----------------------------------------------------------------------------
(* What the groups of a match are in the text.                             *)

LEMMA GroupsAre ==
  ASSUME NEW C, NEW s \in Seq(C), NEW m, Has(s, m, 8)
  PROVE  /\ m \in Seq(Nat) /\ Len(m) = 8
         /\ m[1] \in ProtocolEnds(s) /\ m[2] \in UsernameEnds(s, m) /\ m[3] \in PasswordEnds(s, m)
         /\ m[4] \in HostnameEnds(s, m) /\ m[5] \in PortEnds(s, m) /\ m[6] \in PathnameEnds(s, m)
         /\ m[7] \in QueryEnds(s, m) /\ m[8] \in HashEnds(s, m)
<1>1. m \in Seq(Nat) /\ Len(m) = 8 /\ \A k \in 1 .. 8 : m[k] \in GroupEnds(s, m, k)
  BY DEF Has
<1>2. /\ m[1] \in GroupEnds(s, m, 1) /\ m[2] \in GroupEnds(s, m, 2) /\ m[3] \in GroupEnds(s, m, 3)
      /\ m[4] \in GroupEnds(s, m, 4) /\ m[5] \in GroupEnds(s, m, 5) /\ m[6] \in GroupEnds(s, m, 6)
      /\ m[7] \in GroupEnds(s, m, 7) /\ m[8] \in GroupEnds(s, m, 8)
  BY <1>1
<1> QED BY <1>1, <1>2 DEF GroupEnds

\* What c introduces, from behind i to j, is not there, or is behind c.
Introduced(s, i, j, c) == j = i \/ (At(s, i, c) /\ j \in i + 2 .. Len(s))

LEMMA PrecededIs ==
  ASSUME NEW C, NEW s \in Seq(C), NEW i \in Nat, NEW j, NEW c, i <= Len(s), Introduced(s, i, j, c)
  PROVE  Preceded(c, SubSeq(s, i + 2, j)) = Between(s, i, j)
<1> DEFINE n == i + 1  t == Between(s, n, j)
<1>0. n \in Nat /\ t = SubSeq(s, i + 2, j) /\ j \in Int
  <2>1. n + 1 = i + 2 /\ n \in Nat
    OBVIOUS
  <2>2. j \in Int
    BY DEF Introduced
  <2> QED BY <2>1, <2>2 DEF Between
<1>1. CASE j = i
  <2>1. t = <<>>
    <3>1. j <= n /\ ~(n <= j)
      BY <1>1
    <3> QED BY <1>0, <3>1, BetweenIs
  <2>2. Between(s, i, j) = <<>>
    BY <1>1, BetweenIs
  <2> QED BY <1>0, <2>1, <2>2, Zenon DEF Preceded
<1>2. CASE At(s, i, c) /\ j \in i + 2 .. Len(s)
  <2>1. n < j /\ n <= j /\ j <= Len(s) /\ j \in Nat /\ i <= n
    BY <1>2
  <2>2. t # <<>>
    BY <1>0, <2>1, BetweenIs
  <2>3. <<c>> = Between(s, i, n)
    BY <1>2, BetweenOne
  <2>4. Between(s, i, n) \o t = Between(s, i, j)
    BY <1>0, <2>1, BetweenJoins, Zenon
  <2> QED BY <1>0, <2>2, <2>3, <2>4, Zenon DEF Preceded
<1> QED BY <1>1, <1>2 DEF Introduced

LEMMA SpanIs ==
  ASSUME NEW C, NEW s \in Seq(C), NEW i \in Nat, NEW Bad, NEW j \in Span(s, i, Bad)
  PROVE  j \in i + 1 .. Len(s) /\ \A k \in i + 1 .. j : s[k] \notin Bad
BY DEF Span

Delims == {"@", ":", "/", "?", "#"}

\* The name of a host, from behind i to j.
IsHost(s, i, j) ==
  \/ \A k \in i + 1 .. j - 1 : s[k] \notin Delims
  \/ i + 3 <= j /\ s[i + 1] = "[" /\ \A k \in i + 2 .. j - 1 : s[k] \in Hex \cup {":", "."}

\* Where the groups of a match end, and what is between them.
Shaped(s, m) ==
  /\ m[1] = 0 \/ (m[1] \in 4 .. Len(s) /\ At(s, m[1] - 3, ":") /\ At(s, m[1] - 2, "/") /\ At(s, m[1] - 1, "/"))
  /\ m[2] \in m[1] .. Len(s)
  /\ m[2] = m[1] => m[3] = m[2]
  /\ m[2] # m[1] => Introduced(s, m[2], m[3], ":") /\ At(s, m[3], "@")
  /\ m[4] \in HostStart(m) + 1 .. Len(s) /\ IsHost(s, HostStart(m), m[4])
  /\ Introduced(s, m[4], m[5], ":")
  /\ m[6] \in m[5] .. Len(s)
  /\ Introduced(s, m[6], m[7], "?") \/ (At(s, m[6], "?") /\ m[7] = m[6] + 1)
  /\ m[8] = Len(s)

LEMMA HasIsShaped ==
  ASSUME NEW C, NEW s \in Seq(C), NEW m, Has(s, m, 8)
  PROVE  Shaped(s, m)
<1>0. /\ m[1] \in Nat /\ m[2] \in Nat /\ m[3] \in Nat /\ m[4] \in Nat
      /\ m[5] \in Nat /\ m[6] \in Nat /\ m[7] \in Nat /\ m[8] \in Nat
  <2>1. m \in Seq(Nat) /\ Len(m) = 8
    BY GroupsAre
  <2>2. \A k \in 1 .. 8 : m[k] \in Nat
    BY <2>1, ElementOfSeq, Zenon
  <2> QED BY <2>2
<1>n. Len(s) \in Nat
  OBVIOUS
<1>1. m[1] = 0 \/ (m[1] \in 4 .. Len(s) /\ At(s, m[1] - 3, ":") /\ At(s, m[1] - 2, "/") /\ At(s, m[1] - 1, "/"))
  <2>1. m[1] \in ProtocolEnds(s)
    BY GroupsAre
  <2>2. SUFFICES ASSUME m[1] # 0
                 PROVE  m[1] \in 4 .. Len(s) /\ At(s, m[1] - 3, ":") /\ At(s, m[1] - 2, "/") /\ At(s, m[1] - 1, "/")
    OBVIOUS
  <2>3. PICK i \in Span(s, 0, {":", "/", "?", "#"}) :
          m[1] = i + 3 /\ At(s, i, ":") /\ At(s, i + 1, "/") /\ At(s, i + 2, "/")
    BY <2>1, <2>2 DEF ProtocolEnds
  <2>4. i \in 0 + 1 .. Len(s)
    BY <2>3, SpanIs
  <2>5. i + 2 < Len(s)
    BY <2>3 DEF At
  <2>6. i = m[1] - 3 /\ i + 1 = m[1] - 2 /\ i + 2 = m[1] - 1
    BY <2>3, <2>4
  <2>7. m[1] \in 4 .. Len(s)
    BY <1>n, <2>3, <2>4, <2>5
  <2> QED BY <2>3, <2>6, <2>7
<1>2. m[1] <= Len(s)
  BY <1>1, <1>n
<1>3. m[2] \in m[1] .. Len(s)
  <2>1. m[2] \in {m[1]} \cup Span(s, m[1], {"@", ":", "/", "?", "#"})
    BY GroupsAre DEF UsernameEnds
  <2>2. CASE m[2] \in Span(s, m[1], {"@", ":", "/", "?", "#"})
    <3>1. m[2] \in m[1] + 1 .. Len(s)
      BY <1>0, <2>2, SpanIs
    <3> QED BY <1>0, <1>n, <3>1
  <2> QED BY <1>0, <1>2, <1>n, <2>1, <2>2
<1>4. m[3] \in PasswordEnds(s, m)
  BY GroupsAre
<1>5. m[2] = m[1] => m[3] = m[2]
  BY <1>4 DEF PasswordEnds
<1>6. ASSUME m[2] # m[1] PROVE Introduced(s, m[2], m[3], ":") /\ At(s, m[3], "@")
  <2>1. At(s, m[3], "@") /\ m[3] \in {m[2]} \cup (IF At(s, m[2], ":") THEN Span(s, m[2] + 1, {"@"}) ELSE {})
    BY <1>4, <1>6, Zenon DEF PasswordEnds
  <2>2. CASE At(s, m[2], ":") /\ m[3] \in Span(s, m[2] + 1, {"@"})
    <3>1. m[3] \in (m[2] + 1) + 1 .. Len(s)
      <4>1. m[2] + 1 \in Nat
        BY <1>0
      <4> QED BY <2>2, <4>1, SpanIs, Zenon
    <3>2. m[3] \in m[2] + 2 .. Len(s)
      BY <1>0, <1>n, <3>1
    <3> QED BY <2>1, <2>2, <3>2, Zenon DEF Introduced
  <2>3. CASE m[3] = m[2]
    BY <2>1, <2>3, Zenon DEF Introduced
  <2> QED BY <2>1, <2>2, <2>3
<1>7. m[4] \in HostStart(m) + 1 .. Len(s) /\ IsHost(s, HostStart(m), m[4])
  <2> DEFINE i == HostStart(m)
  <2>0. i \in Nat
    BY <1>0 DEF HostStart
  <2>1. m[4] \in HostnameEnds(s, m)
    BY GroupsAre
  <2>2. \/ \E k \in Span(s, i, {"@", ":", "/", "?", "#"}) : k < Len(s) /\ m[4] = k + 1
        \/ m[4] \in i + 3 .. Len(s) /\ s[i + 1] = "["
             /\ \A k \in i + 2 .. m[4] - 1 : s[k] \in Hex \cup {":", "."}
    BY <2>1 DEF HostnameEnds
  <2> HIDE DEF i
  <2>3. CASE \E k \in Span(s, i, {"@", ":", "/", "?", "#"}) : k < Len(s) /\ m[4] = k + 1
    <3>1. PICK k \in Span(s, i, {"@", ":", "/", "?", "#"}) : k < Len(s) /\ m[4] = k + 1
      BY <2>3
    <3>2. k \in i + 1 .. Len(s) /\ \A p \in i + 1 .. k : s[p] \notin {"@", ":", "/", "?", "#"}
      BY <2>0, SpanIs
    <3>3. m[4] \in i + 1 .. Len(s) /\ m[4] - 1 = k
      BY <1>n, <2>0, <3>1, <3>2
    <3>4. \A p \in i + 1 .. m[4] - 1 : s[p] \notin Delims
      BY <3>2, <3>3 DEF Delims
    <3> QED BY <3>3, <3>4, Zenon DEF IsHost, i
  <2>4. CASE m[4] \in i + 3 .. Len(s) /\ s[i + 1] = "["
             /\ \A k \in i + 2 .. m[4] - 1 : s[k] \in Hex \cup {":", "."}
    <3>1. m[4] \in i + 1 .. Len(s) /\ i + 3 <= m[4]
      BY <1>n, <2>0, <2>4
    <3> QED BY <2>4, <3>1, Zenon DEF IsHost, i
  <2> QED BY <2>2, <2>3, <2>4
<1>8. Introduced(s, m[4], m[5], ":")
  <2>1. m[5] = m[4] \/ (m[5] \in m[4] + 2 .. m[4] + 6 /\ m[5] <= Len(s) /\ At(s, m[4], ":"))
    BY GroupsAre, Zenon DEF PortEnds
  <2> QED BY <1>0, <1>n, <2>1 DEF Introduced
<1>9. m[5] \in Nat /\ m[5] <= Len(s)
  <2>1. m[4] <= Len(s)
    BY <1>7, <1>0, <1>n DEF HostStart
  <2> QED BY <1>0, <1>8, <1>n, <2>1 DEF Introduced
<1>10. m[6] \in m[5] .. Len(s)
  <2>1. /\ m[6] \in {m[5]} \cup (IF At(s, m[5], "/") THEN {m[5] + 1} \cup Span(s, m[5] + 1, {"?", "#"}) ELSE {})
    BY GroupsAre, Zenon DEF PathnameEnds
  <2>2. At(s, m[5], "/") => m[5] + 1 <= Len(s)
    BY <1>0, <1>n DEF At
  <2>3. CASE m[6] \in Span(s, m[5] + 1, {"?", "#"})
    <3>1. m[5] + 1 \in Nat
      BY <1>0
    <3>2. m[6] \in (m[5] + 1) + 1 .. Len(s)
      BY <2>3, <3>1, SpanIs, Zenon
    <3> QED BY <1>0, <1>n, <3>2
  <2>4. m[6] = m[5] \/ (At(s, m[5], "/") /\ m[6] = m[5] + 1) \/ m[6] \in Span(s, m[5] + 1, {"?", "#"})
    BY <2>1
  <2> QED BY <1>0, <1>9, <1>n, <2>2, <2>3, <2>4
<1>11. Introduced(s, m[6], m[7], "?") \/ (At(s, m[6], "?") /\ m[7] = m[6] + 1)
  <2>1. m[7] \in {m[6]} \cup (IF At(s, m[6], "?") THEN {m[6] + 1} \cup Span(s, m[6] + 1, {"#"}) ELSE {})
    BY GroupsAre, Zenon DEF QueryEnds
  <2>2. m[7] = m[6] \/ (At(s, m[6], "?") /\ m[7] = m[6] + 1)
          \/ (At(s, m[6], "?") /\ m[7] \in Span(s, m[6] + 1, {"#"}))
    BY <2>1
  <2>3. CASE At(s, m[6], "?") /\ m[7] \in Span(s, m[6] + 1, {"#"})
    <3>1. m[6] + 1 \in Nat
      BY <1>0
    <3>2. m[7] \in (m[6] + 1) + 1 .. Len(s)
      BY <2>3, <3>1, SpanIs, Zenon
    <3>3. m[7] \in m[6] + 2 .. Len(s)
      BY <1>0, <1>n, <3>2
    <3> QED BY <2>3, <3>3, Zenon DEF Introduced
  <2> QED BY <2>2, <2>3, Zenon DEF Introduced
<1>12. m[8] = Len(s)
  BY GroupsAre DEF HashEnds
<1> QED BY <1>1, <1>3, <1>5, <1>6, <1>7, <1>8, <1>10, <1>11, <1>12, Zenon DEF Shaped

-----------------------------------------------------------------------------
(* The record is made of the groups.                                       *)

IsRecord(s, m, u) ==
  /\ u.href = s
  /\ u.protocol = SubSeq(s, 1, m[1] - 3)
  /\ u.auth = SubSeq(s, m[1] + 1, m[2]) \o Preceded(":", SubSeq(s, m[2] + 2, m[3]))
  /\ u.host = SubSeq(s, HostStart(m) + 1, m[4]) \o Preceded(":", SubSeq(s, m[4] + 2, m[5]))
  /\ u.path = SubSeq(s, m[5] + 1, m[6]) \o Preceded("?", SubSeq(s, m[6] + 2, m[7]))
  /\ u.hash = SubSeq(s, m[7] + 1, m[8])
  /\ u.hostname = LET raw_name == SubSeq(s, HostStart(m) + 1, m[4])
                  IN  IF raw_name[1] = "[" THEN SubSeq(raw_name, 2, Len(raw_name) - 1) ELSE raw_name

LEMMA ParseIs ==
  ASSUME NEW C, NEW s \in Seq(C), NEW u \in parse(s)
  PROVE  \E m : Shaped(s, m) /\ m \in Seq(Nat) /\ Len(m) = 8 /\ IsRecord(s, m, u)
<1> DEFINE G(m) == [protocol |-> SubSeq(s, 1, m[1] - 3),
                    username |-> SubSeq(s, m[1] + 1, m[2]), password |-> SubSeq(s, m[2] + 2, m[3]),
                    raw_name |-> SubSeq(s, HostStart(m) + 1, m[4]), port |-> SubSeq(s, m[4] + 2, m[5]),
                    pathname |-> SubSeq(s, m[5] + 1, m[6]), query |-> SubSeq(s, m[6] + 2, m[7]),
                    hash |-> SubSeq(s, m[7] + 1, m[8])]
<1>1. PICK m \in Matches(s) : u = URI(s, G(m))
  BY Zenon DEF parse
<1>2. Has(s, m, 8)
  BY MatchHas
<1>3. /\ G(m).protocol = SubSeq(s, 1, m[1] - 3)
      /\ G(m).username = SubSeq(s, m[1] + 1, m[2]) /\ G(m).password = SubSeq(s, m[2] + 2, m[3])
      /\ G(m).raw_name = SubSeq(s, HostStart(m) + 1, m[4]) /\ G(m).port = SubSeq(s, m[4] + 2, m[5])
      /\ G(m).pathname = SubSeq(s, m[5] + 1, m[6]) /\ G(m).query = SubSeq(s, m[6] + 2, m[7])
      /\ G(m).hash = SubSeq(s, m[7] + 1, m[8])
  BY Zenon
<1> DEFINE g == G(m)
<1> HIDE DEF G
<1>4. /\ u.href = s /\ u.protocol = g.protocol
      /\ u.auth = g.username \o Preceded(":", g.password)
      /\ u.host = g.raw_name \o Preceded(":", g.port)
      /\ u.path = g.pathname \o Preceded("?", g.query)
      /\ u.hash = g.hash
      /\ u.hostname = IF g.raw_name[1] = "[" THEN SubSeq(g.raw_name, 2, Len(g.raw_name) - 1) ELSE g.raw_name
  BY <1>1, Zenon DEF URI
<1>5. IsRecord(s, m, u)
  BY <1>3, <1>4, Zenon DEF IsRecord
<1>6. Shaped(s, m) /\ m \in Seq(Nat) /\ Len(m) = 8
  BY <1>2, HasIsShaped, GroupsAre
<1> QED BY <1>5, <1>6

\* The parts of a record, one behind the other, are the text.
Rejoins(u) ==
  LET before == (IF u.protocol = <<>> THEN <<>> ELSE u.protocol \o <<":", "/", "/">>)
                  \o (IF u.auth = <<>> THEN <<>> ELSE Append(u.auth, "@"))
                  \o u.host \o u.path
  IN  /\ u.href \in {before \o u.hash, before \o <<"?">> \o u.hash}
      /\ \A i \in 1 .. Len(u.hostname) - 1 : u.hostname[i] \notin {"/", "?", "#", "@"}

LEMMA ProtocolRejoins ==
  ASSUME NEW C, NEW s \in Seq(C), NEW m, Shaped(s, m), NEW p, p = SubSeq(s, 1, m[1] - 3), m[1] \in Nat
  PROVE  (IF p = <<>> THEN <<>> ELSE p \o <<":", "/", "/">>) = Between(s, 0, m[1])
<1> DEFINE n == m[1]  k == n - 3
<1>1. n = 0 \/ (n \in 4 .. Len(s) /\ At(s, n - 3, ":") /\ At(s, n - 2, "/") /\ At(s, n - 1, "/"))
  BY Zenon DEF Shaped
<1>2. p = Between(s, 0, k) /\ n \in Nat
  BY DEF Between
<1> HIDE DEF n
<1>3. CASE n = 0
  <2>1. k \in Int /\ k <= 0 /\ ~(0 <= k)
    BY <1>3
  <2>2. p = <<>>
    BY <1>2, <2>1, BetweenIs
  <2>3. Between(s, 0, n) = <<>>
    BY <1>3, BetweenIs
  <2> QED BY <2>2, <2>3 DEF n
<1>4. CASE n \in 4 .. Len(s) /\ At(s, n - 3, ":") /\ At(s, n - 2, "/") /\ At(s, n - 1, "/")
  <2>1. k \in Nat /\ 0 < k /\ k <= n /\ n <= Len(s) /\ 0 <= k /\ k <= Len(s)
    BY <1>4
  <2>2. p # <<>>
    BY <1>2, <2>1, BetweenIs
  <2>3. <<":", "/", "/">> = Between(s, k, n)
    <3> DEFINE b == Between(s, k, n)
    <3>1. b \in Seq(C) /\ Len(b) = n - k /\ \A q \in 1 .. Len(b) : b[q] = s[k + q]
      <4> HIDE DEF k
      <4> QED BY <1>2, <2>1, BetweenIs
    <3>2. n - k = 3 /\ k + 1 = n - 3 + 1 /\ k + 2 = n - 2 + 1 /\ k + 3 = n - 1 + 1
      BY <1>2
    <3>3. s[k + 1] = ":" /\ s[k + 2] = "/" /\ s[k + 3] = "/"
      BY <1>4, <3>2 DEF At
    <3> HIDE DEF k, b
    <3>4. b[1] = ":" /\ b[2] = "/" /\ b[3] = "/" /\ Len(b) = 3
      BY <3>1, <3>2, <3>3
    <3>5. b[1] \in C /\ b[2] \in C /\ b[3] \in C
      <4>1. \A q \in 1 .. 3 : b[q] \in C
        BY <3>1, <3>4, ElementOfSeq, Zenon
      <4> QED BY <4>1
    <3> DEFINE t == <<":", "/", "/">>
    <3>6. t \in Seq(C) /\ Len(t) = 3 /\ t[1] = ":" /\ t[2] = "/" /\ t[3] = "/"
      BY <3>4, <3>5
    <3> HIDE DEF t
    <3>7. \A q \in 1 .. 3 : t[q] = b[q]
      BY <3>4, <3>6
    <3>8. t = b
      BY <3>1, <3>4, <3>6, <3>7, SeqEqual, Zenon
    <3> QED BY <3>8 DEF t, b
  <2>4. Between(s, 0, k) \o Between(s, k, n) = Between(s, 0, n)
    BY <1>2, <2>1, BetweenJoins, Zenon
  <2> QED BY <1>2, <2>2, <2>3, <2>4, Zenon DEF n
<1> QED BY <1>1, <1>3, <1>4 DEF n

LEMMA AuthRejoins ==
  ASSUME NEW C, NEW s \in Seq(C), NEW m, Shaped(s, m), \A k \in 1 .. 8 : m[k] \in Nat, m[1] <= Len(s),
         NEW a, a = SubSeq(s, m[1] + 1, m[2]) \o Preceded(":", SubSeq(s, m[2] + 2, m[3]))
  PROVE  /\ (IF a = <<>> THEN <<>> ELSE Append(a, "@")) = Between(s, m[1], HostStart(m))
         /\ HostStart(m) \in m[1] .. Len(s)
<1> DEFINE i == m[1]  j == m[2]  k == m[3]
<1>1. /\ j \in i .. Len(s)
      /\ j = i => k = j
      /\ j # i => Introduced(s, j, k, ":") /\ At(s, k, "@")
  BY Zenon DEF Shaped
<1>2. /\ HostStart(m) = IF j = i THEN i ELSE k + 1
      /\ a = Between(s, i, j) \o Preceded(":", SubSeq(s, j + 2, k))
  BY DEF HostStart, Between
<1>3. i \in Nat /\ j \in Nat /\ k \in Nat /\ Len(s) \in Nat /\ i <= j /\ j <= Len(s) /\ i <= Len(s)
  BY <1>1
<1> HIDE DEF i, j, k
<1>4. CASE j = i
  <2>1. Introduced(s, j, k, ":")
    BY <1>1, <1>4 DEF Introduced
  <2>2. Preceded(":", SubSeq(s, j + 2, k)) = Between(s, i, i) /\ Between(s, i, j) = Between(s, i, i)
    BY <1>1, <1>3, <1>4, <2>1, PrecededIs
  <2>3. Between(s, i, i) = <<>>
    BY <1>3, BetweenIs
  <2>4. a = <<>>
    <3>1. <<>> \o <<>> = <<>>
      OBVIOUS
    <3> QED BY <1>2, <2>2, <2>3, <3>1, Zenon
  <2>5. HostStart(m) = i /\ i \in i .. Len(s)
    BY <1>2, <1>3, <1>4
  <2> QED BY <2>3, <2>4, <2>5, Zenon DEF i
<1>5. CASE j # i
  <2>1. Introduced(s, j, k, ":") /\ At(s, k, "@")
    BY <1>1, <1>5
  <2>2. j <= k /\ k < Len(s) /\ k + 1 \in Nat /\ i < k /\ i <= k + 1 /\ k <= k + 1 /\ k + 1 <= Len(s) /\ i <= k
    BY <1>3, <1>5, <2>1 DEF Introduced, At
  <2>0. k \in Nat /\ j <= k /\ k <= Len(s) /\ i < k /\ i <= k /\ k \in Int
    BY <1>3, <2>2
  <2>3. a = Between(s, i, k)
    <3>1. Preceded(":", SubSeq(s, j + 2, k)) = Between(s, j, k)
      BY <1>3, <2>1, PrecededIs
    <3>2. Between(s, i, j) \o Between(s, j, k) = Between(s, i, k)
      BY <1>3, <2>0, BetweenJoins, Zenon
    <3> QED BY <1>2, <3>1, <3>2, Zenon
  <2>4. a # <<>> /\ a \in Seq(C)
    <3>1. Between(s, i, k) # <<>> /\ Between(s, i, k) \in Seq(C)
      BY <1>3, <2>0, BetweenIs, Zenon
    <3> QED BY <2>3, <3>1, Zenon
  <2>5. Append(a, "@") = Between(s, i, k + 1)
    <3>1. "@" \in C /\ <<"@">> = Between(s, k, k + 1)
      BY <1>3, <2>1, BetweenOne
    <3>2. Append(a, "@") = a \o <<"@">>
      BY <2>4, <3>1, AppendIsConcat, Zenon
    <3>3. Between(s, i, k) \o Between(s, k, k + 1) = Between(s, i, k + 1)
      <4> DEFINE n == k + 1
      <4>1. n \in Nat /\ k <= n /\ n <= Len(s)
        BY <2>2
      <4> HIDE DEF n
      <4> QED BY <1>3, <2>2, <4>1, BetweenJoins, Zenon DEF n
    <3> QED BY <2>3, <3>1, <3>2, <3>3, Zenon
  <2>6. HostStart(m) = k + 1 /\ k + 1 \in i .. Len(s)
    BY <1>2, <1>3, <1>5, <2>2
  <2> QED BY <2>4, <2>5, <2>6, Zenon DEF i
<1> QED BY <1>4, <1>5

LEMMA HostnameIs ==
  ASSUME NEW C, NEW s \in Seq(C), NEW i \in Nat, NEW j \in i + 1 .. Len(s), IsHost(s, i, j),
         NEW h, h = LET raw_name == SubSeq(s, i + 1, j)
                    IN  IF raw_name[1] = "[" THEN SubSeq(raw_name, 2, Len(raw_name) - 1) ELSE raw_name
  PROVE  \A k \in 1 .. Len(h) - 1 : h[k] \notin {"/", "?", "#", "@"}
<1> DEFINE raw_name == Between(s, i, j)
<1>1. h = IF raw_name[1] = "[" THEN SubSeq(raw_name, 2, Len(raw_name) - 1) ELSE raw_name
  BY DEF Between
<1>2. raw_name \in Seq(C) /\ Len(raw_name) = j - i /\ \A k \in 1 .. j - i : raw_name[k] = s[i + k]
  <2>1. j \in Int /\ i <= j /\ j <= Len(s)
    OBVIOUS
  <2> QED BY <2>1, BetweenIs
<1> HIDE DEF raw_name
<1>3. \A c \in Hex \cup {":", "."} : c \notin {"/", "?", "#", "@"}
  BY DEF Hex, Digit
<1>4. \A c : c \notin Delims => c \notin {"/", "?", "#", "@"}
  BY DEF Delims
<1> DEFINE Good(c) == c \notin {"/", "?", "#", "@"}
<1>5. \A k \in 2 .. j - i - 1 : Good(raw_name[k])
  <2> TAKE k \in 2 .. j - i - 1
  <2>1. raw_name[k] = s[i + k] /\ i + k \in i + 2 .. j - 1 /\ i + k \in i + 1 .. j - 1
    BY <1>2
  <2> HIDE DEF Good
  <2>2. CASE \A p \in i + 1 .. j - 1 : s[p] \notin Delims
    BY <1>4, <2>1, <2>2 DEF Good
  <2>3. CASE \A p \in i + 2 .. j - 1 : s[p] \in Hex \cup {":", "."}
    BY <1>3, <2>1, <2>3 DEF Good
  <2> QED BY <2>2, <2>3 DEF IsHost
<1>6. ASSUME raw_name[1] # "[", j - i > 1 PROVE Good(raw_name[1])
  <2>1. raw_name[1] = s[i + 1] /\ i + 1 \in i + 1 .. j - 1
    BY <1>2, <1>6
  <2>2. \A p \in i + 1 .. j - 1 : s[p] \notin Delims
    BY <1>6, <2>1 DEF IsHost
  <2> QED BY <1>4, <2>1, <2>2
<1> HIDE DEF Good
<1>7. CASE raw_name[1] = "["
  <2>1. h = SubSeq(raw_name, 2, j - i - 1)
    BY <1>1, <1>2, <1>7, Zenon
  <2>2. CASE 2 <= j - i - 1
    <3>1. Len(h) = j - i - 2 /\ \A k \in 1 .. j - i - 2 : h[k] = raw_name[k + 1]
      BY <1>2, <2>1, <2>2
    <3> TAKE k \in 1 .. Len(h) - 1
    <3>2. k \in 1 .. j - i - 2 /\ k + 1 \in 2 .. j - i - 1
      <4>1. Len(h) = j - i - 2
        BY <3>1
      <4> QED BY <4>1
    <3>3. h[k] = raw_name[k + 1]
      BY <3>1, <3>2
    <3> QED BY <1>5, <3>2, <3>3 DEF Good
  <2>3. CASE ~(2 <= j - i - 1)
    <3>1. Len(h) = 0
      BY <1>2, <2>1, <2>3
    <3> QED BY <3>1
  <2> QED BY <2>2, <2>3, Zenon
<1>8. CASE raw_name[1] # "["
  <2>1. h = raw_name /\ Len(h) = j - i
    BY <1>1, <1>2, <1>8
  <2> TAKE k \in 1 .. Len(h) - 1
  <2>2. k = 1 \/ k \in 2 .. j - i - 1
    BY <2>1
  <2>3. k = 1 => j - i > 1
    BY <2>1
  <2> QED BY <1>5, <1>6, <1>8, <2>1, <2>2, <2>3 DEF Good
<1> QED BY <1>7, <1>8, Zenon

LEMMA RecordRejoins ==
  ASSUME NEW C, NEW s \in Seq(C), NEW m, Shaped(s, m), m \in Seq(Nat), Len(m) = 8,
         NEW u, IsRecord(s, m, u)
  PROVE  Rejoins(u)
<1> DEFINE b == HostStart(m)  n == Len(s)
<1>1. \A k \in 1 .. 8 : m[k] \in Nat
  BY ElementOfSeq, Zenon
<1>2. /\ m[1] \in Nat /\ m[2] \in Nat /\ m[3] \in Nat /\ m[4] \in Nat
      /\ m[5] \in Nat /\ m[6] \in Nat /\ m[7] \in Nat /\ m[8] \in Nat /\ n \in Nat
  BY <1>1
<1>3. /\ u.href = s
      /\ u.protocol = SubSeq(s, 1, m[1] - 3)
      /\ u.auth = SubSeq(s, m[1] + 1, m[2]) \o Preceded(":", SubSeq(s, m[2] + 2, m[3]))
      /\ u.host = Between(s, b, m[4]) \o Preceded(":", SubSeq(s, m[4] + 2, m[5]))
      /\ u.path = Between(s, m[5], m[6]) \o Preceded("?", SubSeq(s, m[6] + 2, m[7]))
      /\ u.hash = Between(s, m[7], m[8])
  BY Zenon DEF IsRecord, Between
<1>4. m[1] <= n
  BY <1>2 DEF Shaped
<1>5. /\ (IF u.auth = <<>> THEN <<>> ELSE Append(u.auth, "@")) = Between(s, m[1], b)
      /\ b \in m[1] .. n
  BY <1>1, <1>3, <1>4, AuthRejoins, Zenon
<1>6. (IF u.protocol = <<>> THEN <<>> ELSE u.protocol \o <<":", "/", "/">>) = Between(s, 0, m[1])
  <2>1. m[1] \in Nat /\ u.protocol = SubSeq(s, 1, m[1] - 3)
    BY <1>2, <1>3
  <2> QED BY <2>1, ProtocolRejoins, Zenon
<1>7. /\ m[4] \in b + 1 .. n /\ IsHost(s, b, m[4]) /\ Introduced(s, m[4], m[5], ":") /\ m[6] \in m[5] .. n
      /\ Introduced(s, m[6], m[7], "?") \/ (At(s, m[6], "?") /\ m[7] = m[6] + 1)
      /\ m[8] = n
  BY Zenon DEF Shaped
<1> DEFINE i == m[1]  d == m[4]  e == m[5]  f == m[6]  g == m[7]
<1>8. /\ i \in Nat /\ b \in Nat /\ d \in Nat /\ e \in Nat /\ f \in Nat /\ g \in Nat /\ 0 \in Nat /\ n \in Nat
      /\ 0 <= i /\ i <= b /\ b <= d /\ d <= n /\ d <= e /\ e <= n /\ b <= e /\ e <= f /\ f <= n
      /\ f <= g /\ g <= n /\ b <= n /\ 0 <= b /\ 0 <= e /\ i <= n /\ 0 <= f /\ 0 <= g /\ n <= n
  <2>1. d <= e /\ e <= n
    <3>1. d \in Nat /\ e \in Nat /\ d <= n /\ Introduced(s, d, e, ":")
      BY <1>2, <1>5, <1>7
    <3> HIDE DEF d, e
    <3> QED BY <3>1 DEF Introduced
  <2>2. f <= g /\ g <= n
    BY <1>2, <1>7 DEF Introduced, At
  <2> QED BY <1>2, <1>4, <1>5, <1>7, <2>1, <2>2
<1> HIDE DEF b, n, i, d, e, f, g
<1>o. /\ 0 \in 0 .. n /\ i \in 0 .. n /\ b \in 0 .. n /\ d \in 0 .. n /\ e \in 0 .. n /\ f \in 0 .. n
      /\ g \in 0 .. n /\ n \in 0 .. n
      /\ 0 <= i /\ 0 <= b /\ 0 <= e /\ 0 <= f /\ 0 <= g /\ i <= b /\ b <= d /\ b <= e /\ d <= e /\ e <= f
      /\ e <= g /\ f <= g /\ g <= n
  BY <1>8
<1>j. \A p, q, r \in 0 .. n : p <= q /\ q <= r => Between(s, p, q) \o Between(s, q, r) = Between(s, p, r)
  <2> TAKE p, q, r \in 0 .. n
  <2>1. p \in Nat /\ q \in Nat /\ r \in Nat /\ r <= Len(s)
    BY <1>8 DEF n
  <2> HAVE p <= q /\ q <= r
  <2> QED BY <2>1, BetweenJoins, Zenon
<1>9. u.host = Between(s, b, e)
  <2>1. Preceded(":", SubSeq(s, d + 2, e)) = Between(s, d, e)
    BY <1>7, <1>8, PrecededIs DEF n, d, e
  <2>2. Between(s, b, d) \o Between(s, d, e) = Between(s, b, e)
    BY <1>j, <1>o, Zenon
  <2> QED BY <1>3, <2>1, <2>2, Zenon DEF d, e
<1> DEFINE before == (IF u.protocol = <<>> THEN <<>> ELSE u.protocol \o <<":", "/", "/">>)
                       \o (IF u.auth = <<>> THEN <<>> ELSE Append(u.auth, "@"))
                       \o u.host
<1>10. before = Between(s, 0, e)
  <2>1. Between(s, 0, i) \o Between(s, i, b) = Between(s, 0, b)
    BY <1>j, <1>o, Zenon
  <2>2. Between(s, 0, b) \o Between(s, b, e) = Between(s, 0, e)
    BY <1>j, <1>o, Zenon
  <2> QED BY <1>5, <1>6, <1>9, <2>1, <2>2, Zenon DEF i
<1> HIDE DEF before
<1>11. Between(s, 0, n) = s
  <2>1. /\ Between(s, 0, n) \in Seq(C) /\ Len(Between(s, 0, n)) = Len(s)
        /\ \A k \in 1 .. Len(s) : Between(s, 0, n)[k] = s[k]
    BY <1>8, BetweenIs DEF n
  <2> QED BY <2>1, SeqEqual
<1>12. u.href \in {before \o u.path \o u.hash, before \o u.path \o <<"?">> \o u.hash}
  <2>1. u.hash = Between(s, g, n)
    BY <1>3, <1>7 DEF g
  <2>2. Between(s, 0, g) \o Between(s, g, n) = s
    <3>1. Between(s, 0, g) \o Between(s, g, n) = Between(s, 0, n)
      BY <1>j, <1>o, Zenon
    <3> QED BY <1>11, <3>1
  <2>3. CASE Introduced(s, f, g, "?")
    <3>1. Preceded("?", SubSeq(s, f + 2, g)) = Between(s, f, g)
      BY <1>8, <2>3, PrecededIs DEF n
    <3>2. Between(s, e, f) \o Between(s, f, g) = Between(s, e, g)
      BY <1>j, <1>o, Zenon
    <3>3. u.path = Between(s, e, g)
      BY <1>3, <3>1, <3>2 DEF e, f, g
    <3>4. Between(s, 0, e) \o Between(s, e, g) = Between(s, 0, g)
      BY <1>j, <1>o, Zenon
    <3>5. before \o u.path \o u.hash = s
      BY <1>10, <2>1, <2>2, <3>3, <3>4, Zenon
    <3> QED BY <1>3, <3>5, Zenon
  <2>4. CASE At(s, f, "?") /\ g = f + 1
    <3>1. SubSeq(s, f + 2, g) = <<>>
      <4>1. f + 2 > g
        BY <1>8, <2>4
      <4> QED BY <1>8, <4>1
    <3>2. Preceded("?", SubSeq(s, f + 2, g)) = <<>>
      BY <3>1, Zenon DEF Preceded
    <3>3. u.path = Between(s, e, f)
      <4>1. Between(s, e, f) \in Seq(C)
        BY <1>8, BetweenIs DEF n
      <4>2. Between(s, e, f) \o <<>> = Between(s, e, f)
        BY <4>1
      <4> QED BY <1>3, <3>2, <4>2, Zenon DEF e, f, g
    <3>4. Between(s, 0, e) \o Between(s, e, f) = Between(s, 0, f)
      BY <1>j, <1>o, Zenon
    <3>5. <<"?">> = Between(s, f, g)
      BY <1>8, <2>4, BetweenOne
    <3>6. Between(s, 0, f) \o Between(s, f, g) = Between(s, 0, g)
      BY <1>j, <1>o, Zenon
    <3>7. before \o u.path \o <<"?">> \o u.hash = s
      BY <1>10, <2>1, <2>2, <3>3, <3>4, <3>5, <3>6, Zenon
    <3> QED BY <1>3, <3>7, Zenon
  <2> QED BY <1>7, <2>3, <2>4, Zenon DEF f, g
<1>13. \A k \in 1 .. Len(u.hostname) - 1 : u.hostname[k] \notin {"/", "?", "#", "@"}
  <2>1. u.hostname = LET raw_name == SubSeq(s, b + 1, d)
                     IN  IF raw_name[1] = "[" THEN SubSeq(raw_name, 2, Len(raw_name) - 1) ELSE raw_name
    BY Zenon DEF IsRecord, b, d
  <2>2. d \in b + 1 .. Len(s) /\ IsHost(s, b, d)
    BY <1>7, Zenon DEF n, d
  <2> QED BY <1>8, <2>1, <2>2, HostnameIs, Zenon
<1> QED BY <1>12, <1>13, Zenon DEF Rejoins, before

\* The record of any text that is recognized.
LEMMA UriIs ==
  ASSUME NEW C, NEW s \in Seq(C), NEW u \in parse(s)
  PROVE  Rejoins(u)
BY ParseIs, RecordRejoins, Zenon

\* A call of parse has its result.
UriCalls ==
  call.fn = "uri" => \E C : \E s \in Seq(C) : call.result = parse(s)

LEMMA OtherCallsThanUri ==
  ASSUME \/ CallString \/ CallBytes \/ CallPath \/ CallDuration \/ CallInstant \/ CallPlain
         \/ CallHourMinute \/ CallTimeUnit \/ CallStdio \/ CallPipe \/ CallPage
         \/ CallPrint \/ CallGetUtcTime
  PROVE  call'.fn # "uri"
<1>1. CASE CallString
  BY <1>1 DEF CallString, Made
<1>2. CASE CallBytes
  BY <1>2 DEF CallBytes, Made
<1>3. CASE CallPath
  BY <1>3 DEF CallPath, Made
<1>4. CASE CallDuration
  BY <1>4 DEF CallDuration, Made
<1>5. CASE CallInstant
  BY <1>5 DEF CallInstant, Made
<1>6. CASE CallPlain
  BY <1>6 DEF CallPlain, Made
<1>7. CASE CallHourMinute
  BY <1>7 DEF CallHourMinute, Made
<1>8. CASE CallTimeUnit
  <2>1. PICK n \in 0 .. 800, unit \in DOMAIN Seconds \cup {"ms", "other"}, to \in DOMAIN Seconds :
          Made([fn |-> "unit", n |-> n, unit |-> unit, to |-> to, result |-> ParseTimeUnitTo(n, unit, to)])
    BY <1>8, Zenon DEF CallTimeUnit
  <2>2. call' = [fn |-> "unit", n |-> n, unit |-> unit, to |-> to, result |-> ParseTimeUnitTo(n, unit, to)]
    BY <2>1, Zenon DEF Made
  <2> QED BY <2>2
<1>9. CASE CallStdio
  BY <1>9 DEF CallStdio, Made
<1>10. CASE CallPipe
  BY <1>10 DEF CallPipe, Made
<1>11. CASE CallPage
  BY <1>11 DEF CallPage, Made
<1>12. CASE CallPrint
  BY <1>12 DEF CallPrint
<1>13. CASE CallGetUtcTime
  BY <1>13 DEF CallGetUtcTime
<1> QED BY <1>1, <1>2, <1>3, <1>4, <1>5, <1>6, <1>7, <1>8, <1>9, <1>10, <1>11, <1>12, <1>13

\* UriRejoins: whatever the text, the parts of the record that parse makes of it are
\* the text, but for the mark of an empty query, and a name has no delimiter in it (net.cc, parse).
THEOREM UriTheorem == LibrarySpec => []UriRejoins
<1>1. LibraryInit => UriCalls
  BY DEF LibraryInit, NoCall, UriCalls
<1>2. ASSUME UriCalls, [LibraryNext]_LibraryVars PROVE UriCalls'
  <2>1. CASE UNCHANGED LibraryVars
    BY <1>2, <2>1 DEF LibraryVars, UriCalls
  <2>2. CASE CallUri
    <3> DEFINE C == {"a", "1", ":", "/", "?", "#", "@", "[", "]"}
               Befores == {<<>>, <<"a", ":", "/", "/">>, <<"a", "@", "a">>, <<"a", ":", "1", "@", "a", "a">>}
    <3>1. PICK before \in Befores, s \in Texts(C) :
            Made([fn |-> "uri", s |-> before \o s, result |-> parse(before \o s)])
      BY <2>2, Zenon DEF CallUri
    <3>2. before \in Seq(C)
      <4>1. "a" \in C /\ "1" \in C /\ ":" \in C /\ "/" \in C /\ "@" \in C
        OBVIOUS
      <4> HIDE DEF C
      <4>2. <<>> \in Seq(C) /\ <<"a", ":", "/", "/">> \in Seq(C)
        BY <4>1
      <4>3. <<"a", "@", "a">> \in Seq(C) /\ <<"a", ":", "1", "@", "a", "a">> \in Seq(C)
        BY <4>1
      <4> QED BY <3>1, <4>2, <4>3, Zenon
    <3>3. s \in Seq(C)
      <4> HIDE DEF C
      <4>1. PICK n \in 0 .. MaxText : s \in [1 .. n -> C]
        BY DEF Texts
      <4> QED BY <4>1
    <3> HIDE DEF C
    <3>4. before \o s \in Seq(C)
      BY <3>2, <3>3
    <3>5. call'.result = parse(before \o s)
      <4>1. call' = [fn |-> "uri", s |-> before \o s, result |-> parse(before \o s)]
        BY <3>1, Zenon DEF Made
      <4> QED BY <4>1
    <3> QED BY <3>4, <3>5, Zenon DEF UriCalls
  <2>3. CASE \/ CallString \/ CallBytes \/ CallPath \/ CallDuration \/ CallInstant \/ CallPlain
             \/ CallHourMinute \/ CallTimeUnit \/ CallStdio \/ CallPipe \/ CallPage
             \/ CallPrint \/ CallGetUtcTime
    <3>1. call'.fn # "uri"
      BY <2>3, OtherCallsThanUri
    <3> QED BY <3>1 DEF UriCalls
  <2> QED BY <1>2, <2>1, <2>2, <2>3 DEF LibraryNext, CallPure
<1>3. ASSUME UriCalls PROVE UriRejoins
  <2> SUFFICES ASSUME call.fn = "uri", NEW u \in call.result PROVE Rejoins(u)
    BY Zenon DEF UriRejoins, Rejoins
  <2>1. PICK C : \E s \in Seq(C) : call.result = parse(s)
    BY <1>3, Zenon DEF UriCalls
  <2>2. PICK s \in Seq(C) : call.result = parse(s)
    BY <2>1
  <2> QED BY <2>2, UriIs, Zenon
<1> QED BY <1>1, <1>2, <1>3, PTL DEF LibrarySpec
=============================================================================
