------------------------------- MODULE Firewall -------------------------------
(***************************************************************************)
(* open_tcp_port of cxx/src/util/firewall.cc: several callers look for the *)
(* rule by one iptables command and add it by another, each run by execute *)
(* and wait of util::process.                                              *)
(*                                                                         *)
(* A command may fail for any reason, the lock of another iptables being   *)
(* one, or be killed.  execute may throw in the caller, or, after fork, in *)
(* the child, which then returns from open_tcp_port as a copy of the       *)
(* caller and ends with whatever status it likes.                          *)
(***************************************************************************)
EXTENDS Integers, FiniteSets

CONSTANTS
  Callers,
  MaxOpens,    \* bound: calls of all callers
  MaxFaults    \* bound: commands that fail

ASSUME CallersAssumption == IsFiniteSet(Callers)

VARIABLES
  rules,       \* how many rules for the port the INPUT chain has
  iptables,    \* what the initializer found: "found", or what follows the array
  opening,     \* opening[c]: where the caller is
  status,      \* status[c]: what wait will make of its child
  opened,      \* opened[c]: what its last call returned
  opens, faults,
  copied,      \* history: callers with a call that had a child without a program
  raced        \* history: two calls were under way at once

FirewallVars == <<rules, iptables, opening, status, opened, opens, faults, copied, raced>>

Nothing == "nothing"
Commands == {"-C", "-A"}

FirewallInit ==
  /\ rules = 0
  /\ iptables \in {"found", "null", "garbage"}
  /\ opening = [c \in Callers |-> "out"]
  /\ status = [c \in Callers |-> Nothing] /\ opened = [c \in Callers |-> Nothing]
  /\ opens = 0 /\ faults = 0 /\ copied = {} /\ raced = FALSE

Fault == faults < MaxFaults /\ faults' = faults + 1

\* iptables is null or garbage if neither command was executable when the program
\* started: the end of the array is dereferenced.
Open(c) ==
  /\ opening[c] = "out" /\ opens < MaxOpens /\ opens' = opens + 1
  /\ IF iptables = "null"
     THEN opened' = [opened EXCEPT ![c] = "FALSE"] /\ UNCHANGED opening
     ELSE /\ opening' = [opening EXCEPT ![c] = "-C"]
          /\ opened' = [opened EXCEPT ![c] = Nothing]
  /\ copied' = copied \ {c}
  /\ raced' = (raced \/ \E d \in Callers \ {c} : opening[d] # "out")
  /\ UNCHANGED <<rules, iptables, status, faults>>

Return(c, result) ==
  /\ opening' = [opening EXCEPT ![c] = "out"]
  /\ opened' = [opened EXCEPT ![c] = result]

\* The command is no executable, or there is no room for a process: catch (...).
ExecuteThrows(c) ==
  /\ opening[c] \in Commands /\ status[c] = Nothing
  /\ IF iptables = "garbage" THEN UNCHANGED faults ELSE Fault
  /\ Return(c, "FALSE")
  /\ UNCHANGED <<rules, iptables, status, opens, copied, raced>>

Ends(c, how) == status' = [status EXCEPT ![c] = how]

\* iptables -C
CheckRule(c) ==
  /\ opening[c] = "-C" /\ status[c] = Nothing /\ iptables = "found"
  /\ \/ Ends(c, IF rules > 0 THEN "0" ELSE "1") /\ UNCHANGED faults
     \/ Fault /\ \E how \in {"1", "killed"} : Ends(c, how)
  /\ UNCHANGED <<rules, iptables, opening, opened, opens, copied, raced>>

\* iptables -A; if it is killed it may have added the rule by then.
Add(c) ==
  /\ opening[c] = "-A" /\ status[c] = Nothing /\ iptables = "found"
  /\ \/ Ends(c, "0") /\ rules' = rules + 1 /\ UNCHANGED faults
     \/ Fault /\ Ends(c, "1") /\ UNCHANGED rules
     \/ Fault /\ Ends(c, "killed") /\ rules' \in {rules, rules + 1}
  /\ UNCHANGED <<iptables, opening, opened, opens, copied, raced>>

\* execve throws in the child; the copy returns FALSE, goes on and ends somehow.
Copy(c) ==
  /\ opening[c] \in Commands /\ status[c] = Nothing /\ iptables = "found"
  /\ Fault /\ copied' = copied \cup {c}
  /\ \E how \in {"0", "1", "killed"} : Ends(c, how)
  /\ UNCHANGED <<rules, iptables, opening, opened, opens, raced>>

AfterWaitAddingAnyway(c) ==
  IF opening[c] = "-C" THEN opening' = [opening EXCEPT ![c] = "-A"] /\ UNCHANGED opened
  ELSE Return(c, IF status[c] = "0" THEN "TRUE" ELSE "FALSE")

AfterWaitUnasked(c) ==
  CASE opening[c] = "-C" /\ status[c] = "1" ->
         opening' = [opening EXCEPT ![c] = "-A"] /\ UNCHANGED opened
    [] status[c] = "killed" -> Return(c, "FALSE")
    [] OTHER -> Return(c, "TRUE")

\* wait throws for a child that was killed, and then nothing is added.
AfterWait(c) ==
  CASE opening[c] = "-C" /\ status[c] = "1" ->
         opening' = [opening EXCEPT ![c] = "-A"] /\ UNCHANGED opened
    [] status[c] = "0" -> Return(c, "TRUE")
    [] OTHER -> Return(c, "FALSE")

Wait(c) ==
  /\ status[c] # Nothing
  /\ AfterWait(c) /\ Ends(c, Nothing)
  /\ UNCHANGED <<rules, iptables, opens, faults, copied, raced>>

FirewallNext ==
  \E c \in Callers :
    Open(c) \/ ExecuteThrows(c) \/ CheckRule(c) \/ Add(c) \/ Copy(c) \/ Wait(c)

FirewallSpec == FirewallInit /\ [][FirewallNext]_FirewallVars

-----------------------------------------------------------------------------
(* Properties.                                                             *)

\* A call that returns TRUE leaves the port open, whatever failed, unless the copy of
\* the caller stood in for a command (firewall.cc:26-34).
TrueMeansOpen ==
  \A c \in Callers : opened[c] = "TRUE" => rules > 0 \/ c \in copied

\* One rule is enough, and stays the only one however often the port is opened: only
\* calls that overlap add it again, each caller once, for the check and the addition
\* are two commands; and so does a call whose command failed.
NoDuplicate == rules <= (IF raced THEN Cardinality(Callers) ELSE 1) + faults

\* The two together, for all callers of open_tcp_port (firewall.cc:22-37).
PortOpenOnce == TrueMeansOpen /\ NoDuplicate
=============================================================================
