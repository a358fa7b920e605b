------------------------------- MODULE HashSpec -------------------------------
(***************************************************************************)
(* What util::hash::MD5 promises: bytes are appended in any pieces, the    *)
(* hash is a function of all of them, and nothing is appended after it.    *)
(***************************************************************************)
EXTENDS Sequences, SequencesExt

CONSTANTS
  Byte,             \* the bytes of messages
  Padded(_)         \* the padded message whose blocks are hashed

VARIABLES
  msg,      \* what was given so far
  hashed    \* what was hashed to give the digest, <<>> before that

vars == <<msg, hashed>>

Init == msg = <<>> /\ hashed = <<>>

Extend ==
  /\ hashed = <<>>
  /\ msg' \in Seq(Byte) /\ IsPrefix(msg, msg')
  /\ UNCHANGED hashed

Finalize ==
  /\ hashed = <<>>
  /\ hashed' = Padded(msg)
  /\ UNCHANGED msg

Next == Extend \/ Finalize
Spec == Init /\ [][Next]_vars
=============================================================================
