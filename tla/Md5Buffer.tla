------------------------------ MODULE Md5Buffer ------------------------------
(***************************************************************************)
(* The buffering of util::hash::MD5 (cxx/src/util/md5.h, md5.cc): update,  *)
(* final and the operators that call them.  A round is modelled by the     *)
(* block it is given; the i-th byte of the message is the number i, so     *)
(* that any loss, repetition or reordering shows.                          *)
(***************************************************************************)
EXTENDS Integers, Sequences, SequencesExt

CONSTANTS
  B,         \* block_size, 64 in the code
  L,         \* size of the length at the end of the last block, 8 in the code
  Width,     \* nbits >> 3 is a number modulo Width, 2^61 in the code
  BUF,       \* BUFSIZ, the size of a read from a stream
  MaxLen     \* bound: the length of the message

ASSUME SizeAssumption ==
  /\ B \in Nat \ {0} /\ L \in 1 .. B - 1
  /\ Width \in Nat \ {0} /\ Width % B = 0
  /\ BUF \in Nat \ {0} /\ MaxLen \in Nat

VARIABLES
  nbytes,    \* nbits >> 3
  input,     \* the block buffer
  rounds,    \* the blocks given to round
  md5_str,   \* md5_str is not empty: final was called
  msg,       \* history: the message
  outcome    \* history: how the last call ended

vars == <<nbytes, input, rounds, md5_str, msg, outcome>>

\* Bytes that are not of the message; the length is L bytes made of one number.
Stale == 0
First == -1                        \* 0x80
Zero  == -2
LengthOf(n) == [j \in 1 .. L |-> -10 - (n * L + j)]

ninput == nbytes % B

\* std::copy_n(bytes, n, buf + at)
CopyTo(buf, at, bytes) ==
  [i \in 1 .. B |-> IF i \in at + 1 .. at + Len(bytes) THEN bytes[i - at] ELSE buf[i]]

BlocksOf(bytes) ==
  [i \in 1 .. Len(bytes) \div B |-> SubSeq(bytes, (i - 1) * B + 1, i * B)]

TypeOK ==
  /\ nbytes \in 0 .. Width - 1
  /\ Len(input) = B /\ \A i \in 1 .. B : input[i] \in Int
  /\ \A r \in ToSet(rounds) : Len(r) = B
  /\ md5_str \in BOOLEAN
  /\ Len(msg) \in 0 .. MaxLen
  /\ outcome \in {"none", "reading", "updated", "finalized", "logic_error"}

Init ==
  /\ nbytes = 0
  /\ input = [i \in 1 .. B |-> Stale]
  /\ rounds = <<>> /\ md5_str = FALSE
  /\ msg = <<>> /\ outcome = "none"

\* update(bytes), in the state st = [nbytes, input, rounds].
Offset(st) == st.nbytes % B

StaysInBlockIfFull(st, bytes) == Offset(st) # 0 /\ Len(bytes) <= B - Offset(st)

\* The bytes do not complete the block that was started.
StaysInBlock(st, bytes) == Offset(st) # 0 /\ Len(bytes) < B - Offset(st)

\* A started block is completed first, if the bytes suffice; then whole blocks
\* are hashed from the buffer; what is left stays in it.
Absorb(st, bytes) ==
  LET head   == IF Offset(st) = 0 THEN 0 ELSE B - Offset(st)
      filled == CopyTo(st.input, Offset(st), SubSeq(bytes, 1, head))
      rest   == SubSeq(bytes, head + 1, Len(bytes))
      done   == (IF head = 0 THEN <<>> ELSE <<filled>>) \o BlocksOf(rest)
      tail   == SubSeq(rest, Len(rest) - (Len(rest) % B) + 1, Len(rest))
      count  == (st.nbytes + Len(bytes)) % Width
  IN  IF StaysInBlock(st, bytes)
      THEN [nbytes |-> count, input |-> CopyTo(st.input, Offset(st), bytes), rounds |-> st.rounds]
      ELSE [nbytes |-> count, input |-> CopyTo(Last(<<st.input>> \o done), 0, tail),
            rounds |-> st.rounds \o done]

State == [nbytes |-> nbytes, input |-> input, rounds |-> rounds]

\* update with the next n bytes of the message.
Feed(n) ==
  LET bytes == [i \in 1 .. n |-> Len(msg) + i]
      st    == Absorb(State, bytes)
  IN  /\ Len(msg) + n <= MaxLen
      /\ nbytes' = st.nbytes /\ input' = st.input /\ rounds' = st.rounds
      /\ msg' = msg \o bytes
      /\ UNCHANGED md5_str

Update(n) == ~md5_str /\ outcome # "reading" /\ Feed(n) /\ outcome' = "updated"

\* One turn of the constructor from a stream: it reads and updates, until a read comes
\* up short, and no other call comes before that.
ReadStream(n) ==
  /\ outcome \in {"none", "reading"} /\ n <= BUF
  /\ Feed(n)
  /\ outcome' = IF n < BUF THEN "updated" ELSE "reading"

\* update after final throws logic_error.
UpdateFinalized ==
  /\ md5_str
  /\ outcome' = "logic_error"
  /\ UNCHANGED <<nbytes, input, rounds, md5_str, msg>>

\* PADDING, from its first byte on.
Padding(n) == [i \in 1 .. n |-> IF i = 1 THEN First ELSE Zero]

PadLenLate == (IF ninput <= B - L THEN B - L ELSE 2 * B - L) - ninput

PadLen == (IF ninput < B - L THEN B - L ELSE 2 * B - L) - ninput

FinalWithoutLength ==
  LET st == Absorb(State, Padding(PadLen))
  IN  /\ ~md5_str /\ outcome # "reading"
      /\ nbytes' = st.nbytes /\ input' = st.input
      /\ rounds' = Append(st.rounds, SubSeq(st.input, 1, B - L))
      /\ md5_str' = TRUE
      /\ outcome' = "finalized"
      /\ UNCHANGED msg

\* final, at the first request of the digest: the length is that before padding.
Final ==
  LET st == Absorb(State, Padding(PadLen))
  IN  /\ ~md5_str /\ outcome # "reading"
      /\ nbytes' = st.nbytes /\ input' = st.input
      /\ rounds' = Append(st.rounds, SubSeq(st.input, 1, B - L) \o LengthOf(nbytes))
      /\ md5_str' = TRUE
      /\ outcome' = "finalized"
      /\ UNCHANGED msg

\* A later request returns the same digest.
Read ==
  /\ md5_str
  /\ outcome' = "finalized"
  /\ UNCHANGED <<nbytes, input, rounds, md5_str, msg>>

Next == (\E n \in 0 .. MaxLen : Update(n) \/ ReadStream(n)) \/ UpdateFinalized \/ Final \/ Read

Spec == Init /\ [][Next]_vars

-----------------------------------------------------------------------------
(* Properties.                                                             *)

\* The message is never lost or reordered across calls of update, however it is
\* cut: it is what was hashed followed by the beginning of the buffer.
BufferHoldsTail ==
  ~md5_str => FlattenSeq(rounds) \o SubSeq(input, 1, ninput) = msg

\* The padding of RFC 1321: 0x80, as few zeros as fill a block up to the length.
Padded(m) ==
  LET zeros == CHOOSE z \in 0 .. B - 1 : (Len(m) + 1 + z + L) % B = 0
  IN  m \o <<First>> \o [i \in 1 .. zeros |-> Zero] \o LengthOf(Len(m) % Width)

\* The digest is that of the padded message, for every way the message is cut
\* into updates and every length, and nothing is hashed after it was given.
Hash == INSTANCE HashSpec WITH Byte <- 1 .. MaxLen, Padded <- Padded,
                               hashed <- IF md5_str THEN FlattenSeq(rounds) ELSE <<>>

ImplementsHash == Hash!Spec

\* The type invariant, and what was given is what was hashed and what the buffer
\* holds (md5.h:37-64).
BufferOK == TypeOK /\ BufferHoldsTail
=============================================================================
