--------------------------------- MODULE Stdio ---------------------------------
(***************************************************************************)
(* set_stdio of cxx/src/util/process.cc, which gives a child its standard  *)
(* descriptors, and fexec and pexec of cxx/src/util/pipe.cc, which read    *)
(* the output of a command.                                                *)
(***************************************************************************)
EXTENDS Integers, SequencesExt

CONSTANT MaxFd     \* the highest descriptor
ASSUME MaxFdAssumption == MaxFd \in Nat /\ MaxFd >= 2

Closed == -1

\* A table of descriptors: which file each refers to.
close(fds, n) == [fds EXCEPT ![n] = Closed]

\* dup2 of a descriptor that is not open fails and changes nothing.
dup2(fds, from, to) == IF fds[from] = Closed THEN fds ELSE [fds EXCEPT ![to] = fds[from]]

Replace(fds, arg, n) ==
  IF arg < 0 THEN close(fds, n) ELSE IF arg # n THEN dup2(fds, arg, n) ELSE fds

set_stdioBackwards(fds, stdin, stdout, stderr) ==
  Replace(Replace(Replace(fds, stderr, 2), stdout, 1), stdin, 0)

set_stdio(fds, stdin, stdout, stderr) ==
  Replace(Replace(Replace(fds, stdin, 0), stdout, 1), stderr, 2)

\* fgets with a buffer of n: up to n - 1 characters, no further than a line end.
Piece(s, n) ==
  LET end == SelectInSeq(s, LAMBDA c : c = "\n")
  IN  SubSeq(s, 1, IF end \in 1 .. n - 1 THEN end ELSE Min({n - 1, Len(s)}))

\* Appending a buffer appends what is before its first character 0.
UpToNul(s) ==
  LET nul == SelectInSeq(s, LAMBDA c : c = "NUL")
  IN  IF nul = 0 THEN s ELSE SubSeq(s, 1, nul - 1)

fexecWithoutEnd(out, n) ==
  LET read[i \in 0 .. Len(out)] ==
        LET piece == Piece(SubSeq(out, i + 1, Len(out)), n)
        IN  IF i + Len(piece) = Len(out) THEN <<>> ELSE UpToNul(piece) \o read[i + Len(piece)]
  IN  read[0]

\* With a buffer of 128 fexec, of 256 pexec.
fexec(out, n) ==
  LET read[i \in 0 .. Len(out)] ==
        LET piece == Piece(SubSeq(out, i + 1, Len(out)), n)
        IN  IF i = Len(out) THEN <<>> ELSE UpToNul(piece) \o read[i + Len(piece)]
  IN  read[0]
=============================================================================
