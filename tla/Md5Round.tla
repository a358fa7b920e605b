------------------------------- MODULE Md5Round -------------------------------
(***************************************************************************)
(* The mixing of util::hash::MD5: one block of 64 bytes into a state of    *)
(* four words. A 32-bit word is a pair of its upper and its lower half.    *)
(***************************************************************************)
LOCAL INSTANCE Naturals
LOCAL INSTANCE Sequences
LOCAL INSTANCE SequencesExt
LOCAL INSTANCE Bitwise

Half == 65536

AddW(x, y) ==
  LET low == x[2] + y[2]
  IN  <<(x[1] + y[1] + low \div Half) % Half, low % Half>>

XorW(x, y) == <<x[1] ^^ y[1], x[2] ^^ y[2]>>
AndW(x, y) == <<x[1] & y[1], x[2] & y[2]>>
OrW(x, y)  == <<x[1] | y[1], x[2] | y[2]>>
NegW(x)    == <<Half - 1 - x[1], Half - 1 - x[2]>>

F(x, y, z) == XorW(AndW(XorW(y, z), x), z)
G(x, y, z) == XorW(AndW(XorW(x, y), z), y)
H(x, y, z) == XorW(XorW(x, y), z)
I(x, y, z) == XorW(OrW(x, NegW(z)), y)

ShiftLeft(x, n) ==
  IF n < 16 THEN <<(x[1] * 2^n + x[2] \div 2^(16 - n)) % Half, x[2] * 2^n % Half>>
            ELSE <<x[2] * 2^(n - 16) % Half, 0>>

ShiftRight(x, n) ==
  IF n >= 16 THEN <<0, x[1] \div 2^(n - 16)>>
             ELSE <<x[1] \div 2^n, (x[1] % 2^n) * 2^(16 - n) + x[2] \div 2^n>>

\* The right shift of the code counts (sizeof(T) >> 3) - n = -n, which C++ leaves
\* undefined. A processor that takes the count modulo 32 shifts by 32 - n
\* ("masked"), an optimiser may drop the shift ("dropped").
rotleft(x, n, shift) ==
  IF shift = "masked" THEN OrW(ShiftLeft(x, n), ShiftRight(x, 32 - n)) ELSE ShiftLeft(x, n)

INIT == << <<\h6745, \h2301>>, <<\hefcd, \hab89>>, <<\h98ba, \hdcfe>>, <<\h1032, \h5476>> >>

\* ac of step k
AC == <<
  <<\hd76a, \ha478>>, <<\he8c7, \hb756>>, <<\h2420, \h70db>>, <<\hc1bd, \hceee>>,
  <<\hf57c, \h0faf>>, <<\h4787, \hc62a>>, <<\ha830, \h4613>>, <<\hfd46, \h9501>>,
  <<\h6980, \h98d8>>, <<\h8b44, \hf7af>>, <<\hffff, \h5bb1>>, <<\h895c, \hd7be>>,
  <<\h6b90, \h1122>>, <<\hfd98, \h7193>>, <<\ha679, \h438e>>, <<\h49b4, \h0821>>,
  <<\hf61e, \h2562>>, <<\hc040, \hb340>>, <<\h265e, \h5a51>>, <<\he9b6, \hc7aa>>,
  <<\hd62f, \h105d>>, <<\h0244, \h1453>>, <<\hd8a1, \he681>>, <<\he7d3, \hfbc8>>,
  <<\h21e1, \hcde6>>, <<\hc337, \h07d6>>, <<\hf4d5, \h0d87>>, <<\h455a, \h14ed>>,
  <<\ha9e3, \he905>>, <<\hfcef, \ha3f8>>, <<\h676f, \h02d9>>, <<\h8d2a, \h4c8a>>,
  <<\hfffa, \h3942>>, <<\h8771, \hf681>>, <<\h6d9d, \h6122>>, <<\hfde5, \h380c>>,
  <<\ha4be, \hea44>>, <<\h4bde, \hcfa9>>, <<\hf6bb, \h4b60>>, <<\hbebf, \hbc70>>,
  <<\h289b, \h7ec6>>, <<\heaa1, \h27fa>>, <<\hd4ef, \h3085>>, <<\h0488, \h1d05>>,
  <<\hd9d4, \hd039>>, <<\he6db, \h99e5>>, <<\h1fa2, \h7cf8>>, <<\hc4ac, \h5665>>,
  <<\hf429, \h2244>>, <<\h432a, \hff97>>, <<\hab94, \h23a7>>, <<\hfc93, \ha039>>,
  <<\h655b, \h59c3>>, <<\h8f0c, \hcc92>>, <<\hffef, \hf47d>>, <<\h8584, \h5dd1>>,
  <<\h6fa8, \h7e4f>>, <<\hfe2c, \he6e0>>, <<\ha301, \h4314>>, <<\h4e08, \h11a1>>,
  <<\hf753, \h7e82>>, <<\hbd3a, \hf235>>, <<\h2ad7, \hd2bb>>, <<\heb86, \hd391>>
>>

\* V11 .. V44
V == << <<7, 12, 17, 22>>, <<5, 9, 14, 20>>, <<4, 11, 16, 23>>, <<6, 10, 15, 21>> >>

Quarter(k) == (k - 1) \div 16 + 1

IndexShifted(k) == (<<1, 5, 3, 7>>[Quarter(k)] * (k - 1) + <<0, 1, 5, 1>>[Quarter(k)]) % 16

\* The word of the block that step k takes.
Index(k) == (<<1, 5, 3, 7>>[Quarter(k)] * (k - 1) + <<0, 1, 5, 0>>[Quarter(k)]) % 16

Mix(k, b, c, d) ==
  CASE Quarter(k) = 1 -> F(b, c, d) [] Quarter(k) = 2 -> G(b, c, d)
    [] Quarter(k) = 3 -> H(b, c, d) [] Quarter(k) = 4 -> I(b, c, d)

\* Step k on the registers in the order it names them; the next step names the
\* last of them first.
Step(r, k, in, shift) ==
  LET sum == AddW(AddW(r[1], Mix(k, r[2], r[3], r[4])), AddW(in[Index(k) + 1], AC[k]))
      new == AddW(rotleft(sum, V[Quarter(k)][((k - 1) % 4) + 1], shift), r[2])
  IN  <<r[4], new, r[2], r[3]>>

round(state, in, shift) ==
  LET mixed == FoldLeft(LAMBDA r, k : Step(r, k, in, shift), state, [k \in 1 .. 64 |-> k])
  IN  [i \in 1 .. 4 |-> AddW(state[i], mixed[i])]

\* Sixteen little-endian words of 64 bytes, and the bytes of four words.
Words(bytes) ==
  [i \in 1 .. 16 |-> <<bytes[4*i] * 256 + bytes[4*i - 1], bytes[4*i - 2] * 256 + bytes[4*i - 3]>>]

Output(state) ==
  FlattenSeq([i \in 1 .. 4 |-> <<state[i][2] % 256, state[i][2] \div 256,
                                 state[i][1] % 256, state[i][1] \div 256>>])
=============================================================================
