--------------------------------- MODULE Md5 ---------------------------------
(***************************************************************************)
(* util::hash::MD5 whole: the blocks that Md5Buffer gives to round, mixed  *)
(* as Md5Round does. What a build makes of rotleft's undefined shift is    *)
(* chosen once, for the whole program.                                     *)
(***************************************************************************)
EXTENDS Md5Buffer, Md5Round

CONSTANT Builds          \* outcomes of the undefined shift: "masked", "dropped"
ASSUME BuildAssumption == Builds \in SUBSET {"masked", "dropped"}

VARIABLE shift           \* the build's choice

MD5Init == Init /\ shift \in Builds
MD5Next == Next /\ UNCHANGED shift
MD5Spec == MD5Init /\ [][MD5Next]_<<vars, shift>>

\* The bytes of a block of Md5Buffer when the message is text; byte j of a
\* length of n bytes is that of 8 n bits, the lowest first.
Decode(block, text) ==
  LET Length(q) == IF q % L > 2 THEN 0 ELSE ((8 * (q \div L)) \div 256^(q % L)) % 256
  IN  [i \in 1 .. B |-> CASE block[i] > 0      -> text[block[i]]
                          [] block[i] = First  -> 128
                          [] block[i] = Zero   -> 0
                          [] block[i] < Zero   -> Length(-11 - block[i])]

\* output, once final has been called
Digest(text) ==
  Output(FoldLeft(LAMBDA st, block : round(st, Words(Decode(block, text)), shift), INIT, rounds))

-----------------------------------------------------------------------------
\* RFC 1321, A.5: texts and their digests.
From(c, n) == [i \in 1 .. n |-> c + i - 1]
TestSuite == <<
  <<<<>>,
    <<\hd4, \h1d, \h8c, \hd9, \h8f, \h00, \hb2, \h04, \he9, \h80, \h09, \h98, \hec, \hf8, \h42, \h7e>>>>,
  <<<<97>>,
    <<\h0c, \hc1, \h75, \hb9, \hc0, \hf1, \hb6, \ha8, \h31, \hc3, \h99, \he2, \h69, \h77, \h26, \h61>>>>,
  <<From(97, 3),
    <<\h90, \h01, \h50, \h98, \h3c, \hd2, \h4f, \hb0, \hd6, \h96, \h3f, \h7d, \h28, \he1, \h7f, \h72>>>>,
  <<<<109, 101, 115, 115, 97, 103, 101, 32, 100, 105, 103, 101, 115, 116>>,
    <<\hf9, \h6b, \h69, \h7d, \h7c, \hb7, \h93, \h8d, \h52, \h5a, \h2f, \h31, \haa, \hf1, \h61, \hd0>>>>,
  <<From(97, 26),
    <<\hc3, \hfc, \hd3, \hd7, \h61, \h92, \he4, \h00, \h7d, \hfb, \h49, \h6c, \hca, \h67, \he1, \h3b>>>>,
  <<From(65, 26) \o From(97, 26) \o From(48, 10),
    <<\hd1, \h74, \hab, \h98, \hd2, \h77, \hd9, \hf5, \ha5, \h61, \h1c, \h2c, \h9f, \h41, \h9d, \h9f>>>>,
  <<[i \in 1 .. 80 |-> 48 + (i % 10)],
    <<\h57, \hed, \hf4, \ha2, \h2b, \he3, \hc9, \h55, \hac, \h49, \hda, \h2e, \h21, \h07, \hb6, \h7a>>>>
>>

\* The digest is MD5: whatever the pieces the text was given in, the program
\* prints the value of RFC 1321 (operator std::string&, MD5::final, MD5::round).
DigestIsMD5 ==
  md5_str => \A t \in 1 .. Len(TestSuite) :
                Len(msg) = Len(TestSuite[t][1]) => Digest(TestSuite[t][1]) = TestSuite[t][2]
=============================================================================
