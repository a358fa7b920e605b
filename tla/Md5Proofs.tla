------------------------------- MODULE Md5Proofs -------------------------------
(***************************************************************************)
(* The buffering of util::hash::MD5 for every block size, every length and *)
(* every way to cut a message: nothing is lost, repeated or reordered, and *)
(* what is hashed is the padded message.                                   *)
(***************************************************************************)
EXTENDS Md5Buffer, SequenceTheorems, NaturalsInduction, WellFoundedInduction, TLAPS

(* Division.                                                               *)

LEMMA Division ==
  ASSUME NEW d \in Nat \ {0}, NEW n \in Nat
  PROVE  /\ n \div d \in Nat /\ n % d \in 0 .. d - 1
         /\ n = d * (n \div d) + (n % d)
  OBVIOUS

\* Quotient and remainder are those of any sum that has their form.
LEMMA DivisionUnique ==
  ASSUME NEW d \in Nat \ {0}, NEW q \in Nat, NEW r \in 0 .. d - 1
  PROVE  (d * q + r) \div d = q /\ (d * q + r) % d = r
<1> DEFINE n == d * q + r
<1>1. n \in Nat
  OBVIOUS
<1>2. /\ n \div d \in Nat /\ n % d \in 0 .. d - 1
      /\ n = d * (n \div d) + (n % d)
  BY <1>1, Division
<1>3. n \div d = q
  <2>1. CASE n \div d < q
    <3>1. d * (n \div d + 1) <= d * q
      BY <1>2, <2>1
    <3>2. d * (n \div d + 1) = d * (n \div d) + d
      BY <1>2
    <3> QED BY <1>2, <3>1, <3>2
  <2>2. CASE n \div d > q
    <3>1. d * (q + 1) <= d * (n \div d)
      BY <1>2, <2>2
    <3>2. d * (q + 1) = d * q + d
      OBVIOUS
    <3> QED BY <1>2, <3>1, <3>2
  <2> QED BY <1>2, <2>1, <2>2
<1>4. n % d = r
  BY <1>1, <1>2, <1>3
<1> QED BY <1>3, <1>4

LEMMA TimesMonotone ==
  ASSUME NEW a \in Nat, NEW b \in Nat, a <= b
  PROVE  B * a \in Nat /\ B * a <= B * b
  BY SizeAssumption

LEMMA TimesAssociative ==
  ASSUME NEW a \in Nat, NEW b \in Nat, NEW c \in Nat
  PROVE  (a * b) * c = a * (b * c)
  OBVIOUS

\* The count is kept modulo Width, which the blocks divide.
LEMMA CountModB ==
  ASSUME NEW n \in Nat
  PROVE  (n % Width) % B = n % B
<1> DEFINE w == n \div Width  k == Width \div B  m == n % Width
<1>1. w \in Nat /\ m \in Nat /\ n = Width * w + m
  BY Division, SizeAssumption
<1>2. k \in Nat /\ Width = B * k
  BY Division, SizeAssumption
<1>3. m = B * (m \div B) + (m % B) /\ m \div B \in Nat /\ m % B \in 0 .. B - 1
  BY <1>1, Division, SizeAssumption
<1> HIDE DEF w, k, m
<1> DEFINE e == m \div B  q == k * w
<1>4. Width * w = B * q /\ q \in Nat
  BY <1>1, <1>2, TimesAssociative, SizeAssumption
<1> HIDE DEF e, q
<1>5. e \in Nat /\ m = B * e + (m % B)
  BY <1>3 DEF e
<1>6. B * (q + e) = B * q + B * e /\ q + e \in Nat
  BY <1>4, <1>5, SizeAssumption
<1>7. n = B * (q + e) + (m % B)
  BY <1>1, <1>3, <1>4, <1>5, <1>6, SizeAssumption
<1>8. n % B = m % B
  BY <1>3, <1>6, <1>7, DivisionUnique, SizeAssumption
<1> QED BY <1>8 DEF m

LEMMA CountAdds ==
  ASSUME NEW m \in Nat, NEW n \in Nat
  PROVE  ((m % Width) + n) % Width = (m + n) % Width
<1> DEFINE r == m % Width  q == m \div Width  s == (r + n) % Width  p == (r + n) \div Width
<1>1. r \in Nat /\ q \in Nat /\ m = Width * q + r
  BY Division, SizeAssumption
<1>6. r + n \in Nat
  BY <1>1
<1>2. s \in 0 .. Width - 1 /\ p \in Nat /\ r + n = Width * p + s
  BY <1>6, Division, SizeAssumption
<1> HIDE DEF r, q, s, p
<1>3. q + p \in Nat /\ Width * (q + p) = Width * q + Width * p
  BY <1>1, <1>2, SizeAssumption
<1>4. m + n = Width * (q + p) + s
  BY <1>1, <1>2, <1>3, SizeAssumption
<1>5. (m + n) % Width = s
  BY <1>2, <1>3, <1>4, DivisionUnique, SizeAssumption
<1> QED BY <1>5 DEF r, s

-----------------------------------------------------------------------------
(* Blocks.                                                                 *)

Block == [1 .. B -> Int]

LEMMA FunctionIsSeq ==
  ASSUME NEW S, NEW n \in Nat, NEW f \in [1 .. n -> S]
  PROVE  f \in Seq(S) /\ Len(f) = n
  BY SeqDef

LEMMA BlockIsSeq ==
  ASSUME NEW b \in Block
  PROVE  b \in Seq(Int) /\ Len(b) = B
  BY FunctionIsSeq, SizeAssumption DEF Block

LEMMA CopyToFacts ==
  ASSUME NEW buf \in Block, NEW at \in 0 .. B, NEW bytes \in Seq(Int), at + Len(bytes) <= B
  PROVE  /\ CopyTo(buf, at, bytes) \in Block
         /\ \A i \in 1 .. B : CopyTo(buf, at, bytes)[i] =
                             IF i \in at + 1 .. at + Len(bytes) THEN bytes[i - at] ELSE buf[i]
<1>1. Len(bytes) \in Nat
  BY LenProperties
<1>2. \A i \in at + 1 .. at + Len(bytes) : bytes[i - at] \in Int
  BY <1>1, ElementOfSeq
<1> QED BY <1>1, <1>2 DEF CopyTo, Block

LEMMA BlocksOfFacts ==
  ASSUME NEW bytes \in Seq(Int)
  PROVE  /\ BlocksOf(bytes) \in Seq(Block)
         /\ Len(BlocksOf(bytes)) = Len(bytes) \div B /\ Len(bytes) \div B \in Nat
         /\ \A i \in 1 .. Len(bytes) \div B, j \in 1 .. B :
              BlocksOf(bytes)[i][j] = bytes[B * (i - 1) + j]
<1> DEFINE n == Len(bytes) \div B
<1>0. Len(bytes) \in Nat
  BY LenProperties
<1> DEFINE r == Len(bytes) % B
<1>6. n \in Nat /\ r \in 0 .. B - 1 /\ Len(bytes) = B * n + r
  BY <1>0, Division, SizeAssumption
<1> HIDE DEF r, n
<1>1. n \in Nat /\ B * n <= Len(bytes)
  BY <1>6, SizeAssumption
<1> HIDE DEF n
<1>2. ASSUME NEW i \in 1 .. n
      PROVE  /\ SubSeq(bytes, (i - 1) * B + 1, i * B) \in Block
             /\ \A j \in 1 .. B : SubSeq(bytes, (i - 1) * B + 1, i * B)[j] = bytes[B * (i - 1) + j]
  <2> DEFINE lo == B * (i - 1)
  <2>1. (i - 1) * B = lo /\ i * B = lo + B /\ lo \in Nat
    BY SizeAssumption
  <2>2. B * i <= B * n
    BY <1>1, SizeAssumption
  <2>3. lo + B <= Len(bytes)
    BY <1>0, <1>1, <2>1, <2>2, SizeAssumption
  <2> HIDE DEF lo
  <2>4. \A j \in lo + 1 .. lo + B : bytes[j] \in Int
    BY <1>0, <2>1, <2>3, ElementOfSeq, SizeAssumption
  <2>5. /\ SubSeq(bytes, lo + 1, lo + B) \in Seq(Int)
        /\ Len(SubSeq(bytes, lo + 1, lo + B)) = B
        /\ \A j \in 1 .. B : SubSeq(bytes, lo + 1, lo + B)[j] = bytes[lo + j]
    BY <2>1, <2>4, SubSeqProperties, SizeAssumption
  <2>6. SubSeq(bytes, lo + 1, lo + B) \in Block
    BY <2>5, LenProperties DEF Block
  <2> QED BY <2>1, <2>5, <2>6 DEF lo
<1>3. BlocksOf(bytes) \in [1 .. n -> Block]
  BY <1>2 DEF BlocksOf, n
<1>4. BlocksOf(bytes) \in Seq(Block) /\ Len(BlocksOf(bytes)) = n
  BY <1>1, <1>3, FunctionIsSeq
<1>5. \A i \in 1 .. n, j \in 1 .. B : BlocksOf(bytes)[i][j] = bytes[B * (i - 1) + j]
  BY <1>2 DEF BlocksOf, n
<1> QED BY <1>1, <1>4, <1>5 DEF n

-----------------------------------------------------------------------------
(* update.                                                                 *)

\* The state of an object that was given m: the count, the whole blocks, and the rest in
\* the buffer.
Holds(st, m) ==
  /\ m \in Seq(Int) /\ st.input \in Block /\ st.rounds \in Seq(Block)
  /\ st.nbytes = Len(m) % Width
  /\ Len(st.rounds) = Len(m) \div B
  /\ \A i \in 1 .. Len(m) \div B, j \in 1 .. B : st.rounds[i][j] = m[B * (i - 1) + j]
  /\ \A j \in 1 .. Len(m) % B : st.input[j] = m[B * (Len(m) \div B) + j]

LEMMA AbsorbStays ==
  ASSUME NEW st, NEW m, Holds(st, m), NEW bytes \in Seq(Int), StaysInBlock(st, bytes)
  PROVE  Holds(Absorb(st, bytes), m \o bytes)
<1> DEFINE k == Len(m) \div B  off == Len(m) % B  M == m \o bytes
           filled == CopyTo(st.input, off, bytes)
<1>0. Len(m) \in Nat /\ Len(bytes) \in Nat
  BY LenProperties DEF Holds
<1>1. k \in Nat /\ off \in 0 .. B - 1 /\ Len(m) = B * k + off
  BY <1>0, Division, SizeAssumption
<1>2. Offset(st) = off
  BY <1>0, CountModB DEF Holds, Offset
<1>3. off + Len(bytes) \in 0 .. B - 1
  BY <1>0, <1>1, <1>2, SizeAssumption DEF StaysInBlock
<1>4. /\ M \in Seq(Int) /\ Len(M) = Len(m) + Len(bytes)
      /\ \A i \in 1 .. Len(m) : M[i] = m[i]
      /\ \A i \in 1 .. Len(bytes) : M[Len(m) + i] = bytes[i]
  BY <1>0, ConcatProperties DEF Holds
<1>5. Absorb(st, bytes) = [nbytes |-> (st.nbytes + Len(bytes)) % Width, input |-> filled,
                           rounds |-> st.rounds]
  BY <1>2 DEF Absorb
<1>6. (st.nbytes + Len(bytes)) % Width = Len(M) % Width
  BY <1>0, <1>4, CountAdds DEF Holds
<1> HIDE DEF M, k, off
<1>7. Len(M) = B * k + (off + Len(bytes))
  BY <1>0, <1>1, <1>4, SizeAssumption
<1>8. Len(M) \div B = k /\ Len(M) % B = off + Len(bytes)
  BY <1>1, <1>3, <1>7, DivisionUnique, SizeAssumption
<1>9. /\ filled \in Block
      /\ \A i \in 1 .. B : filled[i] = IF i \in off + 1 .. off + Len(bytes) THEN bytes[i - off]
                                     ELSE st.input[i]
  BY <1>1, <1>3, CopyToFacts, SizeAssumption DEF Holds
<1> HIDE DEF filled
<1>10. \A j \in 1 .. off + Len(bytes) : filled[j] = M[B * k + j]
  <2> SUFFICES ASSUME NEW j \in 1 .. off + Len(bytes) PROVE filled[j] = M[B * k + j]
    OBVIOUS
  <2>0. B * k \in Nat /\ j \in 1 .. B
    BY <1>1, <1>3, SizeAssumption
  <2>1. CASE j <= off
    <3>1. filled[j] = st.input[j] /\ st.input[j] = m[B * k + j]
      BY <1>0, <1>1, <1>9, <2>0, <2>1 DEF Holds, k, off
    <3>2. B * k + j \in 1 .. Len(m)
      BY <1>1, <2>0, <2>1
    <3> QED BY <1>4, <3>1, <3>2
  <2>2. CASE j > off
    <3>1. j - off \in 1 .. Len(bytes) /\ B * k + j = Len(m) + (j - off)
      BY <1>0, <1>1, <2>0, <2>2
    <3>2. filled[j] = bytes[j - off]
      BY <1>0, <1>1, <1>9, <2>0, <2>2
    <3> QED BY <1>4, <3>1, <3>2
  <2> QED BY <1>1, <2>0, <2>1, <2>2
<1>11. \A i \in 1 .. k, j \in 1 .. B : st.rounds[i][j] = M[B * (i - 1) + j]
  <2> SUFFICES ASSUME NEW i \in 1 .. k, NEW j \in 1 .. B
               PROVE  st.rounds[i][j] = M[B * (i - 1) + j]
    OBVIOUS
  <2>1. st.rounds[i][j] = m[B * (i - 1) + j]
    BY DEF Holds, k
  <2>2. B * (i - 1) \in Nat /\ B * (i - 1) + B = B * i /\ B * i <= B * k
    BY <1>1, SizeAssumption
  <2>3. B * (i - 1) + j \in 1 .. Len(m)
    BY <1>1, <2>2, SizeAssumption
  <2> QED BY <1>4, <2>1, <2>3
<1> DEFINE new == Absorb(st, bytes)
<1>12. new.nbytes = Len(M) % Width /\ new.input = filled /\ new.rounds = st.rounds
  BY <1>5, <1>6
<1> HIDE DEF new
<1>13. new.rounds \in Seq(Block) /\ Len(new.rounds) = Len(M) \div B
  BY <1>8, <1>12 DEF Holds, k
<1>14. Holds(new, M)
  BY <1>4, <1>8, <1>9, <1>10, <1>11, <1>12, <1>13 DEF Holds
<1> QED BY <1>14 DEF M, new

LEMMA AbsorbFills ==
  ASSUME NEW st, NEW m, Holds(st, m), NEW bytes \in Seq(Int), ~StaysInBlock(st, bytes)
  PROVE  Holds(Absorb(st, bytes), m \o bytes)
<1> DEFINE k == Len(m) \div B  off == Len(m) % B  M == m \o bytes  n == Len(bytes)
           head   == IF off = 0 THEN 0 ELSE B - off
           p      == IF off = 0 THEN 0 ELSE 1
           filled == CopyTo(st.input, off, SubSeq(bytes, 1, head))
           rest   == SubSeq(bytes, head + 1, n)
           q == Len(rest) \div B  r == Len(rest) % B
           prefix == IF head = 0 THEN <<>> ELSE <<filled>>
           done   == prefix \o BlocksOf(rest)
           tail   == SubSeq(rest, Len(rest) - r + 1, Len(rest))
           last   == Last(<<st.input>> \o done)
<1>0. Len(m) \in Nat /\ n \in Nat
  BY LenProperties DEF Holds
<1>1. k \in Nat /\ off \in 0 .. B - 1 /\ Len(m) = B * k + off
  BY <1>0, Division, SizeAssumption
<1>2. Offset(st) = off
  BY <1>0, CountModB DEF Holds, Offset
<1>3. Absorb(st, bytes) = [nbytes |-> (st.nbytes + n) % Width, input |-> CopyTo(last, 0, tail),
                           rounds |-> st.rounds \o done]
  BY <1>2 DEF Absorb
<1>4. off = 0 \/ n >= B - off
  BY <1>0, <1>1, <1>2, SizeAssumption DEF StaysInBlock
<1>5. /\ M \in Seq(Int) /\ Len(M) = Len(m) + n
      /\ \A i \in 1 .. Len(m) : M[i] = m[i]
      /\ \A i \in 1 .. n : M[Len(m) + i] = bytes[i]
  BY <1>0, ConcatProperties DEF Holds
<1>6. (st.nbytes + n) % Width = Len(M) % Width
  BY <1>0, <1>5, CountAdds DEF Holds
<1> HIDE DEF M, k, off
<1>7. /\ head \in 0 .. n /\ p \in {0, 1} /\ head \in 0 .. B - 1
      /\ p = 0 => head = 0 /\ off = 0
      /\ p = 1 => head = B - off /\ head # 0
  BY <1>0, <1>1, <1>4, SizeAssumption
<1>8. k + p \in Nat /\ B * (k + p) \in Nat /\ Len(m) + head = B * (k + p)
  BY <1>0, <1>1, <1>7, SizeAssumption
<1> HIDE DEF n, head, p
<1>9. rest \in Seq(Int) /\ Len(rest) = n - head /\ \A i \in 1 .. n - head : rest[i] = bytes[head + i]
  <2>1. \A i \in head + 1 .. n : bytes[i] \in Int
    BY <1>0, <1>7, ElementOfSeq DEF n
  <2>2. /\ rest \in Seq(Int) /\ Len(rest) = IF head + 1 <= n THEN n - (head + 1) + 1 ELSE 0
        /\ \A i \in 1 .. n - (head + 1) + 1 : rest[i] = bytes[head + 1 + i - 1]
    BY <1>0, <1>7, <2>1, SubSeqProperties
  <2> HIDE DEF rest
  <2>3. Len(rest) = n - head /\ n - (head + 1) + 1 = n - head
    BY <1>0, <1>7, <2>2
  <2>4. \A i \in 1 .. n - head : head + 1 + i - 1 = head + i
    BY <1>0, <1>7
  <2> QED BY <2>2, <2>3, <2>4
<1>10. /\ SubSeq(bytes, 1, head) \in Seq(Int) /\ Len(SubSeq(bytes, 1, head)) = head
       /\ \A i \in 1 .. head : SubSeq(bytes, 1, head)[i] = bytes[i]
  <2>1. \A i \in 1 .. head : bytes[i] \in Int
    BY <1>0, <1>7, ElementOfSeq DEF n
  <2> QED BY <1>0, <1>7, <2>1, SubSeqProperties
<1>11. Len(rest) \in Nat /\ q \in Nat /\ r \in 0 .. B - 1 /\ n - head = B * q + r
  <2>1. Len(rest) \in Nat
    BY <1>0, <1>7, <1>9
  <2> QED BY <1>9, <2>1, Division, SizeAssumption
<1>12. /\ tail \in Seq(Int) /\ Len(tail) = r
       /\ \A j \in 1 .. r : tail[j] = rest[B * q + j] /\ B * q + j \in 1 .. n - head
  <2> HIDE DEF rest, r, q
  <2>1. B * q \in Nat /\ Len(rest) - r = B * q
    BY <1>9, <1>11, SizeAssumption
  <2>2. \A i \in B * q + 1 .. Len(rest) : rest[i] \in Int
    BY <1>9, <1>11, <2>1, ElementOfSeq
  <2>3. tail = SubSeq(rest, B * q + 1, Len(rest))
    BY <2>1 DEF tail
  <2> DEFINE lo == B * q
  <2>4. lo \in Nat /\ Len(rest) = lo + r
    BY <1>9, <1>11, <2>1
  <2> HIDE DEF lo
  <2>5. \A i \in lo + 1 .. lo + r : rest[i] \in Int
    BY <2>2, <2>4 DEF lo
  <2>6. tail = SubSeq(rest, lo + 1, lo + r)
    BY <2>3, <2>4 DEF lo
  <2> HIDE DEF tail
  <2>7. /\ tail \in Seq(Int) /\ Len(tail) = IF lo + 1 <= lo + r THEN lo + r - (lo + 1) + 1 ELSE 0
        /\ \A j \in 1 .. lo + r - (lo + 1) + 1 : tail[j] = rest[lo + 1 + j - 1]
    BY <1>11, <2>4, <2>5, <2>6, SubSeqProperties, SizeAssumption
  <2>8. lo + r - (lo + 1) + 1 = r /\ Len(tail) = r /\ \A j \in 1 .. r : lo + 1 + j - 1 = lo + j
    BY <1>11, <2>4, <2>7, SizeAssumption
  <2>9. \A j \in 1 .. r : lo + j \in 1 .. n - head
    BY <1>9, <1>11, <2>4, SizeAssumption
  <2> QED BY <2>7, <2>8, <2>9 DEF lo
<1> HIDE DEF tail
<1>13. filled \in Block /\ (p = 1 => \A j \in 1 .. B : filled[j] = M[B * k + j])
  <2>0. off \in 0 .. B /\ off + head <= B /\ B * k \in Nat
    BY <1>1, <1>7, SizeAssumption
  <2>1. /\ filled \in Block
        /\ \A j \in 1 .. B : filled[j] = IF j \in off + 1 .. off + head
                                       THEN SubSeq(bytes, 1, head)[j - off] ELSE st.input[j]
    <3> DEFINE pre == SubSeq(bytes, 1, head)
    <3>1. pre \in Seq(Int) /\ Len(pre) = head
      BY <1>10
    <3> HIDE DEF pre
    <3>2. /\ CopyTo(st.input, off, pre) \in Block
          /\ \A j \in 1 .. B : CopyTo(st.input, off, pre)[j] =
                IF j \in off + 1 .. off + Len(pre) THEN pre[j - off] ELSE st.input[j]
      BY <2>0, <3>1, CopyToFacts DEF Holds
    <3> QED BY <3>1, <3>2 DEF pre
  <2> HIDE DEF filled
  <2>2. ASSUME p = 1, NEW j \in 1 .. B PROVE filled[j] = M[B * k + j]
    <3>1. CASE j <= off
      <4>1. filled[j] = st.input[j] /\ st.input[j] = m[B * k + j]
        BY <1>0, <1>1, <2>0, <2>1, <3>1 DEF Holds, k, off
      <4>2. B * k + j \in 1 .. Len(m)
        BY <1>1, <2>0, <3>1
      <4> QED BY <1>5, <4>1, <4>2
    <3>2. CASE j > off
      <4>1. j - off \in 1 .. head /\ B * k + j = Len(m) + (j - off) /\ j - off \in 1 .. n
        BY <1>0, <1>1, <1>7, <2>0, <2>2, <3>2, SizeAssumption
      <4>2. filled[j] = bytes[j - off]
        BY <1>0, <1>1, <1>10, <2>0, <2>1, <3>2, <4>1, SizeAssumption
      <4> QED BY <1>5, <4>1, <4>2
    <3> QED BY <1>1, <2>0, <3>1, <3>2
  <2> QED BY <2>1, <2>2
<1> HIDE DEF filled
<1>14. prefix \in Seq(Block) /\ Len(prefix) = p /\ (p = 1 => prefix[1] = filled)
  BY <1>7, <1>13
<1>15. /\ BlocksOf(rest) \in Seq(Block) /\ Len(BlocksOf(rest)) = q
       /\ \A i \in 1 .. q, j \in 1 .. B : BlocksOf(rest)[i][j] = rest[B * (i - 1) + j]
  BY <1>9, BlocksOfFacts
<1> HIDE DEF prefix, rest, q, r
<1>16. /\ done \in Seq(Block) /\ Len(done) = p + q
       /\ \A i \in 1 .. p : done[i] = prefix[i]
       /\ \A i \in 1 .. q : done[p + i] = BlocksOf(rest)[i]
  <2>1. \A i \in 1 .. p + q : done[i] = IF i <= p THEN prefix[i] ELSE BlocksOf(rest)[i - p]
    BY <1>14, <1>15, ConcatProperties
  <2>2. done \in Seq(Block) /\ Len(done) = p + q
    BY <1>14, <1>15, ConcatProperties
  <2> HIDE DEF done
  <2> QED BY <1>7, <1>11, <2>1, <2>2
<1> HIDE DEF done
<1>17. \A i \in 1 .. p + q, j \in 1 .. B : done[i][j] = M[B * (k + i - 1) + j]
  <2> SUFFICES ASSUME NEW i \in 1 .. p + q, NEW j \in 1 .. B
               PROVE  done[i][j] = M[B * (k + i - 1) + j]
    OBVIOUS
  <2>1. CASE i <= p
    <3>1. i = 1 /\ p = 1
      BY <1>7, <1>11, <2>1
    <3>2. done[i] = filled /\ k + i - 1 = k
      BY <1>1, <1>14, <1>16, <3>1
    <3> QED BY <1>13, <3>1, <3>2
  <2>2. CASE i > p
    <3> DEFINE e == i - p
    <3>1. e \in 1 .. q /\ i = p + e /\ e - 1 \in Nat
      BY <1>7, <1>11, <2>2
    <3> HIDE DEF e
    <3>2. done[i][j] = rest[B * (e - 1) + j]
      BY <1>15, <1>16, <3>1
    <3> DEFINE x == B * (e - 1) + j
    <3>3. B * (e - 1) \in Nat /\ B * (e - 1) + B = B * e /\ B * e <= B * q
      BY <1>11, <3>1, SizeAssumption
    <3>4. x \in 1 .. n - head /\ head + x \in 1 .. n
      BY <1>0, <1>7, <1>11, <3>3, SizeAssumption
    <3>5. rest[x] = M[Len(m) + (head + x)]
      <4> HIDE DEF x
      <4> QED BY <1>5, <1>9, <3>4 DEF n
    <3>6. B * (k + i - 1) = B * (k + p) + B * (e - 1)
      <4>1. k + i - 1 = (k + p) + (e - 1)
        BY <1>1, <1>7, <3>1
      <4> QED BY <1>8, <3>1, <4>1, SizeAssumption
    <3>7. Len(m) + (head + x) = B * (k + i - 1) + j
      <4> DEFINE a == B * (k + p)  b == B * (e - 1)  c == B * (k + i - 1)
      <4>1. Len(m) + head = a /\ a \in Nat /\ b \in Nat /\ c = a + b
        BY <1>8, <3>3, <3>6
      <4> HIDE DEF a, b, c
      <4>2. Len(m) + (head + (b + j)) = c + j
        BY <1>0, <1>7, <4>1, SizeAssumption
      <4> QED BY <4>2 DEF b, c
    <3> QED BY <3>2, <3>5, <3>7
  <2> QED BY <1>7, <1>11, <2>1, <2>2
<1>18. Len(M) \div B = k + p + q /\ Len(M) % B = r
  <2>1. B * (k + p + q) = B * (k + p) + B * q
    BY <1>8, <1>11, SizeAssumption
  <2>2. k + p + q \in Nat /\ Len(M) = B * (k + p + q) + r
    <3> DEFINE a == B * (k + p)  b == B * q  c == B * (k + p + q)
    <3>1. Len(m) + head = a /\ a \in Nat /\ b \in Int /\ c = a + b /\ n - head = b + r
      BY <1>8, <1>11, <2>1, SizeAssumption
    <3>3. r \in Int /\ head \in Int
      BY <1>0, <1>7, <1>11, SizeAssumption
    <3> HIDE DEF a, b, c
    <3>2. Len(M) = c + r
      BY <1>0, <1>5, <3>1, <3>3
    <3> QED BY <1>8, <1>11, <3>2 DEF c
  <2> QED BY <1>11, <2>2, DivisionUnique, SizeAssumption
<1>19. last \in Block
  <2>1. /\ <<st.input>> \in Seq(Block) /\ Len(<<st.input>>) = 1
    BY DEF Holds
  <2> DEFINE all == <<st.input>> \o done
  <2>2. all \in Seq(Block) /\ Len(all) = 1 + (p + q)
    BY <1>16, <2>1, ConcatProperties
  <2> HIDE DEF all
  <2>3. Len(all) \in 1 .. Len(all)
    BY <1>7, <1>11, <2>2
  <2> QED BY <2>2, <2>3, ElementOfSeq DEF Last, all
<1> HIDE DEF last
<1> DEFINE buffer == CopyTo(last, 0, tail)
<1>20. buffer \in Block /\ \A j \in 1 .. r : buffer[j] = M[B * (k + p + q) + j]
  <2>1. 0 \in 0 .. B /\ 0 + Len(tail) <= B
    BY <1>11, <1>12, SizeAssumption
  <2>2. /\ buffer \in Block
        /\ \A j \in 1 .. B : buffer[j] = IF j \in 1 .. r THEN tail[j] ELSE last[j]
    <3>1. /\ buffer \in Block
          /\ \A j \in 1 .. B : buffer[j] = IF j \in 0 + 1 .. 0 + Len(tail) THEN tail[j - 0] ELSE last[j]
      BY <1>12, <1>19, <2>1, CopyToFacts
    <3> HIDE DEF buffer
    <3> QED BY <1>11, <1>12, <3>1, SizeAssumption
  <2> HIDE DEF buffer
  <2>3. ASSUME NEW j \in 1 .. r PROVE buffer[j] = M[B * (k + p + q) + j]
    <3> DEFINE x == B * q + j
    <3>1. x \in 1 .. n - head /\ buffer[j] = rest[x]
      BY <1>11, <1>12, <2>2, SizeAssumption
    <3>2. head + x \in 1 .. n
      BY <1>0, <1>7, <3>1
    <3>3. rest[x] = M[Len(m) + (head + x)]
      <4> HIDE DEF x
      <4> QED BY <1>5, <1>9, <3>1, <3>2 DEF n
    <3>4. B * (k + p + q) = B * (k + p) + B * q /\ B * q \in Nat
      BY <1>8, <1>11, SizeAssumption
    <3>5. Len(m) + (head + x) = B * (k + p + q) + j
      BY <1>0, <1>7, <1>8, <3>4, SizeAssumption
    <3> QED BY <3>1, <3>3, <3>5
  <2> QED BY <2>2, <2>3
<1> HIDE DEF buffer
<1>21. /\ st.rounds \o done \in Seq(Block) /\ Len(st.rounds \o done) = k + p + q
       /\ \A i \in 1 .. k + p + q, j \in 1 .. B : (st.rounds \o done)[i][j] = M[B * (i - 1) + j]
  <2>1. st.rounds \in Seq(Block) /\ Len(st.rounds) = k
    BY DEF Holds, k
  <2> DEFINE all == st.rounds \o done
  <2>2. /\ all \in Seq(Block) /\ Len(all) = Len(st.rounds) + Len(done)
        /\ \A i \in 1 .. Len(st.rounds) + Len(done) :
             all[i] = IF i <= Len(st.rounds) THEN st.rounds[i] ELSE done[i - Len(st.rounds)]
    BY <1>16, <2>1, ConcatProperties
  <2> HIDE DEF all
  <2>3. k + p + q = Len(st.rounds) + Len(done)
    BY <1>1, <1>7, <1>11, <1>16, <2>1
  <2>4. \A i \in 1 .. k + p + q : all[i] = IF i <= k THEN st.rounds[i] ELSE done[i - k]
    BY <1>16, <2>1, <2>2, <2>3
  <2>5. ASSUME NEW i \in 1 .. k + p + q, NEW j \in 1 .. B PROVE all[i][j] = M[B * (i - 1) + j]
    <3>0. i \in Nat /\ i >= 1
      BY <1>1, <1>7, <1>11
    <3>1. CASE i <= k
      <4>0. i \in 1 .. k /\ all[i] = st.rounds[i]
        BY <1>1, <2>4, <3>0, <3>1
      <4>1. all[i][j] = m[B * (i - 1) + j]
        BY <4>0 DEF Holds, k
      <4> DEFINE x == B * (i - 1)  y == B * k
      <4>2. x \in Nat /\ y \in Nat /\ x + B <= y
        <5>1. B * (i - 1) \in Nat /\ B * (i - 1) + B = B * i
          BY <3>0, SizeAssumption
        <5>2. B * i <= B * k /\ B * k \in Nat
          BY <1>1, <3>0, <3>1, SizeAssumption
        <5> QED BY <5>1, <5>2
      <4>3. Len(m) = y + off
        BY <1>1
      <4> HIDE DEF x, y
      <4>4. x + j \in 1 .. Len(m)
        BY <1>0, <1>1, <4>2, <4>3, SizeAssumption
      <4>5. M[x + j] = m[x + j]
        BY <1>5, <4>4
      <4> QED BY <4>1, <4>5 DEF x
    <3>2. CASE i > k
      <4>1. i - k \in 1 .. p + q /\ k + (i - k) - 1 = i - 1
        BY <1>1, <1>7, <1>11, <3>0, <3>2
      <4>2. all[i] = done[i - k]
        BY <1>1, <2>4, <3>0, <3>2
      <4>3. done[i - k][j] = M[B * (k + (i - k) - 1) + j]
        BY <1>17, <4>1
      <4> QED BY <4>1, <4>2, <4>3
    <3> QED BY <1>1, <3>0, <3>1, <3>2
  <2> QED BY <2>2, <2>3, <2>5 DEF all
<1> DEFINE new == Absorb(st, bytes)
<1>22. new.nbytes = Len(M) % Width /\ new.input = buffer /\ new.rounds = st.rounds \o done
  BY <1>3, <1>6 DEF buffer
<1> HIDE DEF new
<1>23. Holds(new, M)
  BY <1>5, <1>18, <1>20, <1>21, <1>22 DEF Holds
<1> QED BY <1>23 DEF M, new

\* update keeps what it is given, behind what was given before.
LEMMA AbsorbHolds ==
  ASSUME NEW st, NEW m, Holds(st, m), NEW bytes \in Seq(Int)
  PROVE  Holds(Absorb(st, bytes), m \o bytes)
  BY AbsorbStays, AbsorbFills
-----------------------------------------------------------------------------
(* Blocks put together.                                                    *)

LEMMA Least ==
  ASSUME NEW S \in SUBSET Nat, S # {}
  PROVE  \E x \in S : \A y \in S : x <= y
<1> DEFINE R == OpToRel(<, Nat)
<1>1. IsWellFoundedOn(R, Nat)
  BY NatLessThanWellFounded
<1>2. \A a, b \in Nat : a < b => <<a, b>> \in R
  BY DEF OpToRel
<1> HIDE DEF R
<1>3. PICK x \in S : \A y \in S : ~ (<<y, x>> \in R)
  BY <1>1, WFMin
<1>4. \A y \in S : y \in Nat /\ x \in Nat /\ ~ (y < x)
  BY <1>2, <1>3
<1> QED BY <1>4

\* If the i-th block is the i-th piece of s, the blocks make up s.
LEMMA FlattenBlocks ==
  ASSUME NEW blocks \in Seq(Block), NEW s \in Seq(Int), Len(s) = B * Len(blocks),
         \A i \in 1 .. Len(blocks), j \in 1 .. B : blocks[i][j] = s[B * (i - 1) + j]
  PROVE  FlattenSeq(blocks) = s
<1> DEFINE n == Len(blocks)
<1>1. n \in Nat /\ Len(s) = B * n
  BY LenProperties
<1>2. CASE n = 0
  <2>1. blocks = <<>> /\ s = <<>>
    BY <1>1, <1>2, EmptySeq, SizeAssumption
  <2> QED BY <1>2, <2>1 DEF FlattenSeq
<1>3. CASE n # 0
  <2> DEFINE Eq(f) == f = [i \in 1 .. n |-> IF i = 1 THEN blocks[i] ELSE f[i - 1] \o blocks[i]]
             g == [i \in 1 .. n |-> SubSeq(s, 1, B * i)]
             flatten == CHOOSE f : Eq(f)
  <2>1. ASSUME NEW i \in 1 .. n
        PROVE  /\ SubSeq(s, 1, B * i) \in Seq(Int) /\ Len(SubSeq(s, 1, B * i)) = B * i
               /\ \A x \in 1 .. B * i : SubSeq(s, 1, B * i)[x] = s[x]
    <3> DEFINE e == B * i
    <3>0. i \in Nat /\ i <= n
      BY <1>1
    <3>1. B * i <= B * n /\ e \in Nat
      BY <1>1, <3>0, TimesMonotone
    <3>2. e <= Len(s)
      BY <1>1, <3>1
    <3> HIDE DEF e
    <3>3. \A x \in 1 .. e : s[x] \in Int
      BY <3>1, <3>2, ElementOfSeq
    <3>4. /\ SubSeq(s, 1, e) \in Seq(Int) /\ Len(SubSeq(s, 1, e)) = IF 1 <= e THEN e - 1 + 1 ELSE 0
          /\ \A x \in 1 .. e - 1 + 1 : SubSeq(s, 1, e)[x] = s[1 + x - 1]
      BY <3>1, <3>3, SubSeqProperties
    <3>5. e - 1 + 1 = e /\ \A x \in 1 .. e : 1 + x - 1 = x
      BY <3>1
    <3>6. Len(SubSeq(s, 1, e)) = e
      BY <3>1, <3>4
    <3> QED BY <3>4, <3>5, <3>6 DEF e
  <2>2. ASSUME NEW i \in 1 .. n
        PROVE  SubSeq(s, 1, B * i) = IF i = 1 THEN blocks[i] ELSE SubSeq(s, 1, B * (i - 1)) \o blocks[i]
    <3>1. blocks[i] \in Seq(Int) /\ Len(blocks[i]) = B
      BY ElementOfSeq, BlockIsSeq
    <3>2. CASE i = 1
      <4>1. B * i = B /\ B * (i - 1) = 0
        BY <3>2, SizeAssumption
      <4>2. \A j \in 1 .. B : SubSeq(s, 1, B)[j] = blocks[1][j]
        <5>1. \A j \in 1 .. B : blocks[i][j] = s[B * (i - 1) + j] /\ B * (i - 1) + j = j
          BY <4>1
        <5>2. \A j \in 1 .. B : SubSeq(s, 1, B)[j] = s[j]
          BY <2>1, <4>1
        <5> QED BY <3>2, <5>1, <5>2
      <4> QED BY <2>1, <3>1, <3>2, <4>1, <4>2, SeqEqual
    <3>3. CASE i # 1
      <4> DEFINE lo == B * (i - 1)  all == SubSeq(s, 1, lo) \o blocks[i]
      <4>1. i - 1 \in 1 .. n /\ lo \in Nat /\ B * i = lo + B
        BY <1>1, <3>3, SizeAssumption
      <4> HIDE DEF lo
      <4>2. /\ SubSeq(s, 1, lo) \in Seq(Int) /\ Len(SubSeq(s, 1, lo)) = lo
            /\ \A x \in 1 .. lo : SubSeq(s, 1, lo)[x] = s[x]
        BY <2>1, <4>1 DEF lo
      <4>3. /\ all \in Seq(Int) /\ Len(all) = lo + B
            /\ \A x \in 1 .. lo + B : all[x] = IF x <= lo THEN SubSeq(s, 1, lo)[x] ELSE blocks[i][x - lo]
        BY <3>1, <4>2, ConcatProperties
      <4> HIDE DEF all
      <4>4. ASSUME NEW x \in 1 .. lo + B PROVE all[x] = s[x]
        <5>1. CASE x <= lo
          <6>1. x \in 1 .. lo
            BY <4>1, <5>1
          <6> QED BY <4>2, <4>3, <5>1, <6>1
        <5>2. CASE x > lo
          <6>1. x - lo \in 1 .. B /\ lo + (x - lo) = x
            BY <4>1, <5>2, SizeAssumption
          <6>2. blocks[i][x - lo] = s[lo + (x - lo)]
            BY <6>1 DEF lo
          <6>3. ~ (x <= lo)
            BY <4>1, <5>2, SizeAssumption
          <6> QED BY <4>3, <6>1, <6>2, <6>3
        <5> QED BY <4>1, <5>1, <5>2, SizeAssumption
      <4>5. SubSeq(s, 1, lo + B) = all
        <5>1. /\ SubSeq(s, 1, lo + B) \in Seq(Int) /\ Len(SubSeq(s, 1, lo + B)) = lo + B
              /\ \A x \in 1 .. lo + B : SubSeq(s, 1, lo + B)[x] = s[x]
          BY <2>1, <4>1
        <5> QED BY <4>3, <4>4, <5>1, SeqEqual
      <4> QED BY <3>3, <4>1, <4>5 DEF lo, all
    <3> QED BY <3>2, <3>3
  <2>3. Eq(g)
    <3>0. \A k \in 1 .. n : g[k] = SubSeq(s, 1, B * k)
      OBVIOUS
    <3>2. \A i \in 1 .. n : i # 1 => i - 1 \in 1 .. n
      BY <1>1
    <3>1. \A i \in 1 .. n : i # 1 => g[i - 1] = SubSeq(s, 1, B * (i - 1))
      BY <3>0, <3>2
    <3> QED BY <2>2, <3>1
  <2>4. FlattenSeq(blocks) = flatten[n]
    BY <1>3 DEF FlattenSeq
  <2> HIDE DEF Eq
  <2>5. Eq(flatten)
    BY <2>3
  <2> HIDE DEF flatten
  <2>6. \A i \in 1 .. n : flatten[i] = g[i]
    <3> DEFINE Wrong == {i \in 1 .. n : flatten[i] # g[i]}
    <3> SUFFICES ASSUME Wrong # {} PROVE FALSE
      OBVIOUS
    <3>0. Wrong \in SUBSET Nat
      BY <1>1
    <3> HIDE DEF Wrong
    <3>1. PICK i \in Wrong : \A y \in Wrong : i <= y
      BY <3>0, Least
    <3>2. i \in 1 .. n /\ flatten[i] # g[i]
      BY <3>1 DEF Wrong
    <3>5. i - 1 \notin Wrong
      BY <1>1, <3>1, <3>2
    <3>6. i # 1 => i - 1 \in 1 .. n
      BY <1>1, <3>2
    <3>3. i # 1 => flatten[i - 1] = g[i - 1]
      BY <3>5, <3>6 DEF Wrong
    <3>4. /\ flatten[i] = IF i = 1 THEN blocks[i] ELSE flatten[i - 1] \o blocks[i]
          /\ g[i] = IF i = 1 THEN blocks[i] ELSE g[i - 1] \o blocks[i]
      <4> HIDE DEF g
      <4> QED BY <2>3, <2>5, <3>2 DEF Eq
    <3> QED BY <3>2, <3>3, <3>4
  <2>7. flatten[n] = SubSeq(s, 1, B * n)
    BY <1>1, <1>3, <2>6
  <2> QED BY <1>1, <2>4, <2>7, SubSeqFull
<1> QED BY <1>2, <1>3
-----------------------------------------------------------------------------
(* The invariant.                                                          *)

Md5Inv ==
  /\ outcome \in {"none", "reading", "updated", "finalized", "logic_error"} /\ md5_str \in BOOLEAN
  /\ outcome \in {"none", "reading"} => ~md5_str
  /\ input \in Block /\ rounds \in Seq(Block) /\ nbytes \in 0 .. Width - 1
  /\ msg \in Seq(Int) /\ Len(msg) <= MaxLen /\ \A i \in 1 .. Len(msg) : msg[i] = i
  /\ ~md5_str => Holds(State, msg)

LEMMA Md5InitInv == Init => Md5Inv
<1> SUFFICES ASSUME Init PROVE Md5Inv
  OBVIOUS
<1>1. input \in Block
  BY DEF Init, Block, Stale
<1>2. msg \in Seq(Int) /\ Len(msg) = 0 /\ rounds \in Seq(Block) /\ Len(rounds) = 0
  BY EmptySeq DEF Init
<1>3. 0 \div B = 0 /\ 0 % B = 0 /\ 0 % Width = 0
  BY SizeAssumption
<1>4. Holds(State, msg)
  BY <1>1, <1>2, <1>3 DEF Init, Holds, State
<1>5. nbytes \in 0 .. Width - 1 /\ Len(msg) <= MaxLen
  BY <1>2, SizeAssumption DEF Init
<1>6. outcome = "none" /\ md5_str = FALSE
  BY DEF Init
<1>7. \A i \in 1 .. Len(msg) : msg[i] = i
  BY <1>2
<1> QED BY <1>1, <1>2, <1>4, <1>5, <1>6, <1>7 DEF Md5Inv

LEMMA HoldsCount ==
  ASSUME NEW st, NEW m, Holds(st, m)
  PROVE  st.nbytes \in 0 .. Width - 1
<1>1. Len(m) \in Nat
  BY LenProperties DEF Holds
<1> QED BY <1>1, Division, SizeAssumption DEF Holds

\* The bytes that come next continue the numbering.
LEMMA FeedStep ==
  ASSUME Md5Inv, ~md5_str, NEW n \in Nat, Feed(n),
         outcome' \in {"reading", "updated"}
  PROVE  Md5Inv'
<1> DEFINE bytes == [i \in 1 .. n |-> Len(msg) + i]  st == Absorb(State, bytes)
<1>1. /\ Len(msg) + n <= MaxLen /\ msg' = msg \o bytes /\ md5_str' = md5_str
      /\ nbytes' = st.nbytes /\ input' = st.input /\ rounds' = st.rounds
  BY DEF Feed
<1>2. msg \in Seq(Int) /\ Len(msg) \in Nat
  BY LenProperties DEF Md5Inv
<1>3. bytes \in Seq(Int) /\ Len(bytes) = n /\ \A i \in 1 .. n : bytes[i] = Len(msg) + i
  <2>1. bytes \in [1 .. n -> Int]
    BY <1>2
  <2> QED BY <2>1, FunctionIsSeq
<1> HIDE DEF bytes
<1>4. Holds(st, msg')
  BY <1>1, <1>3, AbsorbHolds DEF Md5Inv
<1> HIDE DEF st
<1>5. Holds(State', msg')
  BY <1>1, <1>4 DEF Holds, State
<1>6. input' \in Block /\ rounds' \in Seq(Block) /\ nbytes' \in 0 .. Width - 1
  BY <1>1, <1>4, HoldsCount DEF Holds
<1>7. /\ msg' \in Seq(Int) /\ Len(msg') = Len(msg) + n
      /\ \A i \in 1 .. Len(msg) + n : msg'[i] = IF i <= Len(msg) THEN msg[i] ELSE bytes[i - Len(msg)]
  BY <1>1, <1>2, <1>3, ConcatProperties
<1>8. \A i \in 1 .. Len(msg') : msg'[i] = i
  <2> SUFFICES ASSUME NEW i \in 1 .. Len(msg') PROVE msg'[i] = i
    OBVIOUS
  <2>1. CASE i <= Len(msg)
    BY <1>2, <1>7, <2>1 DEF Md5Inv
  <2>2. CASE i > Len(msg)
    <3>1. i - Len(msg) \in 1 .. n /\ ~ (i <= Len(msg))
      BY <1>2, <1>7, <2>2
    <3> QED BY <1>2, <1>3, <1>7, <3>1
  <2> QED BY <1>2, <1>7, <2>1, <2>2
<1>9. Len(msg') <= MaxLen
  BY <1>1, <1>7
<1> QED BY <1>1, <1>5, <1>6, <1>7, <1>8, <1>9 DEF Md5Inv
-----------------------------------------------------------------------------
(* final.                                                                  *)

\* The padding fills a block up to the length.
LEMMA PadLenFacts ==
  ASSUME Md5Inv, ~md5_str
  PROVE  /\ Len(msg) \in Nat /\ ninput = Len(msg) % B /\ PadLen \in 1 .. B
         /\ \E k \in Nat : Len(msg) + PadLen = B * k + (B - L)
<1> DEFINE k == Len(msg) \div B
<1>1. Len(msg) \in Nat
  BY LenProperties DEF Md5Inv
<1>2. ninput = Len(msg) % B
  BY <1>1, CountModB DEF Md5Inv, Holds, State, ninput
<1>3. k \in Nat /\ ninput \in 0 .. B - 1 /\ Len(msg) = B * k + ninput
  BY <1>1, <1>2, Division, SizeAssumption
<1> HIDE DEF k
<1>4. PadLen \in 1 .. B
  BY <1>3, SizeAssumption DEF PadLen
<1>5. CASE ninput < B - L
  <2> DEFINE a == B * k
  <2>1. Len(msg) = a + ninput /\ a \in Int /\ PadLen = B - L - ninput
    BY <1>3, <1>5, SizeAssumption DEF PadLen
  <2> HIDE DEF a
  <2>2. Len(msg) + PadLen = a + (B - L)
    BY <1>3, <2>1, SizeAssumption
  <2> QED BY <1>1, <1>2, <1>3, <1>4, <2>2 DEF a
<1>6. CASE ~ (ninput < B - L)
  <2>1. B * (k + 1) = B * k + B /\ k + 1 \in Nat
    BY <1>3, SizeAssumption
  <2>2. PadLen = B + (B - L) - ninput
    BY <1>3, <1>6, SizeAssumption DEF PadLen
  <2> DEFINE a == B * k  b == B * (k + 1)
  <2>3. Len(msg) = a + ninput /\ b = a + B /\ a \in Int
    BY <1>3, <2>1, SizeAssumption
  <2> HIDE DEF a, b
  <2>4. Len(msg) + PadLen = b + (B - L)
    BY <1>3, <2>2, <2>3, SizeAssumption
  <2> QED BY <1>1, <1>2, <1>4, <2>1, <2>4 DEF b
<1> QED BY <1>1, <1>2, <1>4, <1>5, <1>6

\* Its zeros are as few as fill a block: the only number below B that does.
LEMMA ZerosUnique ==
  ASSUME Md5Inv, ~md5_str
  PROVE  (CHOOSE z \in 0 .. B - 1 : (Len(msg) + 1 + z + L) % B = 0) = PadLen - 1
<1> DEFINE Fills(z) == (Len(msg) + 1 + z + L) % B = 0
<1>1. PICK k \in Nat : Len(msg) + PadLen = B * k + (B - L)
  BY PadLenFacts
<1>2. Len(msg) \in Nat /\ PadLen \in 1 .. B /\ PadLen - 1 \in 0 .. B - 1
  BY PadLenFacts, SizeAssumption
<1>3. k + 1 \in Nat /\ B * (k + 1) = B * k + B
  BY SizeAssumption
<1>4. Len(msg) + 1 + (PadLen - 1) + L = B * (k + 1)
  <2> DEFINE a == B * k
  <2>1. Len(msg) + PadLen = a + (B - L) /\ B * (k + 1) = a + B /\ a \in Int
    BY <1>1, <1>3, SizeAssumption
  <2> HIDE DEF a
  <2>2. Len(msg) + 1 + (PadLen - 1) + L = a + B
    BY <1>2, <2>1, SizeAssumption
  <2> QED BY <2>1, <2>2
<1>5. Fills(PadLen - 1)
  <2>1. B * (k + 1) = B * (k + 1) + 0 /\ 0 \in 0 .. B - 1
    BY <1>3, SizeAssumption
  <2>2. (B * (k + 1) + 0) % B = 0
    BY <1>3, <2>1, DivisionUnique, SizeAssumption
  <2> QED BY <1>4, <2>1, <2>2
<1>6. ASSUME NEW z \in 0 .. B - 1, Fills(z) PROVE z = PadLen - 1
  <2> DEFINE n == Len(msg) + 1 + z + L  q == n \div B
  <2>1. n \in Nat
    BY <1>2, SizeAssumption
  <2>2. q \in Nat /\ n = B * q + (n % B)
    BY <2>1, Division, SizeAssumption
  <2>3. n = B * q
    BY <1>6, <2>2, SizeAssumption
  <2> HIDE DEF q
  <2>4. z - (PadLen - 1) = B * q - B * (k + 1)
    <3> DEFINE a == B * q  b == B * (k + 1)
    <3>1. Len(msg) + 1 + z + L = a /\ Len(msg) + 1 + (PadLen - 1) + L = b
      BY <1>4, <2>3
    <3> HIDE DEF a, b
    <3>2. z - (PadLen - 1) = a - b
      BY <1>2, <3>1, SizeAssumption
    <3> QED BY <3>2 DEF a, b
  <2>5. CASE q < k + 1
    <3>1. B * (q + 1) = B * q + B /\ B * (q + 1) <= B * (k + 1)
      BY <1>3, <2>2, <2>5, TimesMonotone, SizeAssumption
    <3>2. B * q \in Int /\ B * (k + 1) \in Int
      BY <2>2, SizeAssumption
    <3> QED BY <1>2, <2>4, <3>1, <3>2, SizeAssumption
  <2>6. CASE q > k + 1
    <3>1. B * (k + 1 + 1) = B * (k + 1) + B /\ B * (k + 1 + 1) <= B * q
      BY <1>3, <2>2, <2>6, TimesMonotone, SizeAssumption
    <3>2. B * q \in Int /\ B * (k + 1) \in Int
      BY <2>2, SizeAssumption
    <3> QED BY <1>2, <2>4, <3>1, <3>2, SizeAssumption
  <2>7. CASE q = k + 1
    BY <1>2, <2>4, <2>7, SizeAssumption
  <2> QED BY <2>2, <2>5, <2>6, <2>7
<1> HIDE DEF Fills
<1>7. (CHOOSE z \in 0 .. B - 1 : Fills(z)) = PadLen - 1
  BY <1>2, <1>5, <1>6
<1> QED BY <1>7 DEF Fills

LEMMA LengthOfFacts ==
  ASSUME NEW n \in Nat
  PROVE  LengthOf(n) \in Seq(Int) /\ Len(LengthOf(n)) = L
<1>1. LengthOf(n) \in [1 .. L -> Int]
  BY SizeAssumption DEF LengthOf
<1> QED BY <1>1, FunctionIsSeq, SizeAssumption

LEMMA PaddingFacts ==
  ASSUME NEW n \in Nat
  PROVE  /\ Padding(n) \in Seq(Int) /\ Len(Padding(n)) = n
         /\ \A i \in 1 .. n : Padding(n)[i] = IF i = 1 THEN First ELSE Zero
<1>1. Padding(n) \in [1 .. n -> Int]
  BY DEF Padding, First, Zero
<1>2. Padding(n) \in Seq(Int) /\ Len(Padding(n)) = n
  BY <1>1, FunctionIsSeq
<1> QED BY <1>2 DEF Padding

\* What final appends to the message is its padding.
LEMMA PaddedIs ==
  ASSUME Md5Inv, ~md5_str
  PROVE  Padded(msg) = (msg \o Padding(PadLen)) \o LengthOf(nbytes)
<1> DEFINE zeros == PadLen - 1  blank == [i \in 1 .. zeros |-> Zero]
<1>1. zeros \in Nat /\ PadLen = 1 + zeros
  BY PadLenFacts, SizeAssumption
<1>2. msg \in Seq(Int) /\ nbytes = Len(msg) % Width
  BY DEF Md5Inv, Holds, State
<1>3. Padded(msg) = ((msg \o <<First>>) \o blank) \o LengthOf(Len(msg) % Width)
  <2> HIDE DEF zeros
  <2>1. (CHOOSE z \in 0 .. B - 1 : (Len(msg) + 1 + z + L) % B = 0) = zeros
    BY ZerosUnique DEF zeros
  <2> QED BY <2>1 DEF Padded
<1>4. First \in Int /\ <<First>> \in Seq(Int) /\ Len(<<First>>) = 1
  BY DEF First
<1> HIDE DEF zeros
<1>5. blank \in Seq(Int) /\ Len(blank) = zeros
  <2>1. blank \in [1 .. zeros -> Int]
    BY <1>1 DEF Zero
  <2> QED BY <1>1, <2>1, FunctionIsSeq
<1>8. \A i \in 1 .. zeros : blank[i] = Zero
  OBVIOUS
<1> DEFINE one == <<First>>
<1>9. one \in Seq(Int) /\ Len(one) = 1 /\ one[1] = First
  BY <1>4
<1> HIDE DEF blank, one
<1>6. one \o blank = Padding(PadLen)
  <2> DEFINE s == one \o blank
  <2>1. /\ s \in Seq(Int) /\ Len(s) = Len(one) + Len(blank)
        /\ \A i \in 1 .. Len(one) + Len(blank) : s[i] = IF i <= Len(one) THEN one[i] ELSE blank[i - Len(one)]
    BY <1>5, <1>9, ConcatProperties
  <2> HIDE DEF s
  <2>2. Len(one) + Len(blank) = 1 + zeros
    BY <1>5, <1>9
  <2>3. /\ Padding(PadLen) \in Seq(Int) /\ Len(Padding(PadLen)) = 1 + zeros
        /\ \A i \in 1 .. 1 + zeros : Padding(PadLen)[i] = IF i = 1 THEN First ELSE Zero
    BY <1>1, PaddingFacts
  <2>4. ASSUME NEW i \in 1 .. 1 + zeros PROVE s[i] = Padding(PadLen)[i]
    <3>1. CASE i = 1
      BY <1>9, <2>1, <2>2, <2>3, <3>1
    <3>2. CASE i # 1
      <4>1. i - 1 \in 1 .. zeros /\ ~ (i <= 1)
        BY <1>1, <3>2
      <4> QED BY <1>8, <1>9, <2>1, <2>2, <2>3, <3>2, <4>1
    <3> QED BY <3>1, <3>2
  <2>5. Len(s) = 1 + zeros /\ \A i \in 1 .. Len(s) : s[i] = Padding(PadLen)[i]
    BY <2>1, <2>2, <2>4
  <2>6. s = Padding(PadLen)
    BY <2>1, <2>3, <2>5, SeqEqual
  <2> QED BY <2>6 DEF s
<1>7. (msg \o one) \o blank = msg \o Padding(PadLen)
  <2>1. (msg \o one) \o blank = msg \o (one \o blank)
    BY <1>2, <1>5, <1>9, ConcatAssociative
  <2> QED BY <1>6, <2>1
<1> QED BY <1>2, <1>3, <1>7 DEF one, blank

LEMMA FinalStep ==
  ASSUME Md5Inv, Final
  PROVE  Md5Inv' /\ FlattenSeq(rounds') = Padded(msg)
<1> DEFINE st == Absorb(State, Padding(PadLen))  M == msg \o Padding(PadLen)
           head == SubSeq(st.input, 1, B - L)  block == head \o LengthOf(nbytes)
           whole == M \o LengthOf(nbytes)
<1>1. /\ ~md5_str /\ nbytes' = st.nbytes /\ input' = st.input /\ md5_str' = TRUE
      /\ rounds' = Append(st.rounds, block) /\ outcome' = "finalized" /\ msg' = msg
  BY DEF Final
<1>2. PICK k \in Nat : Len(msg) + PadLen = B * k + (B - L)
  BY <1>1, PadLenFacts
<1>3. Len(msg) \in Nat /\ PadLen \in Nat /\ nbytes \in Nat
  BY <1>1, PadLenFacts, SizeAssumption DEF Md5Inv
<1>4. Padding(PadLen) \in Seq(Int) /\ Len(Padding(PadLen)) = PadLen
  BY <1>3, PaddingFacts
<1>5. Holds(st, M)
  BY <1>1, <1>4, AbsorbHolds DEF Md5Inv
<1>6. M \in Seq(Int) /\ Len(M) = Len(msg) + PadLen
  BY <1>3, <1>4, ConcatProperties DEF Md5Inv
<1> HIDE DEF st, M
<1>7. Len(M) \div B = k /\ Len(M) % B = B - L
  <2> DEFINE r == B - L
  <2>1. r \in 0 .. B - 1 /\ Len(M) = B * k + r
    BY <1>2, <1>6, SizeAssumption
  <2> HIDE DEF r
  <2>2. (B * k + r) \div B = k /\ (B * k + r) % B = r
    BY <2>1, DivisionUnique, SizeAssumption
  <2> QED BY <2>1, <2>2 DEF r
<1>8. /\ st.input \in Block /\ st.rounds \in Seq(Block) /\ Len(st.rounds) = k
      /\ \A i \in 1 .. k, j \in 1 .. B : st.rounds[i][j] = M[B * (i - 1) + j]
      /\ \A j \in 1 .. B - L : st.input[j] = M[B * k + j]
  BY <1>5, <1>7 DEF Holds
<1>9. head \in Seq(Int) /\ Len(head) = B - L /\ \A j \in 1 .. B - L : head[j] = M[B * k + j]
  <2>1. \A j \in 1 .. B - L : st.input[j] \in Int
    BY <1>8, SizeAssumption DEF Block
  <2>2. /\ head \in Seq(Int) /\ Len(head) = IF 1 <= B - L THEN (B - L) - 1 + 1 ELSE 0
        /\ \A j \in 1 .. (B - L) - 1 + 1 : head[j] = st.input[1 + j - 1]
    BY <2>1, SubSeqProperties, SizeAssumption
  <2> HIDE DEF head
  <2>3. (B - L) - 1 + 1 = B - L /\ 1 <= B - L /\ \A j \in 1 .. B - L : 1 + j - 1 = j
    BY SizeAssumption
  <2> QED BY <1>8, <2>2, <2>3
<1>10. LengthOf(nbytes) \in Seq(Int) /\ Len(LengthOf(nbytes)) = L
  BY <1>3, LengthOfFacts
<1> HIDE DEF head
<1>11. /\ block \in Seq(Int) /\ Len(block) = B
       /\ \A j \in 1 .. B : block[j] = IF j <= B - L THEN head[j] ELSE LengthOf(nbytes)[j - (B - L)]
  <2>1. /\ block \in Seq(Int) /\ Len(block) = Len(head) + Len(LengthOf(nbytes))
        /\ \A j \in 1 .. Len(head) + Len(LengthOf(nbytes)) :
             block[j] = IF j <= Len(head) THEN head[j] ELSE LengthOf(nbytes)[j - Len(head)]
    BY <1>9, <1>10, ConcatProperties
  <2> HIDE DEF block
  <2>2. Len(head) + Len(LengthOf(nbytes)) = B
    BY <1>9, <1>10, SizeAssumption
  <2> QED BY <1>9, <2>1, <2>2
<1> HIDE DEF block
<1>12. block \in Block
  BY <1>11, LenProperties DEF Block
<1>13. /\ rounds' \in Seq(Block) /\ Len(rounds') = k + 1 /\ rounds'[k + 1] = block
       /\ \A i \in 1 .. k : rounds'[i] = st.rounds[i]
  BY <1>1, <1>8, <1>12, AppendProperties
<1>14. /\ whole \in Seq(Int) /\ Len(whole) = Len(M) + L
       /\ \A i \in 1 .. Len(M) + L :
            whole[i] = IF i <= Len(M) THEN M[i] ELSE LengthOf(nbytes)[i - Len(M)]
  BY <1>6, <1>10, ConcatProperties
<1> HIDE DEF whole
<1> DEFINE a == B * k
<1>15. a \in Nat /\ Len(M) = a + (B - L) /\ Len(whole) = a + B /\ B * (k + 1) = a + B
  <2>1. a \in Nat /\ Len(M) = a + (B - L) /\ B * (k + 1) = a + B
    BY <1>2, <1>6, SizeAssumption
  <2> HIDE DEF a
  <2> QED BY <1>14, <2>1, SizeAssumption
<1>16. \A i \in 1 .. Len(rounds'), j \in 1 .. B : rounds'[i][j] = whole[B * (i - 1) + j]
  <2> SUFFICES ASSUME NEW i \in 1 .. k + 1, NEW j \in 1 .. B
               PROVE  rounds'[i][j] = whole[B * (i - 1) + j]
    BY <1>13
  <2>1. CASE i <= k
    <3> DEFINE x == B * (i - 1)
    <3>1. i \in 1 .. k /\ i - 1 \in Nat
      BY <2>1
    <3>2. x \in Nat /\ x + B <= a
      <4>1. B * (i - 1) + B = B * i /\ B * (i - 1) \in Nat
        BY <3>1, SizeAssumption
      <4> QED BY <2>1, <3>1, <4>1, TimesMonotone
    <3>3. rounds'[i][j] = M[x + j]
      BY <1>8, <1>13, <3>1
    <3> HIDE DEF x, a
    <3>4. x + j \in 1 .. Len(M) /\ x + j \in 1 .. Len(M) + L
      BY <1>15, <3>2, SizeAssumption
    <3>5. whole[x + j] = M[x + j]
      BY <1>14, <1>15, <3>4, SizeAssumption
    <3> QED BY <3>3, <3>5 DEF x
  <2>2. CASE i = k + 1
    <3>1. rounds'[i][j] = block[j] /\ B * (i - 1) = a
      BY <1>13, <2>2
    <3> HIDE DEF a
    <3>2. CASE j <= B - L
      <4>0. j \in 1 .. B - L
        BY <3>2, SizeAssumption
      <4>3. block[j] = head[j]
        BY <1>11, <3>2
      <4>4. head[j] = M[B * k + j]
        BY <1>9, <4>0
      <4>1. block[j] = M[a + j]
        BY <4>3, <4>4 DEF a
      <4>2. a + j \in 1 .. Len(M) + L /\ a + j <= Len(M)
        BY <1>15, <3>2, SizeAssumption
      <4> QED BY <1>14, <3>1, <4>1, <4>2
    <3>3. CASE j > B - L
      <4>1. block[j] = LengthOf(nbytes)[j - (B - L)]
        BY <1>11, <3>3, SizeAssumption
      <4>2. a + j \in 1 .. Len(M) + L /\ ~ (a + j <= Len(M)) /\ (a + j) - Len(M) = j - (B - L)
        BY <1>15, <3>3, SizeAssumption
      <4> QED BY <1>14, <3>1, <4>1, <4>2
    <3> QED BY <3>2, <3>3, SizeAssumption
  <2> QED BY <2>1, <2>2
<1>17. FlattenSeq(rounds') = whole
  BY <1>13, <1>14, <1>15, <1>16, FlattenBlocks
<1>18. Padded(msg) = whole
  BY <1>1, PaddedIs DEF whole, M
<1>19. nbytes' \in 0 .. Width - 1 /\ input' \in Block
  BY <1>1, <1>5, <1>8, HoldsCount
<1>20. Md5Inv'
  BY <1>1, <1>13, <1>19 DEF Md5Inv
<1> QED BY <1>17, <1>18, <1>20

LEMMA Md5NextInv ==
  ASSUME Md5Inv, [Next]_vars
  PROVE  Md5Inv'
<1> MaxLen \in Nat /\ BUF \in Nat
  BY SizeAssumption
<1>1. ASSUME NEW n \in 0 .. MaxLen, Update(n) PROVE Md5Inv'
  BY <1>1, FeedStep DEF Update
<1>2. ASSUME NEW n \in 0 .. MaxLen, ReadStream(n) PROVE Md5Inv'
  <2>1. ~md5_str /\ Feed(n) /\ outcome' \in {"reading", "updated"}
    BY <1>2 DEF ReadStream, Md5Inv
  <2> QED BY <2>1, FeedStep
<1>3. CASE UpdateFinalized
  BY <1>3 DEF UpdateFinalized, Md5Inv, Holds, State
<1>4. CASE Final
  BY <1>4, FinalStep
<1>5. CASE Read
  BY <1>5 DEF Read, Md5Inv, Holds, State
<1>6. CASE UNCHANGED vars
  BY <1>6 DEF vars, Md5Inv, Holds, State
<1> QED BY <1>1, <1>2, <1>3, <1>4, <1>5, <1>6 DEF Next

LEMMA Md5SpecInv == Spec => []Md5Inv
  BY Md5InitInv, Md5NextInv, PTL DEF Spec

-----------------------------------------------------------------------------
(* The theorems.                                                           *)

\* Before the digest is asked for, what was hashed and what the buffer holds is the message.
LEMMA HoldsTail ==
  ASSUME Md5Inv, ~md5_str
  PROVE  FlattenSeq(rounds) \o SubSeq(input, 1, ninput) = msg
<1> DEFINE k == Len(msg) \div B  r == Len(msg) % B  a == B * k
           hashed == SubSeq(msg, 1, a)  kept == SubSeq(input, 1, r)  whole == hashed \o kept
<1>1. Len(msg) \in Nat /\ msg \in Seq(Int) /\ input \in Block /\ rounds \in Seq(Block)
  BY LenProperties DEF Md5Inv
<1>2. k \in Nat /\ r \in 0 .. B - 1 /\ a \in Nat /\ Len(msg) = a + r
  <2>1. k \in Nat /\ r \in 0 .. B - 1 /\ Len(msg) = B * k + r
    BY <1>1, Division, SizeAssumption
  <2> HIDE DEF k, r
  <2>2. B * k \in Nat
    BY <2>1, SizeAssumption
  <2> QED BY <2>1, <2>2
<1>3. ninput = r
  BY <1>1, CountModB DEF Md5Inv, Holds, State, ninput
<1>4. /\ Len(rounds) = k
      /\ \A i \in 1 .. k, j \in 1 .. B : rounds[i][j] = msg[B * (i - 1) + j]
      /\ \A j \in 1 .. r : input[j] = msg[a + j]
  BY DEF Md5Inv, Holds, State
<1> HIDE DEF r, k
<1>9. \A i \in 1 .. k : B * (i - 1) \in Nat /\ B * (i - 1) + B <= a
  <2> SUFFICES ASSUME NEW i \in 1 .. k PROVE B * (i - 1) \in Nat /\ B * (i - 1) + B <= a
    OBVIOUS
  <2>1. i - 1 \in Nat /\ i \in Nat /\ i <= k
    BY <1>2
  <2>2. B * (i - 1) \in Nat /\ B * (i - 1) + B = B * i
    BY <2>1, SizeAssumption
  <2>3. B * i <= B * k
    BY <1>2, <2>1, TimesMonotone
  <2> QED BY <2>2, <2>3
<1> HIDE DEF a
<1>5. hashed \in Seq(Int) /\ Len(hashed) = a /\ \A x \in 1 .. a : hashed[x] = msg[x]
  <2>1. \A x \in 1 .. a : msg[x] \in Int
    BY <1>1, <1>2, ElementOfSeq
  <2>2. /\ hashed \in Seq(Int) /\ Len(hashed) = IF 1 <= a THEN a - 1 + 1 ELSE 0
        /\ \A x \in 1 .. a - 1 + 1 : hashed[x] = msg[1 + x - 1]
    BY <1>2, <2>1, SubSeqProperties
  <2> HIDE DEF hashed
  <2>3. a - 1 + 1 = a /\ Len(hashed) = a /\ \A x \in 1 .. a : 1 + x - 1 = x
    BY <1>2, <2>2
  <2> QED BY <2>2, <2>3
<1>6. kept \in Seq(Int) /\ Len(kept) = r /\ \A x \in 1 .. r : kept[x] = input[x]
  <2>1. \A x \in 1 .. r : input[x] \in Int
    BY <1>1, <1>2, SizeAssumption DEF Block
  <2>2. /\ kept \in Seq(Int) /\ Len(kept) = IF 1 <= r THEN r - 1 + 1 ELSE 0
        /\ \A x \in 1 .. r - 1 + 1 : kept[x] = input[1 + x - 1]
    BY <1>2, <2>1, SubSeqProperties, SizeAssumption
  <2> HIDE DEF kept
  <2>3. r - 1 + 1 = r /\ Len(kept) = r /\ \A x \in 1 .. r : 1 + x - 1 = x
    BY <1>2, <2>2, SizeAssumption
  <2> QED BY <2>2, <2>3
<1> HIDE DEF hashed, kept
<1>7. FlattenSeq(rounds) = hashed
  <2>1. \A i \in 1 .. k, j \in 1 .. B : rounds[i][j] = hashed[B * (i - 1) + j]
    <3> SUFFICES ASSUME NEW i \in 1 .. k, NEW j \in 1 .. B
                 PROVE  rounds[i][j] = hashed[B * (i - 1) + j]
      OBVIOUS
    <3> DEFINE x == B * (i - 1)
    <3>1. x \in Nat /\ x + B <= a /\ rounds[i][j] = msg[x + j]
      BY <1>4, <1>9
    <3> HIDE DEF x
    <3>2. x + j \in 1 .. a
      BY <1>2, <3>1, SizeAssumption
    <3>3. hashed[x + j] = msg[x + j]
      BY <1>5, <3>2
    <3> QED BY <3>1, <3>3 DEF x
  <2>2. Len(hashed) = B * Len(rounds)
    BY <1>4, <1>5 DEF a
  <2> QED BY <1>1, <1>4, <1>5, <2>1, <2>2, FlattenBlocks
<1>8. whole = msg
  <2>1. /\ whole \in Seq(Int) /\ Len(whole) = Len(hashed) + Len(kept)
        /\ \A x \in 1 .. Len(hashed) + Len(kept) :
             whole[x] = IF x <= Len(hashed) THEN hashed[x] ELSE kept[x - Len(hashed)]
    BY <1>5, <1>6, ConcatProperties
  <2> HIDE DEF whole
  <2>2. ASSUME NEW x \in 1 .. a + r PROVE whole[x] = msg[x]
    <3>1. CASE x <= a
      <4>1. x \in 1 .. a
        BY <1>2, <3>1
      <4> QED BY <1>5, <1>6, <2>1, <3>1, <4>1
    <3>2. CASE ~ (x <= a)
      <4>1. x - a \in 1 .. r /\ a + (x - a) = x
        BY <1>2, <3>2, SizeAssumption
      <4>2. whole[x] = kept[x - a]
        BY <1>5, <1>6, <2>1, <3>2
      <4>3. kept[x - a] = msg[a + (x - a)]
        BY <1>4, <1>6, <4>1
      <4> QED BY <4>1, <4>2, <4>3
    <3> QED BY <3>1, <3>2
  <2>3. Len(whole) = Len(msg) /\ \A x \in 1 .. Len(whole) : whole[x] = msg[x]
    BY <1>2, <1>5, <1>6, <2>1, <2>2
  <2> QED BY <1>1, <2>1, <2>3, SeqEqual
<1> QED BY <1>3, <1>7, <1>8 DEF whole, kept

\* BufferOK: the type invariant, and for every block size, message and way to cut it,
\* what was given is what was hashed and what the buffer holds (md5.h:37-64).
THEOREM BufferOKTheorem == Spec => []BufferOK
<1>1. ASSUME Md5Inv PROVE TypeOK
  <2>1. input \in Block /\ Len(input) = B
    BY <1>1, BlockIsSeq DEF Md5Inv
  <2>2. \A i \in 1 .. B : input[i] \in Int
    BY <2>1 DEF Block
  <2>3. \A r \in ToSet(rounds) : Len(r) = B
    <3> SUFFICES ASSUME NEW i \in DOMAIN rounds PROVE Len(rounds[i]) = B
      BY DEF ToSet
    <3>1. rounds[i] \in Block
      BY <1>1, ElementOfSeq, LenProperties DEF Md5Inv
    <3> QED BY <3>1, BlockIsSeq
  <2>4. Len(msg) \in 0 .. MaxLen
    BY <1>1, LenProperties, SizeAssumption DEF Md5Inv
  <2> QED BY <1>1, <2>1, <2>2, <2>3, <2>4 DEF Md5Inv, TypeOK
<1>2. Md5Inv => BufferOK
  BY <1>1, HoldsTail DEF BufferOK, BufferHoldsTail
<1> QED BY <1>2, Md5SpecInv, PTL

LEMMA FeedExtends ==
  ASSUME Md5Inv, Md5Inv', ~md5_str, NEW n \in Nat, Feed(n)
  PROVE  Hash!Extend
<1> DEFINE bytes == [i \in 1 .. n |-> Len(msg) + i]
<1>1. msg' = msg \o bytes /\ ~md5_str'
  BY DEF Feed
<1>2. /\ msg \in Seq(Int) /\ Len(msg) \in Nat /\ msg' \in Seq(Int) /\ Len(msg') \in Nat
      /\ Len(msg') <= MaxLen
      /\ \A i \in 1 .. Len(msg) : msg[i] = i
      /\ \A i \in 1 .. Len(msg') : msg'[i] = i
  BY LenProperties DEF Md5Inv
<1>3. bytes \in Seq(Int) /\ Len(bytes) = n
  <2>1. bytes \in [1 .. n -> Int]
    BY <1>2
  <2> QED BY <2>1, FunctionIsSeq
<1> HIDE DEF bytes
<1>4. Len(msg) <= Len(msg')
  <2>1. Len(msg') = Len(msg) + n
    BY <1>1, <1>2, <1>3, ConcatProperties
  <2> QED BY <1>2, <2>1
<1>5. msg' \in Seq(1 .. MaxLen)
  <2>1. \A i \in 1 .. Len(msg') : msg'[i] \in 1 .. MaxLen
    <3> SUFFICES ASSUME NEW i \in 1 .. Len(msg') PROVE msg'[i] \in 1 .. MaxLen
      OBVIOUS
    <3>1. i \in 1 .. MaxLen
      BY <1>2, SizeAssumption
    <3>2. msg'[i] = i
      BY <1>2
    <3> QED BY <3>1, <3>2
  <2>2. msg' \in [1 .. Len(msg') -> 1 .. MaxLen]
    BY <1>2, <2>1, LenProperties
  <2> QED BY <1>2, <2>2, FunctionIsSeq
<1>6. SubSeq(msg, 1, Len(msg)) = SubSeq(msg', 1, Len(msg))
  <2> DEFINE l == Len(msg)  x == SubSeq(msg, 1, l)  y == SubSeq(msg', 1, l)
  <2>1. \A i \in 1 .. l : msg[i] \in Int /\ msg'[i] \in Int /\ msg[i] = msg'[i]
    BY <1>2, <1>4
  <2>2. /\ x \in Seq(Int) /\ Len(x) = IF 1 <= l THEN l - 1 + 1 ELSE 0
        /\ \A i \in 1 .. l - 1 + 1 : x[i] = msg[1 + i - 1]
    BY <1>2, <2>1, SubSeqProperties
  <2>3. /\ y \in Seq(Int) /\ Len(y) = IF 1 <= l THEN l - 1 + 1 ELSE 0
        /\ \A i \in 1 .. l - 1 + 1 : y[i] = msg'[1 + i - 1]
    BY <1>2, <2>1, SubSeqProperties
  <2> HIDE DEF x, y, l
  <2>4. l \in Nat /\ l - 1 + 1 = l /\ Len(x) = l /\ Len(y) = l /\ \A i \in 1 .. l : 1 + i - 1 = i
    BY <1>2, <2>2, <2>3 DEF l
  <2>5. \A i \in 1 .. Len(x) : x[i] = y[i]
    BY <2>1, <2>2, <2>3, <2>4
  <2>6. x = y
    BY <2>2, <2>3, <2>4, <2>5, SeqEqual
  <2> QED BY <2>6 DEF x, y, l
<1>7. IsPrefix(msg, msg')
  BY <1>4, <1>6 DEF IsPrefix
<1> QED BY <1>1, <1>5, <1>7 DEF Hash!Extend, Hash!IsPrefix, IsPrefix

\* ImplementsHash: every step of update and of the constructor from a stream appends
\* bytes to the message, final hashes the padded message once, and no other call changes
\* either (md5.cc:78-118, md5.h:37-64).
THEOREM ImplementsTheorem == Spec => ImplementsHash
<1>1. Init => Hash!Init
  BY DEF Init, Hash!Init
<1>2. ASSUME Md5Inv, Md5Inv', [Next]_vars PROVE [Hash!Next]_(Hash!vars)
  <2> MaxLen \in Nat /\ BUF \in Nat
    BY SizeAssumption
  <2>1. ASSUME NEW n \in 0 .. MaxLen, Update(n) PROVE Hash!Next
    BY <1>2, <2>1, FeedExtends DEF Update, Hash!Next
  <2>2. ASSUME NEW n \in 0 .. MaxLen, ReadStream(n) PROVE Hash!Next
    <3>1. ~md5_str /\ Feed(n)
      BY <1>2, <2>2 DEF ReadStream, Md5Inv
    <3> QED BY <1>2, <3>1, FeedExtends DEF Hash!Next
  <2>3. CASE Final
    <3>1. FlattenSeq(rounds') = Padded(msg)
      BY <1>2, <2>3, FinalStep
    <3>2. ~md5_str /\ md5_str' = TRUE /\ msg' = msg
      BY <2>3 DEF Final
    <3>3. Hash!Finalize
      BY <3>1, <3>2 DEF Hash!Finalize
    <3> QED BY <3>3 DEF Hash!Next
  <2>4. CASE UpdateFinalized
    BY <2>4 DEF UpdateFinalized, Hash!vars
  <2>5. CASE Read
    BY <2>5 DEF Read, Hash!vars
  <2>6. CASE UNCHANGED vars
    BY <2>6 DEF vars, Hash!vars
  <2> QED BY <1>2, <2>1, <2>2, <2>3, <2>4, <2>5, <2>6 DEF Next
<1> QED BY <1>1, <1>2, Md5SpecInv, PTL DEF ImplementsHash, Hash!Spec, Spec
=============================================================================
