----------------------------- MODULE LibraryProofs -----------------------------
(***************************************************************************)
(* The functions of the libraries for any sizes: the pages of              *)
(* PagenationUtil for any int, the descriptors of execute for any table,   *)
(* the slices of slicehelper, what they read as and what its functions     *)
(* return, for any elements, lengths and number of calls, and the          *)
(* durations, instants and texts of util::time for any units and words.    *)
(***************************************************************************)
EXTENDS Library, Slices, SequenceTheorems, FiniteSetTheorems, NaturalsInduction, TLAPS

(* Arithmetic of the pages.                                                *)

LEMMA ModOfSmall ==
  ASSUME NEW m \in Nat \ {0}, NEW n \in 0 .. m - 1
  PROVE  n % m = n
  OBVIOUS

LEMMA AsIntOfInt ==
  ASSUME NEW n \in 0 .. IntMax
  PROVE  AsInt(n) = n
<1> DEFINE m == 2 * (IntMax + 1)  k == n + IntMax + 1
<1>1. IntMax \in Nat /\ m \in Nat \ {0} /\ k \in 0 .. m - 1
  BY IntMaxAssumption
<1>2. k % m = k
  <2> HIDE DEF m, k
  <2> QED BY <1>1, ModOfSmall
<1>3. AsInt(n) = (k % m) - (IntMax + 1)
  BY DEF AsInt
<1>4. AsInt(n) = k - (IntMax + 1)
  BY <1>2, <1>3
<1> QED BY <1>1, <1>4

LEMMA Product ==
  ASSUME NEW a \in Nat, NEW b \in Nat, NEW s \in Nat, a <= b
  PROVE  a * s \in Nat /\ b * s \in Nat /\ a * s <= b * s /\ (a + 1) * s = a * s + s
<1>1. PICK c \in Nat : b = a + c
  <2> WITNESS b - a \in Nat
  <2> QED OBVIOUS
<1>2. b * s = a * s + c * s /\ (a + 1) * s = a * s + 1 * s /\ 1 * s = s
  BY <1>1
<1>3. a * s \in Nat /\ c * s \in Nat
  BY <1>1
<1> QED BY <1>2, <1>3

LEMMA Division ==
  ASSUME NEW n \in Nat, NEW s \in Nat \ {0}
  PROVE  /\ n \div s \in Nat /\ n % s \in 0 .. s - 1
         /\ n = ((n \div s) * s) + (n % s)
  OBVIOUS

\* The numbers on page p, counted from 0.
LEMMA OnPage ==
  ASSUME NEW n \in Nat, NEW s \in Nat \ {0}, NEW p \in Nat
  PROVE  n \div s = p <=> p * s <= n /\ n < p * s + s
<1> DEFINE q == n \div s
<1>1. q \in Nat /\ n % s \in 0 .. s - 1 /\ n = (q * s) + (n % s)
  BY Division, Zenon
<1> HIDE DEF q
<1>2. CASE q = p
  BY <1>1, <1>2
<1>3. CASE q < p
  <2>1. (q + 1) * s <= p * s /\ (q + 1) * s = q * s + s /\ p * s \in Nat /\ q * s \in Nat
    BY <1>1, <1>3, Product
  <2> QED BY <1>1, <1>3, <2>1
<1>4. CASE q > p
  <2>1. (p + 1) * s <= q * s /\ (p + 1) * s = p * s + s /\ p * s \in Nat /\ q * s \in Nat
    BY <1>1, <1>4, Product
  <2> QED BY <1>1, <1>4, <2>1
<1> QED BY <1>1, <1>2, <1>3, <1>4 DEF q

LEMMA PageIsRight ==
  ASSUME NEW count \in 0 .. IntMax, NEW s \in 1 .. IntMax, NEW number \in 1 .. IntMax,
         NEW start, start = (number - 1) * s
  PROVE  /\ start <= IntMax /\ MinOf(start, count) + s <= IntMax
            => pagenationList(count, s, number) = {i \in 0 .. count - 1 : i \div s = number - 1}
         /\ number <= getTotalPages(count, s) <=> start < count
<1> DEFINE p == number - 1
<1>1. /\ IntMax \in Nat /\ count \in Nat /\ s \in Nat \ {0} /\ p \in Nat /\ number = p + 1
      /\ start = p * s /\ start \in Nat
  BY IntMaxAssumption
<1> HIDE DEF p
<1>2. ASSUME start <= IntMax, MinOf(start, count) + s <= IntMax
      PROVE  pagenationList(count, s, number) = {i \in 0 .. count - 1 : i \div s = p}
  <2> DEFINE first == MinOf(start, count)
             end   == MinOf(first + s, count)
  <2>1. \A i \in 0 .. count - 1 : i \div s = p <=> start <= i /\ i < start + s
    BY <1>1, OnPage
  <2>2. CASE count = 0
    <3>1. pagenationList(count, s, number) = {}
      BY <2>2 DEF pagenationList
    <3> QED BY <2>2, <3>1
  <2>3. CASE count # 0
    <3>1. first \in Nat /\ first <= count /\ (start < count => first = start) /\ (start >= count => first = count)
      BY <1>1 DEF MinOf
    <3>2. AsInt(start) = start /\ AsInt(first + s) = first + s
      BY <1>1, <1>2, <3>1, AsIntOfInt
    <3>3. pagenationList(count, s, number) = subList(count, first, end)
      BY <1>1, <2>3, <3>2 DEF pagenationList
    <3>4. end = (IF first + s < count THEN first + s ELSE count)
      BY DEF MinOf
    <3> HIDE DEF first, end
    <3>5. end <= count /\ first <= end /\ first >= 0
      BY <1>1, <3>1, <3>4
    <3>6. subList(count, first, end) = first .. end - 1
      BY <1>1, <3>1, <3>4, <3>5 DEF subList
    <3>7. \A i : i \in first .. end - 1 <=> i \in 0 .. count - 1 /\ start <= i /\ i < start + s
      BY <1>1, <3>1, <3>4
    <3> QED BY <2>1, <3>3, <3>6, <3>7, Zenon
  <2> QED BY <2>2, <2>3
<1>3. number <= getTotalPages(count, s) <=> start < count
  <2> DEFINE q == count \div s  r == count % s
  <2>1. q \in Nat /\ r \in 0 .. s - 1 /\ count = (q * s) + r
    BY <1>1, Division, Zenon
  <2>2. getTotalPages(count, s) = q + (IF r = 0 THEN 0 ELSE 1)
    BY <1>1 DEF getTotalPages
  <2> HIDE DEF q, r
  <2>3. CASE p < q
    <3>1. p + 1 <= q /\ (p + 1) * s <= q * s /\ (p + 1) * s = p * s + s
      BY <1>1, <2>1, <2>3, Product
    <3> QED BY <1>1, <2>1, <2>2, <2>3, <3>1
  <2>4. CASE p = q
    BY <1>1, <2>1, <2>2, <2>4
  <2>5. CASE p > q
    <3>1. q + 1 <= p /\ (q + 1) * s <= p * s /\ (q + 1) * s = q * s + s
      BY <1>1, <2>1, <2>5, Product
    <3> QED BY <1>1, <2>1, <2>2, <2>5, <3>1
  <2> QED BY <1>1, <2>1, <2>3, <2>4, <2>5
<1> QED BY <1>2, <1>3 DEF p

-----------------------------------------------------------------------------
(* Descriptors.                                                            *)

Fds == 0 .. MaxFd
Tables == [Fds -> Fds \cup {Closed}]

\* What descriptor n of the table t becomes if it is to be what x is.
To(t, x, n) == IF x < 0 THEN Closed ELSE IF t[x] = Closed THEN t[n] ELSE t[x]

\* One descriptor is replaced: it becomes what it was to be, unless that is not open.
LEMMA ReplaceOne ==
  ASSUME NEW fds \in Tables, NEW arg \in -1 .. MaxFd, NEW n \in Fds
  PROVE  /\ Replace(fds, arg, n) \in Tables
         /\ \A k \in Fds \ {n} : Replace(fds, arg, n)[k] = fds[k]
         /\ Replace(fds, arg, n)[n] = To(fds, arg, n)
<1>1. MaxFd \in Nat
  BY MaxFdAssumption
<1>2. CASE arg < 0
  <2>1. Replace(fds, arg, n) = [fds EXCEPT ![n] = Closed]
    BY <1>2 DEF Replace, close
  <2> QED BY <1>2, <2>1 DEF Tables, To
<1>3. CASE arg = n
  <2>1. Replace(fds, arg, n) = fds
    BY <1>1, <1>3 DEF Replace, Fds
  <2> QED BY <1>1, <1>3, <2>1 DEF Tables, Fds, To
<1>4. CASE arg >= 0 /\ arg # n
  <2>1. Replace(fds, arg, n) = dup2(fds, arg, n) /\ arg \in Fds
    BY <1>1, <1>4 DEF Replace, Fds
  <2>2. CASE fds[arg] = Closed
    BY <1>4, <2>1, <2>2 DEF dup2, Tables, To
  <2>3. CASE fds[arg] # Closed
    BY <1>4, <2>1, <2>3 DEF dup2, Tables, To
  <2> QED BY <2>2, <2>3
<1> QED BY <1>1, <1>2, <1>3, <1>4 DEF Fds

LEMMA StdioIsRight ==
  ASSUME NEW fds \in Tables, NEW a \in [1 .. 3 -> -1 .. MaxFd],
         NEW result, result = set_stdio(fds, a[1], a[2], a[3]),
         call = [fn |-> "stdio", fds |-> fds, args |-> a, result |-> result]
  PROVE  StdioAsAsked
<1> DEFINE in  == Replace(fds, a[1], 0)
           out == Replace(in, a[2], 1)
           Becomes(t, n) == To(t, a[n + 1], n)
<1>1. /\ MaxFd \in Nat /\ {0, 1, 2} \subseteq Fds
      /\ a[1] \in -1 .. MaxFd /\ a[2] \in -1 .. MaxFd /\ a[3] \in -1 .. MaxFd
  BY MaxFdAssumption DEF Fds
<1>2. result = Replace(out, a[3], 2)
  BY DEF set_stdio
<1>3. in \in Tables /\ (\A k \in Fds \ {0} : in[k] = fds[k]) /\ in[0] = To(fds, a[1], 0)
  BY <1>1, ReplaceOne, Zenon
<1> HIDE DEF in
<1>4. out \in Tables /\ (\A k \in Fds \ {1} : out[k] = in[k]) /\ out[1] = To(in, a[2], 1)
  BY <1>1, <1>3, ReplaceOne, Zenon
<1> HIDE DEF out
<1>5. (\A k \in Fds \ {2} : result[k] = out[k]) /\ result[2] = To(out, a[3], 2)
  <2>1. out \in Tables /\ a[3] \in -1 .. MaxFd /\ 2 \in Fds
    BY <1>1, <1>4
  <2>2. /\ \A k \in Fds \ {2} : Replace(out, a[3], 2)[k] = out[k]
        /\ Replace(out, a[3], 2)[2] = To(out, a[3], 2)
    BY <2>1, ReplaceOne, Zenon
  <2> QED BY <1>2, <2>2, Zenon
<1>6. /\ result[0] = in[0] /\ result[1] = out[1]
      /\ \A k \in Fds \ {0, 1, 2} : result[k] = fds[k]
  BY <1>1, <1>3, <1>4, <1>5
<1> DEFINE Asked(n) == IF a[n + 1] < 0 THEN Closed
                       ELSE IF fds[a[n + 1]] = Closed THEN fds[n] ELSE fds[a[n + 1]]
           Taken(n) == a[n + 1] \in 0 .. n - 1 /\ result[a[n + 1]] # fds[a[n + 1]]
           Right(n) == /\ ~Taken(n) => result[n] = Asked(n)
                       /\ Taken(n) => result[n] \in {result[a[n + 1]], fds[n]}
<1>7. ASSUME NEW t \in Tables, NEW n \in {0, 1, 2}, result[n] = Becomes(t, n),
             \A k \in Fds : k >= n => t[k] = fds[k],
             \A k \in Fds : k < n => t[k] = result[k]
      PROVE  Right(n)
  <2> DEFINE x == a[n + 1]
  <2>1. x \in -1 .. MaxFd /\ n \in Fds /\ n \in Nat /\ t[n] = fds[n] /\ (x >= 0 => x \in Fds)
    BY <1>1, <1>7 DEF Fds
  <2>2. result[n] = IF x < 0 THEN Closed ELSE IF t[x] = Closed THEN fds[n] ELSE t[x]
    BY <1>7, <2>1 DEF To
  <2>3. Asked(n) = IF x < 0 THEN Closed ELSE IF fds[x] = Closed THEN fds[n] ELSE fds[x]
    OBVIOUS
  <2>4. Taken(n) <=> x \in 0 .. n - 1 /\ result[x] # fds[x]
    OBVIOUS
  <2>5. \A k \in Fds : k >= n => t[k] = fds[k]
    BY <1>7
  <2>6. \A k \in Fds : k < n => t[k] = result[k]
    BY <1>7
  <2>7. Taken(n) => result[n] \in {result[x], fds[n]}
    <3> HIDE DEF x, Taken
    <3> QED BY <1>1, <2>1, <2>2, <2>4, <2>6
  <2>8. ~Taken(n) => result[n] = Asked(n)
    <3> HIDE DEF x, Taken, Asked
    <3> QED BY <1>1, <2>1, <2>2, <2>3, <2>4, <2>5, <2>6
  <2> QED BY <2>7, <2>8
<1>8. 0 + 1 = 1 /\ 1 + 1 = 2 /\ 2 + 1 = 3
  OBVIOUS
<1>9. To(fds, a[1], 0) = Becomes(fds, 0) /\ To(in, a[2], 1) = Becomes(in, 1) /\ To(out, a[3], 2) = Becomes(out, 2)
  BY <1>8
<1> HIDE DEF Becomes, Right
<1>10. Right(0)
  <2>1. \A k \in Fds : /\ k >= 0 => fds[k] = fds[k]
                       /\ k < 0 => fds[k] = result[k]
    BY <1>1 DEF Fds
  <2>2. result[0] = Becomes(fds, 0)
    BY <1>3, <1>6, <1>9
  <2> QED BY <1>7, <2>1, <2>2
<1>11. Right(1)
  <2>1. \A k \in Fds : /\ k >= 1 => in[k] = fds[k]
                       /\ k < 1 => in[k] = result[k]
    BY <1>1, <1>3, <1>6 DEF Fds
  <2>2. result[1] = Becomes(in, 1)
    BY <1>4, <1>6, <1>9
  <2> QED BY <1>3, <1>7, <2>1, <2>2
<1>12. Right(2)
  <2>1. \A k \in Fds : /\ k >= 2 => out[k] = fds[k]
                       /\ k < 2 => out[k] = result[k]
    BY <1>1, <1>3, <1>4, <1>5 DEF Fds
  <2> QED BY <1>4, <1>5, <1>7, <1>9, <2>1
<1>13. \A n \in 3 .. MaxFd : result[n] = fds[n]
  BY <1>1, <1>6 DEF Fds
<1>14. call.fn = "stdio" /\ call.fds = fds /\ call.args = a /\ call.result = result
  OBVIOUS
<1>15. 0 .. 2 = {0, 1, 2} /\ 1 .. 2 = {1, 2}
  OBVIOUS
<1>16. \A n \in {0, 1, 2} : Right(n)
  BY <1>10, <1>11, <1>12
<1> QED BY <1>13, <1>14, <1>15, <1>16 DEF StdioAsAsked, Right

-----------------------------------------------------------------------------
(* A call has the result that its function gives for its arguments.        *)

PageCalls ==
  call.fn = "page" =>
    \E count \in 0 .. IntMax, pageSize \in 1 .. IntMax, pageNumber \in 1 .. IntMax :
      call = [fn |-> "page", count |-> count, pageSize |-> pageSize, pageNumber |-> pageNumber,
              result |-> pagenationList(count, pageSize, pageNumber)]

StdioCalls ==
  call.fn = "stdio" =>
    \E fds \in Tables, a \in [1 .. 3 -> -1 .. MaxFd] :
      call = [fn |-> "stdio", fds |-> fds, args |-> a,
              result |-> set_stdio(fds, a[1], a[2], a[3])]

LEMMA OtherCalls ==
  ASSUME \/ CallString \/ CallBytes \/ CallPath \/ CallUri \/ CallDuration \/ CallInstant
         \/ CallPlain \/ CallHourMinute \/ CallTimeUnit \/ CallPipe
  PROVE  call'.fn \notin {"page", "stdio", "utc"}
<1>1. CASE CallString \/ CallHourMinute
  BY <1>1 DEF CallString, CallHourMinute, Made
<1>2. CASE CallBytes
  BY <1>2 DEF CallBytes, Made
<1>3. CASE CallPath
  BY <1>3 DEF CallPath, Made
<1>4. CASE CallUri
  BY <1>4 DEF CallUri, Made
<1>5. CASE CallDuration \/ CallInstant
  BY <1>5 DEF CallDuration, CallInstant, Made
<1>6. CASE CallPlain
  BY <1>6 DEF CallPlain, Made
<1>7. CASE CallTimeUnit
  <2>1. PICK n \in 0 .. 800, unit \in DOMAIN Seconds \cup {"ms", "other"}, to \in DOMAIN Seconds :
          Made([fn |-> "unit", n |-> n, unit |-> unit, to |-> to, result |-> ParseTimeUnitTo(n, unit, to)])
    BY <1>7, Zenon DEF CallTimeUnit
  <2> QED BY <2>1 DEF Made
<1>8. CASE CallPipe
  BY <1>8 DEF CallPipe, Made
<1> QED BY <1>1, <1>2, <1>3, <1>4, <1>5, <1>6, <1>7, <1>8

LEMMA CallsInv == LibrarySpec => [](PageCalls /\ StdioCalls)
<1>1. LibraryInit => PageCalls /\ StdioCalls
  BY DEF LibraryInit, NoCall, PageCalls, StdioCalls
<1>2. ASSUME PageCalls, StdioCalls, [LibraryNext]_LibraryVars
      PROVE  PageCalls' /\ StdioCalls'
  <2>1. CASE UNCHANGED LibraryVars
    BY <1>2, <2>1 DEF LibraryVars, PageCalls, StdioCalls
  <2>2. CASE CallPage
    <3>1. PICK count \in 0 .. IntMax, pageSize \in 1 .. IntMax, pageNumber \in 1 .. IntMax :
            call' = [fn |-> "page", count |-> count, pageSize |-> pageSize, pageNumber |-> pageNumber,
                     result |-> pagenationList(count, pageSize, pageNumber)]
      BY <2>2 DEF CallPage, Made
    <3>2. call'.fn = "page"
      BY <3>1
    <3> QED BY <3>1, <3>2 DEF PageCalls, StdioCalls
  <2>3. CASE CallStdio
    <3> DEFINE T(open) == [n \in 0 .. MaxFd |-> IF n \in open THEN n ELSE Closed]
    <3>1. PICK open \in SUBSET (0 .. MaxFd), a \in [1 .. 3 -> -1 .. MaxFd] :
            call' = [fn |-> "stdio", fds |-> T(open), args |-> a,
                     result |-> set_stdio(T(open), a[1], a[2], a[3])]
      BY <2>3, Zenon DEF CallStdio, Made
    <3>2. T(open) \in Tables
      BY DEF Tables, Fds
    <3> HIDE DEF T
    <3>3. call'.fn = "stdio"
      BY <3>1
    <3> QED BY <3>1, <3>2, <3>3 DEF PageCalls, StdioCalls
  <2>4. ASSUME call'.fn \notin {"page", "stdio"} PROVE PageCalls' /\ StdioCalls'
    BY <2>4 DEF PageCalls, StdioCalls
  <2>5. CASE CallPrint \/ CallGetUtcTime
    BY <2>4, <2>5 DEF CallPrint, CallGetUtcTime
  <2> QED BY <1>2, <2>1, <2>2, <2>3, <2>4, <2>5, OtherCalls DEF LibraryNext, CallPure
<1> QED BY <1>1, <1>2, PTL DEF LibrarySpec

\* PagesPartition: for ints of any width the pages of a list are the parts of it of
\* pageSize elements in order, unless the bounds of a page overflow, and there are as
\* many as getTotalPages says (PagenationUtil.java).
THEOREM PagesTheorem == LibrarySpec => []PagesPartition
<1>1. ASSUME PageCalls PROVE PagesPartition
  <2>1. ASSUME call.fn = "page"
        PROVE  /\ (call.pageNumber - 1) * call.pageSize <= IntMax
                  /\ MinOf((call.pageNumber - 1) * call.pageSize, call.count) + call.pageSize <= IntMax
                  => call.result = {i \in 0 .. call.count - 1 : i \div call.pageSize = call.pageNumber - 1}
               /\ call.pageNumber <= getTotalPages(call.count, call.pageSize)
                  <=> (call.pageNumber - 1) * call.pageSize < call.count
    <3>1. PICK count \in 0 .. IntMax, pageSize \in 1 .. IntMax, pageNumber \in 1 .. IntMax :
            call = [fn |-> "page", count |-> count, pageSize |-> pageSize, pageNumber |-> pageNumber,
                    result |-> pagenationList(count, pageSize, pageNumber)]
      BY <1>1, <2>1 DEF PageCalls
    <3>2. /\ call.count = count /\ call.pageSize = pageSize /\ call.pageNumber = pageNumber
          /\ call.result = pagenationList(count, pageSize, pageNumber)
      BY <3>1
    <3> DEFINE start == (pageNumber - 1) * pageSize
    <3>3. /\ start <= IntMax /\ MinOf(start, count) + pageSize <= IntMax
             => pagenationList(count, pageSize, pageNumber)
                  = {i \in 0 .. count - 1 : i \div pageSize = pageNumber - 1}
          /\ pageNumber <= getTotalPages(count, pageSize) <=> start < count
      BY PageIsRight
    <3> QED BY <3>2, <3>3
  <2> QED BY <2>1 DEF PagesPartition
<1> QED BY <1>1, CallsInv, PTL

\* StdioAsAsked: for a table of any size each descriptor of the child is what was asked
\* for, or what an earlier replacement has made of it (process.cc:94-104).
THEOREM StdioTheorem == LibrarySpec => []StdioAsAsked
<1>1. ASSUME StdioCalls PROVE StdioAsAsked
  <2>1. CASE call.fn = "stdio"
    BY <1>1, <2>1, StdioIsRight DEF StdioCalls
  <2>2. CASE call.fn # "stdio"
    BY <2>2 DEF StdioAsAsked
  <2> QED BY <2>1, <2>2
<1> QED BY <1>1, CallsInv, PTL

-----------------------------------------------------------------------------
(* UTC.                                                                    *)

LEMMA NumberIs ==
  DOMAIN Number = {"0", "2", "6"} /\ Number["0"] = 0 /\ Number["2"] = 2 /\ Number["6"] = 6
<1>1. DOMAIN Number = {"0", "2", "6"}
  BY DEF Number
<1>2. Number["0"] = 0 /\ Number["2"] = 2
  BY DEF Number
<1>3. Number["6"] = 6
  BY DEF Number
<1> QED BY <1>1, <1>2, <1>3

LEMMA Decimal ==
  ASSUME NEW a \in 0 .. 9, NEW b \in 0 .. 9, NEW c \in 0 .. 9
  PROVE  10 * (10 * a + b) + c = 100 * a + 10 * b + c /\ 100 * a + 10 * b + c \in 0 .. 999
<1>1. a \in Nat /\ a <= 9 /\ b \in Nat /\ b <= 9 /\ c \in Nat /\ c <= 9
  OBVIOUS
<1>2. 10 * (10 * a + b) + c = 100 * a + 10 * b + c
  BY <1>1
<1>3. 100 * a + 10 * b + c \in 0 .. 999
  BY <1>1
<1> QED BY <1>2, <1>3

\* Three digits have the value that they print, which is below 1000.
LEMMA ThreeDigits ==
  ASSUME NEW s \in Seq(DOMAIN Number), Len(s) = 3
  PROVE  /\ Value(s) = 100 * Number[s[1]] + 10 * Number[s[2]] + Number[s[3]]
         /\ Value(s) \in Nat /\ Value(s) < 1000
<1> DEFINE D == 0 .. Len(s)
           Is(v) == v = [i \in D |-> IF i = 0 THEN 0 ELSE 10 * v[i - 1] + Number[s[i]]]
           v == CHOOSE w : Is(w)
<1>1. Value(s) = v[Len(s)]
  BY DEF Value
<1>2. D = {0, 1, 2, 3}
  OBVIOUS
<1>3. PICK a, b, c \in 0 .. 9 : a = Number[s[1]] /\ b = Number[s[2]] /\ c = Number[s[3]]
  <2>1. \A i \in 1 .. 3 : s[i] \in {"0", "2", "6"}
    <3>1. PICK S : S = DOMAIN Number
      OBVIOUS
    <3>2. \A i \in 1 .. 3 : s[i] \in S
      BY <3>1
    <3> QED BY <3>1, <3>2, NumberIs
  <2>2. \A d \in {"0", "2", "6"} : Number[d] \in {0, 2, 6}
    BY NumberIs
  <2>3. Number[s[1]] \in 0 .. 9 /\ Number[s[2]] \in 0 .. 9 /\ Number[s[3]] \in 0 .. 9
    BY <2>1, <2>2
  <2> QED BY <2>3, Zenon
<1>4. \E w : Is(w)
  <2> DEFINE w == [i \in D |-> CASE i = 0 -> 0 [] i = 1 -> a [] i = 2 -> 10 * a + b [] OTHER -> 10 * (10 * a + b) + c]
  <2>1. w[0] = 0 /\ w[1] = a /\ w[2] = 10 * a + b /\ w[3] = 10 * (10 * a + b) + c
    BY <1>2
  <2>2. \A i \in D : w[i] = IF i = 0 THEN 0 ELSE 10 * w[i - 1] + Number[s[i]]
    <3> HIDE DEF w, D
    <3>1. 1 - 1 = 0 /\ 2 - 1 = 1 /\ 3 - 1 = 2 /\ 10 * 0 + a = a
      BY <1>3
    <3>2. w[1] = 10 * w[1 - 1] + Number[s[1]] /\ w[2] = 10 * w[2 - 1] + Number[s[2]]
      BY <1>3, <2>1, <3>1
    <3>3. w[3] = 10 * w[3 - 1] + Number[s[3]]
      BY <1>3, <2>1, <3>1
    <3> QED BY <1>2, <2>1, <3>2, <3>3
  <2>3. w = [i \in D |-> w[i]]
    OBVIOUS
  <2> HIDE DEF w, D
  <2>4. Is(w)
    BY <2>2, <2>3, Zenon
  <2> QED BY <2>4, Zenon
<1>5. Is(v)
  BY <1>4
<1> HIDE DEF v
<1>6. v[0] = 0 /\ v[1] = a /\ v[2] = 10 * a + b /\ v[3] = 10 * (10 * a + b) + c
  <2>1. \A i \in D : v[i] = IF i = 0 THEN 0 ELSE 10 * v[i - 1] + Number[s[i]]
    BY <1>5
  <2> HIDE DEF Is, D
  <2>2. v[0] = 0
    BY <1>2, <2>1
  <2>3. v[1] = a
    BY <1>2, <1>3, <2>1, <2>2
  <2>4. v[2] = 10 * a + b
    BY <1>2, <1>3, <2>1, <2>3
  <2>5. v[3] = 10 * (10 * a + b) + c
    BY <1>2, <1>3, <2>1, <2>4
  <2> QED BY <2>2, <2>3, <2>4, <2>5
<1>7. Value(s) = 10 * (10 * a + b) + c
  BY <1>1, <1>6
<1>8. 10 * (10 * a + b) + c = 100 * a + 10 * b + c /\ 100 * a + 10 * b + c \in 0 .. 999
  BY Decimal
<1> HIDE DEF D, Is
<1>9. Value(s) = 100 * a + 10 * b + c
  BY <1>7, <1>8
<1>10. Value(s) \in 0 .. 999
  BY <1>8, <1>9
<1>11. Value(s) \in Nat /\ Value(s) < 1000
  <2> DEFINE n == Value(s)
  <2>1. n \in 0 .. 999
    BY <1>10
  <2> HIDE DEF n
  <2>2. n \in Nat /\ n < 1000
    BY <2>1
  <2> QED BY <2>2 DEF n
<1>12. 100 * a + 10 * b + c = 100 * Number[s[1]] + 10 * Number[s[2]] + Number[s[3]]
  BY <1>3
<1> QED BY <1>9, <1>11, <1>12

\* The zone stays what it was, so the result of the last call is one in this zone.
UtcCalls ==
  call.fn = "utc" =>
    \E wall \in Walls, fraction \in Seq(DOMAIN Number), known \in BOOLEAN :
      call = [fn |-> "utc", wall |-> wall, fraction |-> fraction, tz_set |-> known,
              result |-> GetUtcTime(zone, known, wall, fraction)]

UtcInv == tz_set \in BOOLEAN /\ UtcCalls

LEMMA UtcIsRight ==
  ASSUME NEW wall, NEW fraction \in Seq(DOMAIN Number), NEW known \in BOOLEAN,
         known \/ zone.std = 0, ~InDst(zone, wall - zone.std), Len(fraction) = 3
  PROVE  GetUtcTime(zone, known, wall, fraction)
           = {[sec |-> wall - zone.std, ms |-> Value(fraction)]}
<1>1. fraction # <<>> /\ ~(Value(fraction) >= 1000)
  <2>1. Len(<<>>) # 3
    OBVIOUS
  <2>2. Value(fraction) \in Nat /\ Value(fraction) < 1000
    BY ThreeDigits
  <2>3. fraction # <<>>
    BY <2>1, Zenon
  <2>4. \A n \in Nat : n < 1000 => ~(n >= 1000)
    OBVIOUS
  <2> QED BY <2>2, <2>3, <2>4
<1>2. GetTimeZoneOffset(zone, known) = zone.std
  BY DEF GetTimeZoneOffset
<1>3. mktime(zone, wall - zone.std) = wall - zone.std
  BY DEF mktime
<1> QED BY <1>1, <1>2, <1>3 DEF GetUtcTime

LEMMA UtcCallsInv == LibrarySpec => []UtcInv
<1>1. LibraryInit => UtcInv
  <2>1. NoCall.fn # "utc"
    BY DEF NoCall
  <2> QED BY <2>1, Zenon DEF LibraryInit, UtcInv, UtcCalls
<1>2. ASSUME UtcInv, [LibraryNext]_LibraryVars PROVE UtcInv'
  <2>1. CASE UNCHANGED LibraryVars
    BY <1>2, <2>1 DEF LibraryVars, UtcInv, UtcCalls
  <2>2. CASE CallGetUtcTime
    <3>1. PICK wall \in Walls,
               fraction \in {<<>>, <<"6">>, <<"0", "6", "0">>, <<"6", "0", "0", "0">>} :
            /\ tz_set' = (tz_set \/ GetUtcTime(zone, tz_set, wall, fraction) # {})
            /\ call' = [fn |-> "utc", wall |-> wall, fraction |-> fraction, tz_set |-> tz_set,
                        result |-> GetUtcTime(zone, tz_set, wall, fraction)]
      BY <2>2, Zenon DEF CallGetUtcTime
    <3>2. fraction \in Seq(DOMAIN Number)
      <4> DEFINE D == DOMAIN Number
      <4>1. "0" \in D /\ "6" \in D
        BY NumberIs
      <4> HIDE DEF D
      <4>2. /\ <<>> \in Seq(D) /\ <<"6">> \in Seq(D) /\ <<"0", "6", "0">> \in Seq(D)
            /\ <<"6", "0", "0", "0">> \in Seq(D)
        BY <4>1
      <4> QED BY <3>1, <4>2, Zenon DEF D
    <3>3. zone' = zone
      BY <2>2 DEF CallGetUtcTime
    <3>4. tz_set' \in BOOLEAN
      BY <3>1
    <3>5. UtcCalls'
      BY <1>2, <3>1, <3>2, <3>3 DEF UtcInv, UtcCalls
    <3> QED BY <3>4, <3>5 DEF UtcInv
  <2>3. CASE CallPrint
    BY <1>2, <2>3 DEF CallPrint, UtcInv, UtcCalls
  <2>4. CASE CallPure
    <3>1. tz_set' = tz_set
      BY <2>4, Zenon DEF CallPure, CallString, CallBytes, CallPath, CallUri, CallDuration, CallInstant,
                  CallPlain, CallHourMinute, CallTimeUnit, CallStdio, CallPipe, CallPage, Made
    <3>2. call'.fn # "utc"
      <4>1. CASE CallStdio
        <5>1. call'.fn = "stdio"
          BY <4>1 DEF CallStdio, Made
        <5> QED BY <5>1
      <4>2. CASE CallPage
        <5>1. call'.fn = "page"
          BY <4>2 DEF CallPage, Made
        <5> QED BY <5>1
      <4> QED BY <2>4, <4>1, <4>2, OtherCalls DEF CallPure
    <3> QED BY <1>2, <3>1, <3>2 DEF UtcInv, UtcCalls
  <2> QED BY <1>2, <2>1, <2>2, <2>3, <2>4 DEF LibraryNext
<1> QED BY <1>1, <1>2, PTL DEF LibrarySpec

\* UtcTimeRight: in any zone and at any time of the wall clock, a local time becomes the
\* same time in UTC if the zone is known or is UTC and no daylight saving is in it.
THEOREM UtcTheorem == LibrarySpec => []UtcTimeRight
<1>1. ASSUME UtcInv PROVE UtcTimeRight
  <2>1. ASSUME call.fn = "utc", call.tz_set \/ zone.std = 0, Len(call.fraction) = 3,
               ~InDst(zone, call.wall - zone.std)
        PROVE  call.result = {[sec |-> call.wall - zone.std, ms |-> Value(call.fraction)]}
    <3>1. PICK wall \in Walls, fraction \in Seq(DOMAIN Number), known \in BOOLEAN :
            call = [fn |-> "utc", wall |-> wall, fraction |-> fraction, tz_set |-> known,
                    result |-> GetUtcTime(zone, known, wall, fraction)]
      BY <1>1, <2>1 DEF UtcInv, UtcCalls
    <3>2. /\ call.wall = wall /\ call.fraction = fraction /\ call.tz_set = known
          /\ call.result = GetUtcTime(zone, known, wall, fraction)
      BY <3>1
    <3>3. known \/ zone.std = 0
      BY <2>1, <3>2
    <3>4. ~InDst(zone, wall - zone.std) /\ Len(fraction) = 3
      BY <2>1, <3>2
    <3>5. GetUtcTime(zone, known, wall, fraction)
            = {[sec |-> wall - zone.std, ms |-> Value(fraction)]}
      BY <3>3, <3>4, UtcIsRight, Zenon
    <3> QED BY <3>2, <3>5
  <2> QED BY <2>1 DEF UtcTimeRight
<1> QED BY <1>1, UtcCallsInv, PTL

-----------------------------------------------------------------------------
(* Slices.                                                                 *)

\* A sequence, of whatever it has as elements.
IsSequence(s) == s \in Seq({s[i] : i \in 1 .. Len(s)})

LEMMA AppendAny ==
  ASSUME NEW s, IsSequence(s), NEW e
  PROVE  /\ IsSequence(Append(s, e))
         /\ Len(s) \in Nat /\ Len(Append(s, e)) = Len(s) + 1
         /\ \A i \in 1 .. Len(s) : Append(s, e)[i] = s[i]
         /\ Append(s, e)[Len(s) + 1] = e
<1> DEFINE R == {s[i] : i \in 1 .. Len(s)}
           T == R \cup {e}
           t == Append(s, e)
<1>1. s \in Seq(R) /\ Len(s) \in Nat
  BY LenProperties DEF IsSequence
<1>2. s \in Seq(T)
  BY <1>1, SeqMonotonic
<1>3. /\ t \in Seq(T) /\ Len(t) = Len(s) + 1
      /\ \A i \in 1 .. Len(s) : t[i] = s[i]
      /\ t[Len(s) + 1] = e
  <2> HIDE DEF T
  <2>1. e \in T
    BY DEF T
  <2> QED BY <1>2, <2>1, AppendProperties
<1> HIDE DEF t
<1>4. t \in Seq({t[i] : i \in 1 .. Len(t)})
  <2> HIDE DEF T
  <2> QED BY <1>3, SeqOfRange, RangeOfSeq
<1> QED BY <1>1, <1>3, <1>4, Zenon DEF t, IsSequence

\* What a handle h says, and that its array is one of n.
Held(h, n) ==
  /\ h = [array |-> h.array, off |-> h.off, len |-> h.len, cap |-> h.cap]
  /\ h.array \in 0 .. n

SlicesInv ==
  /\ IsSequence(heap) /\ IsSequence(slices)
  /\ \A i \in 1 .. Len(slices) : Held(slices[i], Len(heap))

\* The calls but Remove only add: an array, a handle.
NewArray == heap' = heap \/ \E r : heap' = Append(heap, r)
NewHandle == slices' = slices \/ \E h : Held(h, Len(heap)') /\ slices' = Append(slices, h)

LEMMA AddKeeps ==
  ASSUME SlicesInv, NewArray, NewHandle
  PROVE  /\ SlicesInv'
         /\ \A i \in DOMAIN slices : Read(slices[i])' = Read(slices[i])
<1>1. /\ IsSequence(heap') /\ Len(heap) \in Nat /\ Len(heap') \in Nat /\ Len(heap) <= Len(heap')
      /\ \A a \in 1 .. Len(heap) : heap'[a] = heap[a]
  <2>1. Len(heap) \in Nat
    BY LenProperties DEF SlicesInv, IsSequence
  <2>2. CASE heap' = heap
    BY <2>1, <2>2 DEF SlicesInv
  <2>3. CASE heap' # heap
    <3>1. PICK r : heap' = Append(heap, r)
      BY <2>3 DEF NewArray
    <3>2. /\ IsSequence(Append(heap, r)) /\ Len(Append(heap, r)) = Len(heap) + 1
          /\ \A a \in 1 .. Len(heap) : Append(heap, r)[a] = heap[a]
      BY AppendAny DEF SlicesInv
    <3> QED BY <2>1, <3>1, <3>2
  <2> QED BY <2>2, <2>3
<1>2. /\ IsSequence(slices') /\ Len(slices) \in Nat /\ Len(slices) <= Len(slices') /\ Len(slices') \in Nat
      /\ \A i \in 1 .. Len(slices) : slices'[i] = slices[i]
      /\ \A i \in 1 .. Len(slices') : i \in 1 .. Len(slices) \/ Held(slices'[i], Len(heap'))
  <2>1. Len(slices) \in Nat
    BY LenProperties DEF SlicesInv, IsSequence
  <2>2. CASE slices' = slices
    BY <2>1, <2>2 DEF SlicesInv
  <2>3. CASE slices' # slices
    <3>1. PICK h : Held(h, Len(heap')) /\ slices' = Append(slices, h)
      BY <2>3 DEF NewHandle
    <3> DEFINE t == Append(slices, h)  n == Len(slices)
    <3>2. /\ IsSequence(t) /\ Len(t) = n + 1
          /\ \A i \in 1 .. n : t[i] = slices[i]
          /\ t[n + 1] = h
      BY AppendAny DEF SlicesInv
    <3> HIDE DEF t
    <3>3. slices' = t /\ n \in Nat
      BY <2>1, <3>1 DEF t
    <3> HIDE DEF n
    <3>4. \A i \in 1 .. Len(t) : i \in 1 .. n \/ Held(t[i], Len(heap'))
      <4> SUFFICES ASSUME NEW i \in 1 .. Len(t) PROVE i \in 1 .. n \/ Held(t[i], Len(heap'))
        OBVIOUS
      <4>1. i \in 1 .. n \/ i = n + 1
        BY <3>2, <3>3
      <4> QED BY <3>1, <3>2, <4>1
    <3> QED BY <3>2, <3>3, <3>4 DEF n
  <2> QED BY <2>2, <2>3
<1>3. \A h : Held(h, Len(heap)) => Held(h, Len(heap'))
  BY <1>1 DEF Held
<1>4. \A i \in 1 .. Len(slices') : Held(slices'[i], Len(heap'))
  BY <1>2, <1>3 DEF SlicesInv
<1>5. SlicesInv'
  BY <1>1, <1>2, <1>4 DEF SlicesInv
<1>6. ASSUME NEW i \in DOMAIN slices PROVE Read(slices[i])' = Read(slices[i])
  <2>1. i \in 1 .. Len(slices)
    BY LenProperties, Zenon DEF SlicesInv, IsSequence
  <2>2. Held(slices[i], Len(heap)) /\ slices'[i] = slices[i]
    BY <1>2, <2>1 DEF SlicesInv
  <2>3. slices[i].array = 0 \/ heap'[slices[i].array] = heap[slices[i].array]
    BY <1>1, <2>2 DEF Held
  <2> QED BY <2>2, <2>3 DEF Read
<1> QED BY <1>5, <1>6

LEMMA ReturnsAdds ==
  ASSUME SlicesInv, NEW fn, NEW s, NEW t, NEW v, NEW r, NEW none \in BOOLEAN,
         Returns(fn, s, t, v, r, none)
  PROVE  NewArray /\ NewHandle
<1>1. IsSequence(heap)
  BY DEF SlicesInv
<1>2. CASE none
  <2>1. heap' = heap /\ slices' = Append(slices, nil)
    BY <1>2 DEF Returns
  <2>2. Len(heap) \in Nat
    BY <1>1, LenProperties DEF IsSequence
  <2>3. Held(nil, Len(heap'))
    BY <2>1, <2>2 DEF Held, nil
  <2> QED BY <2>1, <2>3 DEF NewArray, NewHandle
<1>3. CASE ~none
  <2>1. heap' = Append(heap, r) /\ slices' = Append(slices, Whole(Len(heap) + 1, r))
    BY <1>3 DEF Returns
  <2>2. Len(heap) \in Nat /\ Len(Append(heap, r)) = Len(heap) + 1
    BY <1>1, AppendAny
  <2>3. Held(Whole(Len(heap) + 1, r), Len(heap'))
    BY <2>1, <2>2 DEF Held, Whole
  <2> QED BY <2>1, <2>3 DEF NewArray, NewHandle
<1> QED BY <1>2, <1>3

LEMMA RecordExcept ==
  ASSUME NEW a, NEW o, NEW l, NEW c, NEW x, NEW y, NEW z,
         NEW h, h = [array |-> a, off |-> o, len |-> l, cap |-> c],
         NEW f, f = [h EXCEPT !.len = y],
         NEW g, g = [h EXCEPT !.off = x, !.len = y, !.cap = z]
  PROVE  /\ f = [array |-> a, off |-> o, len |-> y, cap |-> c]
         /\ g = [array |-> a, off |-> x, len |-> y, cap |-> z]
  BY Zenon

\* A part of what the caller holds is in the same array.
LEMMA PartAdds ==
  ASSUME SlicesInv, NEW h, Held(h, Len(heap)), UNCHANGED heap,
         Pop(h) \/ Shift(h)
  PROVE  NewArray /\ NewHandle
<1> DEFINE n == Len(heap)
<1>1. n \in Nat /\ Len(heap') = n
  BY LenProperties DEF SlicesInv, IsSequence
<1>2. Held(nil, n)
  BY <1>1 DEF Held, nil
<1>3. \A o, l, c : Held([array |-> h.array, off |-> o, len |-> l, cap |-> c], n)
  BY DEF Held
<1>4. h = [array |-> h.array, off |-> h.off, len |-> h.len, cap |-> h.cap]
  BY DEF Held
<1> DEFINE f == [h EXCEPT !.len = @ - 1]
           g == [h EXCEPT !.off = @ + 1, !.len = @ - 1, !.cap = @ - 1]
<1>5. Held(f, n) /\ Held(g, n)
  <2> DEFINE a == h.array  o == h.off  l == h.len  c == h.cap
             x == h.off + 1  y == h.len - 1  z == h.cap - 1
  <2>1. f = [h EXCEPT !.len = y] /\ g = [h EXCEPT !.off = x, !.len = y, !.cap = z]
    OBVIOUS
  <2>2. h = [array |-> a, off |-> o, len |-> l, cap |-> c]
    BY <1>4
  <2>3. /\ Held([array |-> a, off |-> o, len |-> y, cap |-> c], n)
        /\ Held([array |-> a, off |-> x, len |-> y, cap |-> z], n)
    BY <1>3
  <2> HIDE DEF f, g, a, o, l, c, x, y, z
  <2>4. /\ f = [array |-> a, off |-> o, len |-> y, cap |-> c]
        /\ g = [array |-> a, off |-> x, len |-> y, cap |-> z]
    BY <2>1, <2>2, RecordExcept, Zenon
  <2> QED BY <2>3, <2>4
<1>6. \E k : Held(k, n) /\ slices' = Append(slices, k)
  <2>1. CASE Pop(h)
    BY <1>2, <1>5, <2>1 DEF Pop
  <2>2. CASE Shift(h)
    BY <1>2, <1>5, <2>2 DEF Shift
  <2> QED BY <2>1, <2>2
<1> QED BY <1>1, <1>6 DEF NewArray, NewHandle

\* Remove changes an array, but neither how many there are nor where the others are.
LEMMA RemoveKeeps ==
  ASSUME SlicesInv, NEW h, Held(h, Len(heap)), NEW v, RemoveCall(h, v)
  PROVE  SlicesInv' /\ last'.fn = "Remove"
<1> DEFINE n == Len(heap)
           before == IF h = nil THEN <<>> ELSE SubSeq(heap[h.array], h.off + 1, h.off + h.cap)
           done == RemoveLoop(before, h.len, v)
           x == SubSeq(heap[h.array], 1, h.off) \o done.array
           y == done.len
           f == [h EXCEPT !.len = y]
<1>1. /\ last'.fn = "Remove"
      /\ heap' = heap \/ heap' = [heap EXCEPT ![h.array] = x]
      /\ slices' = slices \/ slices' = Append(slices, f)
  <2>1. /\ Called("Remove", Read(h), <<>>, v, IF done.panic THEN Panic ELSE SubSeq(done.array, 1, done.len))
        /\ heap' = IF h = nil THEN heap ELSE [heap EXCEPT ![h.array] = SubSeq(@, 1, h.off) \o done.array]
        /\ slices' = IF done.panic THEN slices ELSE Append(slices, [h EXCEPT !.len = done.len])
    BY DEF RemoveCall
  <2>2. [heap EXCEPT ![h.array] = SubSeq(@, 1, h.off) \o done.array] = [heap EXCEPT ![h.array] = x]
    OBVIOUS
  <2>3. \A r : Called("Remove", Read(h), <<>>, v, r) => last'.fn = "Remove"
    BY DEF Called
  <2> HIDE DEF done, x
  <2> QED BY <2>1, <2>2, <2>3
<1>2. IsSequence(heap) /\ n \in Nat /\ h.array \in 0 .. n
  BY LenProperties DEF SlicesInv, IsSequence, Held
<1> HIDE DEF x, y, before, done
<1>3. IsSequence(heap') /\ Len(heap') = n
  <2>1. CASE heap' = heap
    BY <1>2, <2>1
  <2>2. CASE heap' = [heap EXCEPT ![h.array] = x] /\ h.array \in 1 .. n
    <3> DEFINE T == {heap[i] : i \in 1 .. n} \cup {x}
               t == [heap EXCEPT ![h.array] = x]
    <3>1. heap \in Seq(T) /\ x \in T
      BY <1>2, SeqMonotonic DEF IsSequence
    <3> HIDE DEF T
    <3>2. t \in Seq(T) /\ Len(t) = n
      BY <2>2, <3>1, ExceptSeq
    <3> HIDE DEF t
    <3>3. t \in Seq({t[i] : i \in 1 .. Len(t)})
      BY <3>2, SeqOfRange, RangeOfSeq
    <3> QED BY <2>2, <3>2, <3>3 DEF t, IsSequence
  <2>3. CASE heap' = [heap EXCEPT ![h.array] = x] /\ h.array = 0
    <3>1. heap \in [1 .. n -> {heap[i] : i \in 1 .. n}]
      BY <1>2, LenProperties DEF IsSequence
    <3>2. [heap EXCEPT ![h.array] = x] = heap
      BY <1>2, <2>3, <3>1
    <3> QED BY <1>2, <2>3, <3>2, Zenon
  <2> QED BY <1>1, <1>2, <2>1, <2>2, <2>3
<1>4. Held(f, n)
  <2> DEFINE a == h.array  o == h.off  l == h.len  c == h.cap
  <2>1. h = [array |-> a, off |-> o, len |-> l, cap |-> c] /\ a \in 0 .. n
    BY DEF Held
  <2>2. Held([array |-> a, off |-> o, len |-> y, cap |-> c], n)
    BY <2>1 DEF Held
  <2> HIDE DEF a, o, l, c
  <2>3. [h EXCEPT !.len = y] = [array |-> a, off |-> o, len |-> y, cap |-> c]
    <3> DEFINE g == [h EXCEPT !.off = o, !.len = y, !.cap = c]
    <3>1. f = [h EXCEPT !.len = y] /\ g = [h EXCEPT !.off = o, !.len = y, !.cap = c]
      OBVIOUS
    <3> HIDE DEF g, f
    <3>2. f = [array |-> a, off |-> o, len |-> y, cap |-> c]
      BY <2>1, <3>1, RecordExcept, Zenon
    <3> QED BY <3>1, <3>2, Zenon
  <2> QED BY <2>2, <2>3
<1> HIDE DEF f
<1>5. IsSequence(slices') /\ \A i \in 1 .. Len(slices') : Held(slices'[i], n)
  <2>1. CASE slices' = slices
    BY <2>1 DEF SlicesInv
  <2>2. CASE slices' = Append(slices, f)
    <3> DEFINE t == Append(slices, f)  m == Len(slices)
    <3>1. /\ IsSequence(t) /\ Len(t) = m + 1 /\ m \in Nat
          /\ \A i \in 1 .. m : t[i] = slices[i]
          /\ t[m + 1] = f
      BY AppendAny DEF SlicesInv
    <3>2. \A i \in 1 .. m : Held(slices[i], n)
      BY DEF SlicesInv
    <3> HIDE DEF t, m
    <3>3. \A i \in 1 .. Len(t) : Held(t[i], n)
      <4> SUFFICES ASSUME NEW i \in 1 .. Len(t) PROVE Held(t[i], n)
        OBVIOUS
      <4>1. i \in 1 .. m \/ i = m + 1
        BY <3>1
      <4> QED BY <1>4, <3>1, <3>2, <4>1
    <3>4. slices' = t
      BY <2>2 DEF t
    <3> QED BY <3>1, <3>3, <3>4
  <2> QED BY <1>1, <2>1, <2>2
<1> QED BY <1>1, <1>3, <1>5 DEF SlicesInv

LEMMA SlicesStep ==
  ASSUME SlicesInv, [Next]_vars
  PROVE  /\ SlicesInv'
         /\ \/ \A i \in DOMAIN slices : Read(slices[i])' = Read(slices[i])
            \/ \E i \in DOMAIN slices : \E v \in Elems : RemoveCall(slices[i], v)
<1>1. CASE UNCHANGED vars
  BY <1>1 DEF vars, SlicesInv, Read, IsSequence
<1>2. ASSUME NewArray, NewHandle PROVE SlicesInv' /\ \A i \in DOMAIN slices : Read(slices[i])' = Read(slices[i])
  BY <1>2, AddKeeps
<1>3. ASSUME NEW i \in DOMAIN slices, NEW j \in DOMAIN slices,
             \/ Copying(slices[i]) \/ SubtractCall(slices[i], slices[j])
             \/ RemoveAllCall(slices[i], slices[j])
             \/ Pop(slices[i]) \/ Shift(slices[i])
             \/ \E v \in Elems : RemoveCall(slices[i], v)
             \/ Query(slices[i], slices[j])
      PROVE  \/ NewArray /\ NewHandle
             \/ SlicesInv' /\ \E v \in Elems : RemoveCall(slices[i], v)
  <2> DEFINE h == slices[i]  g == slices[j]
  <2>1. Held(h, Len(heap))
    BY LenProperties, Zenon DEF SlicesInv, IsSequence
  <2>2. CASE Copying(h)
    <3>1. \E fn, s, t, v, r : \E none \in BOOLEAN : Returns(fn, s, t, v, r, none)
      <4> HIDE DEF h
      <4> QED BY <2>2, Zenon DEF Copying
    <3> QED BY <3>1, ReturnsAdds
  <2>3. CASE SubtractCall(h, g)
    <3>1. \E fn, s, t, v, r : Returns(fn, s, t, v, r, FALSE)
      BY <2>3, Zenon DEF SubtractCall
    <3> QED BY <3>1, ReturnsAdds, Zenon
  <2>4. CASE RemoveAllCall(h, g)
    <3>1. \E fn, s, t, v, r : \E none \in BOOLEAN : Returns(fn, s, t, v, r, none)
      BY <2>4, Zenon DEF RemoveAllCall
    <3> QED BY <3>1, ReturnsAdds
  <2>5. CASE Pop(h) \/ Shift(h)
    <3>1. UNCHANGED heap
      BY <2>5 DEF Pop, Shift
    <3> QED BY <2>1, <2>5, <3>1, PartAdds
  <2>6. CASE \E v \in Elems : RemoveCall(h, v)
    BY <2>1, <2>6, RemoveKeeps
  <2>7. CASE Query(h, g)
    BY <2>7 DEF Query, NewArray, NewHandle
  <2> QED BY <1>3, <2>2, <2>3, <2>4, <2>5, <2>6, <2>7
<1> QED BY <1>1, <1>2, <1>3 DEF Next

LEMMA SlicesInit == Init => SlicesInv
<1>1. Init => SlicesInv
  <2>1. ASSUME NEW x, NEW h, heap = <<x>>, slices = <<h>>, Held(h, 1) PROVE SlicesInv
    <3>1. IsSequence(<<x>>) /\ IsSequence(<<h>>) /\ Len(<<x>>) = 1
      BY DEF IsSequence
    <3>2. 1 .. Len(<<h>>) = {1} /\ <<h>>[1] = h
      OBVIOUS
    <3>3. IsSequence(heap) /\ IsSequence(slices) /\ Len(heap) = 1
      BY <2>1, <3>1
    <3>4. \A i \in 1 .. Len(slices) : i = 1 /\ slices[i] = h
      BY <2>1, <3>2
    <3> QED BY <2>1, <3>3, <3>4 DEF SlicesInv
  <2>2. ASSUME heap = <<>>, slices = <<nil>> PROVE SlicesInv
    BY <2>2 DEF SlicesInv, IsSequence, Held, nil
  <2>3. \A l, c : Held([array |-> 1, off |-> 0, len |-> l, cap |-> c], 1)
    BY DEF Held
  <2> QED BY <2>1, <2>2, <2>3 DEF Init
<1> QED BY <1>1

-----------------------------------------------------------------------------
(* What the functions on slices return, for any elements and lengths.       *)
(* Their loops are functions on the rounds: a function with the rule of the  *)
(* loop exists for any number of rounds (LoopExists), and what holds of a    *)
(* round for the one before holds of every round (LoopStays).                *)

\* Induction, as a fact about sets.
LEMMA Induct ==
  ASSUME NEW S \in SUBSET Nat, 0 \in S, \A n \in S : n + 1 \in S
  PROVE  \A n \in Nat : n \in S
<1> DEFINE R == OpToRel(<, Nat)
<1>1. IsWellFoundedOn(R, Nat)
  BY NatLessThanWellFounded, Zenon
<1>2. \A m, n \in Nat : m < n => <<m, n>> \in R
  BY DEF OpToRel
<1> HIDE DEF R
<1> SUFFICES ASSUME Nat \ S # {} PROVE FALSE
  OBVIOUS
<1>3. PICK x \in Nat \ S : \A n \in Nat \ S : ~ (<<n, x>> \in R)
  BY <1>1, WFMin, Zenon
<1>4. x # 0 /\ x - 1 \in Nat
  OBVIOUS
<1>5. x - 1 \in S
  <2>1. <<x - 1, x>> \in R
    BY <1>2, <1>4
  <2> QED BY <1>3, <1>4, <2>1
<1>6. x - 1 + 1 \in S
  BY <1>5
<1> QED BY <1>6

\* f[i] is the state of a loop of n rounds after the i-th; the rounds stay in D.
LoopOf(f, n, base, step) == f[0] = base /\ \A i \in 1 .. n : f[i] = step[i][f[i - 1]]
StaysIn(n, D, step) == \A i \in 1 .. n, l \in D : step[i][l] \in D

\* A loop of n rounds, with its states in D, has its function.
LEMMA LoopExists ==
  ASSUME NEW n \in Nat, NEW D, NEW base \in D, NEW step, StaysIn(n, D, step)
  PROVE  \E f : f \in [0 .. n -> D] /\ LoopOf(f, n, base, step)
<1> DEFINE Do(i, l) == step[i][l]
<1>0. \A i \in 1 .. n, l \in D : Do(i, l) \in D
  BY DEF StaysIn
<1>00. \A i, l : Do(i, l) = step[i][l]
  OBVIOUS
<1> HIDE DEF Do
<1> DEFINE Is(f, m) == f \in [0 .. m -> D] /\ f[0] = base
                       /\ \A i \in 1 .. m : f[i] = Do(i, f[i - 1])
           S == {m \in Nat : m <= n => \E f : Is(f, m)}
<1>1. 0 \in S
  <2>1. Is([i \in 0 .. 0 |-> base], 0)
    OBVIOUS
  <2> QED BY <2>1, Zenon
<1>2. ASSUME NEW m \in S PROVE m + 1 \in S
  <2> SUFFICES ASSUME m + 1 <= n PROVE \E f : Is(f, m + 1)
    OBVIOUS
  <2>1. PICK f : Is(f, m)
    BY <1>2
  <2> DEFINE g == [i \in 0 .. m + 1 |-> IF i = m + 1 THEN Do(m + 1, f[m]) ELSE f[i]]
  <2>2. f[m] \in D /\ m + 1 \in 1 .. n
    BY <2>1, <1>2
  <2>3. Do(m + 1, f[m]) \in D
    BY <1>0, <2>2
  <2>4. g \in [0 .. m + 1 -> D]
    BY <2>1, <2>3
  <2>5. g[0] = base
    BY <2>1, <1>2
  <2>6. \A i \in 1 .. m + 1 : g[i] = Do(i, g[i - 1])
    <3> TAKE i \in 1 .. m + 1
    <3>1. CASE i = m + 1
      <4>1. g[i] = Do(m + 1, f[m]) /\ g[i - 1] = f[m]
        BY <3>1, <1>2
      <4> QED BY <4>1, <3>1
    <3>2. CASE i # m + 1
      <4>1. i \in 1 .. m /\ i - 1 \in 0 .. m
        BY <3>2, <1>2
      <4>2. g[i] = f[i] /\ g[i - 1] = f[i - 1]
        BY <4>1, <1>2
      <4> QED BY <4>1, <4>2, <2>1
    <3> QED BY <3>1, <3>2
  <2> HIDE DEF g
  <2>7. Is(g, m + 1)
    BY <2>4, <2>5, <2>6
  <2> QED BY <2>7
<1> HIDE DEF S
<1>3. n \in S
  <2>1. S \in SUBSET Nat
    BY DEF S
  <2> QED BY <1>1, <1>2, <2>1, Induct
<1>4. PICK f : Is(f, n)
  BY <1>3 DEF S
<1> QED BY <1>4, <1>00 DEF LoopOf

\* What holds before a loop and is kept by its rounds holds after each of them.
LEMMA RoundByRound ==
  ASSUME NEW n \in Nat, NEW S, 0 \in S, \A i \in 1 .. n : i - 1 \in S => i \in S
  PROVE  \A i \in 0 .. n : i \in S
<1> DEFINE T == {m \in Nat : m <= n => m \in S}
<1>1. T \in SUBSET Nat /\ 0 \in T
  OBVIOUS
<1>2. ASSUME NEW m \in T PROVE m + 1 \in T
  <2>1. m \in Nat /\ m + 1 - 1 = m
    OBVIOUS
  <2>2. m + 1 <= n => m <= n /\ m + 1 \in 1 .. n
    BY <2>1
  <2> QED BY <2>1, <2>2
<1> HIDE DEF T
<1>3. \A m \in Nat : m \in T
  BY <1>1, <1>2, Induct
<1> QED BY <1>3 DEF T

LEMMA LoopStays ==
  ASSUME NEW n \in Nat, NEW f, NEW D, f[0] \in D, \A i \in 1 .. n : f[i - 1] \in D => f[i] \in D
  PROVE  \A i \in 0 .. n : f[i] \in D
<1> DEFINE S == {i \in 0 .. n : f[i] \in D}
<1>1. 0 \in S /\ \A i \in 1 .. n : i - 1 \in S => i \in S
  OBVIOUS
<1> HIDE DEF S
<1>2. \A i \in 0 .. n : i \in S
  BY <1>1, RoundByRound
<1> QED BY <1>2 DEF S

LEMMA LeastExists ==
  ASSUME NEW S \in SUBSET Nat, S # {}
  PROVE  \E x \in S : \A n \in S : x <= n
<1> DEFINE R == OpToRel(<, Nat)
<1>1. IsWellFoundedOn(R, Nat)
  BY NatLessThanWellFounded, Zenon
<1>2. \A m, n \in Nat : m < n => <<m, n>> \in R
  BY DEF OpToRel
<1> HIDE DEF R
<1>3. PICK x \in S : \A n \in S : ~ (<<n, x>> \in R)
  BY <1>1, WFMin, Zenon
<1>4. \A n \in S : n \in Nat /\ x \in Nat /\ ~ (n < x)
  BY <1>2, <1>3, Zenon
<1> QED BY <1>4

LEMMA GreatestExists ==
  ASSUME NEW b \in Nat, NEW S \in SUBSET (0 .. b), S # {}
  PROVE  \E x \in S : \A n \in S : n <= x
<1> DEFINE T == {b - n : n \in S}
<1>1. T \in SUBSET Nat /\ T # {}
  <2>1. \A n \in S : n \in 0 .. b /\ b - n \in Nat
    OBVIOUS
  <2> QED BY <2>1, Zenon
<1>2. PICK y \in T : \A m \in T : y <= m
  BY <1>1, LeastExists, Zenon
<1>3. PICK x \in S : y = b - x
  OBVIOUS
<1>4. \A n \in S : b - n \in T /\ n \in 0 .. b
  OBVIOUS
<1>5. \A n \in S : n <= x
  <2> SUFFICES ASSUME NEW n \in S PROVE n <= x
    OBVIOUS
  <2>1. b - x <= b - n
    BY <1>2, <1>3, <1>4, Zenon
  <2> QED BY <1>4, <2>1
<1> QED BY <1>5

-----------------------------------------------------------------------------
(* Sort.                                                                   *)

\* The indices of the elements up to x, and below x.
UpTo(s, x)  == {j \in 1 .. Len(s) : s[j] <= x}
Under(s, x) == {j \in 1 .. Len(s) : s[j] < x}

LEMMA Ranks ==
  ASSUME NEW s \in Seq(Int), NEW x \in Int, NEW y \in Int
  PROVE  /\ Cardinality(UpTo(s, x)) \in 0 .. Len(s) /\ Cardinality(Under(s, x)) \in 0 .. Len(s)
         /\ UpTo(s, y) \subseteq Under(s, x) => Cardinality(UpTo(s, y)) <= Cardinality(Under(s, x))
         /\ Under(s, x) \subseteq UpTo(s, y) => Cardinality(Under(s, x)) <= Cardinality(UpTo(s, y))
         /\ UpTo(s, y) \subseteq UpTo(s, x) /\ UpTo(s, y) # UpTo(s, x)
              => Cardinality(UpTo(s, y)) < Cardinality(UpTo(s, x))
<1>1. IsFiniteSet(1 .. Len(s)) /\ Cardinality(1 .. Len(s)) = Len(s) /\ Len(s) \in Nat
  <2>1. Len(s) \in Nat
    OBVIOUS
  <2>2. Len(s) \in Int /\ 1 \in Int
    BY <2>1
  <2>3. IsFiniteSet(1 .. Len(s)) /\ Cardinality(1 .. Len(s)) = IF 1 > Len(s) THEN 0 ELSE Len(s) - 1 + 1
    BY <2>2, FS_Interval
  <2> QED BY <2>1, <2>3
<1>2. UpTo(s, x) \in SUBSET (1 .. Len(s)) /\ UpTo(s, y) \in SUBSET (1 .. Len(s))
      /\ Under(s, x) \in SUBSET (1 .. Len(s))
  BY DEF UpTo, Under
<1>3. \A T \in SUBSET (1 .. Len(s)) : IsFiniteSet(T) /\ Cardinality(T) <= Len(s) /\ Cardinality(T) \in Nat
  BY <1>1, FS_Subset, FS_CardinalityType, Zenon
<1>4. \A T, U \in SUBSET (1 .. Len(s)) : T \subseteq U =>
        Cardinality(T) <= Cardinality(U) /\ (Cardinality(U) = Cardinality(T) => U = T)
  BY <1>3, FS_Subset, Zenon
<1>5. Cardinality(UpTo(s, x)) \in 0 .. Len(s) /\ Cardinality(Under(s, x)) \in 0 .. Len(s)
      /\ Cardinality(UpTo(s, y)) \in 0 .. Len(s)
  BY <1>1, <1>2, <1>3
<1>6. UpTo(s, y) \subseteq Under(s, x) => Cardinality(UpTo(s, y)) <= Cardinality(Under(s, x))
  BY <1>2, <1>4
<1>7. Under(s, x) \subseteq UpTo(s, y) => Cardinality(Under(s, x)) <= Cardinality(UpTo(s, y))
  BY <1>2, <1>4
<1>8. ASSUME UpTo(s, y) \subseteq UpTo(s, x), UpTo(s, y) # UpTo(s, x)
      PROVE  Cardinality(UpTo(s, y)) < Cardinality(UpTo(s, x))
  <2>1. Cardinality(UpTo(s, y)) <= Cardinality(UpTo(s, x)) /\ Cardinality(UpTo(s, y)) # Cardinality(UpTo(s, x))
    BY <1>2, <1>4, <1>8
  <2> QED BY <2>1, <1>5
<1> QED BY <1>5, <1>6, <1>7, <1>8

\* There is an i-th smallest element.
LEMMA RankExists ==
  ASSUME NEW s \in Seq(Int), NEW i \in 1 .. Len(s)
  PROVE  \E x \in ToSet(s) : Cardinality(Under(s, x)) < i /\ i <= Cardinality(UpTo(s, x))
<1> DEFINE K(x) == Cardinality(UpTo(s, x))
           V == ToSet(s)
<1>1. V \subseteq Int /\ V = {s[j] : j \in 1 .. Len(s)}
  <2>1. DOMAIN s = 1 .. Len(s) /\ \A j \in 1 .. Len(s) : s[j] \in Int
    BY LenProperties, ElementOfSeq
  <2>2. V = {s[j] : j \in 1 .. Len(s)}
    BY <2>1, Zenon DEF ToSet
  <2> QED BY <2>1, <2>2
<1>2. \A x \in V : K(x) \in 0 .. Len(s)
  BY <1>1, Ranks
<1>3. \A x, y \in V : y < x => K(y) < K(x)
  <2> SUFFICES ASSUME NEW x \in V, NEW y \in V, y < x PROVE K(y) < K(x)
    OBVIOUS
  <2>1. PICK j \in 1 .. Len(s) : s[j] = x
    BY <1>1
  <2>2. x \in Int /\ y \in Int /\ \A k \in 1 .. Len(s) : s[k] \in Int
    BY <1>1, Zenon
  <2>3. j \in UpTo(s, x) /\ j \notin UpTo(s, y)
    BY <2>1, <2>2 DEF UpTo
  <2>4. UpTo(s, y) \subseteq UpTo(s, x)
    BY <2>2 DEF UpTo
  <2> QED BY <2>2, <2>3, <2>4, Ranks, Zenon
<1> HIDE DEF V, K
<1> DEFINE A == {x \in V : i <= K(x)}
<1>4. A # {}
  <2>1. {K(x) : x \in V} \in SUBSET (0 .. Len(s)) /\ {K(x) : x \in V} # {} /\ Len(s) \in Nat
    BY <1>1, <1>2
  <2>2. PICK m \in {K(x) : x \in V} : \A n \in {K(x) : x \in V} : n <= m
    BY <2>1, GreatestExists, Zenon
  <2>3. PICK x \in V : m = K(x)
    OBVIOUS
  <2>4. \A y \in V : K(y) <= K(x) /\ K(y) \in Nat
    BY <1>2, <2>2, <2>3
  <2>5. \A y \in V : ~ (x < y)
    BY <1>2, <1>3, <2>4
  <2>6. UpTo(s, x) = 1 .. Len(s)
    BY <1>1, <2>5 DEF UpTo
  <2>7. K(x) = Len(s)
    BY <2>6, FS_Interval DEF K
  <2>8. x \in A
    BY <2>7
  <2> QED BY <2>8
<1>5. PICK x \in A : \A y \in A : K(x) <= K(y)
  <2>1. {K(x) : x \in A} \in SUBSET Nat /\ {K(x) : x \in A} # {}
    BY <1>2, <1>4
  <2>2. PICK m \in {K(x) : x \in A} : \A n \in {K(x) : x \in A} : m <= n
    BY <2>1, LeastExists, Zenon
  <2>3. PICK x \in A : m = K(x)
    OBVIOUS
  <2>4. \A y \in A : K(x) <= K(y)
    BY <2>2, <2>3
  <2> QED BY <2>4
<1>6. Cardinality(Under(s, x)) < i
  <2> DEFINE B == {y \in V : y < x}
  <2>0. x \in Int /\ Cardinality(Under(s, x)) \in 0 .. Len(s)
    BY <1>1, Ranks, Zenon
  <2> SUFFICES ASSUME i <= Cardinality(Under(s, x)) PROVE FALSE
    BY <2>0
  <2>1. Under(s, x) # {}
    <3>1. Under(s, x) = {} => Cardinality(Under(s, x)) = 0
      BY FS_EmptySet
    <3> QED BY <2>0, <3>1
  <2>2. B # {}
    BY <2>1, <1>1 DEF Under
  <2>3. {K(y) : y \in B} \in SUBSET (0 .. Len(s)) /\ {K(y) : y \in B} # {} /\ Len(s) \in Nat
    BY <1>2, <2>2
  <2>4. PICK m \in {K(y) : y \in B} : \A n \in {K(y) : y \in B} : n <= m
    BY <2>3, GreatestExists, Zenon
  <2>5. PICK y \in B : m = K(y)
    OBVIOUS
  <2>6. \A z \in B : ~ (y < z)
    <3>1. \A z \in B : K(z) <= K(y) /\ K(z) \in Nat /\ K(y) \in Nat
      BY <1>2, <2>4, <2>5
    <3>2. \A z \in B : y < z => K(y) < K(z)
      BY <1>3
    <3> QED BY <3>1, <3>2
  <2>7. Under(s, x) \subseteq UpTo(s, y)
    <3> SUFFICES ASSUME NEW j \in 1 .. Len(s), s[j] < x PROVE s[j] <= y
      BY DEF UpTo, Under
    <3>1. s[j] \in B /\ s[j] \in Int /\ y \in Int
      BY <1>1, Zenon
    <3>2. ~ (y < s[j])
      BY <2>6, <3>1
    <3> QED BY <3>1, <3>2
  <2>8. Cardinality(Under(s, x)) <= K(y)
    BY <1>1, <2>0, <2>7, Ranks DEF K
  <2>9. y \in A
    <3>1. K(y) \in 0 .. Len(s) /\ i <= K(y)
      <4> DEFINE p == K(y)   q == Cardinality(Under(s, x))
      <4>1. p \in 0 .. Len(s) /\ q \in 0 .. Len(s) /\ q <= p /\ i <= q
        BY <1>2, <2>0, <2>8
      <4> HIDE DEF p, q
      <4>2. i <= p
        BY <4>1
      <4> QED BY <4>1, <4>2 DEF p
    <3> QED BY <3>1
  <2>10. K(y) < K(x)
    BY <1>3
  <2> QED BY <1>2, <1>5, <2>9, <2>10
<1> QED BY <1>5, <1>6 DEF V, K

Rising(s) == \A i, j \in 1 .. Len(s) : i <= j => s[i] <= s[j]

LEMMA SortIs ==
  ASSUME NEW s \in Seq(Int)
  PROVE  /\ Sort(s) \in Seq(Int) /\ Len(Sort(s)) = Len(s)
         /\ ToSet(Sort(s)) = ToSet(s) /\ Rising(Sort(s))
<1> DEFINE r == Sort(s)
           K(x) == Cardinality(UpTo(s, x))
           B(x) == Cardinality(Under(s, x))
<1>0. ToSet(s) \subseteq Int /\ ToSet(s) = {s[j] : j \in 1 .. Len(s)} /\ Len(s) \in Nat
  BY DEF ToSet
<1>1. r = [i \in 1 .. Len(s) |-> CHOOSE x \in ToSet(s) : B(x) < i /\ i <= K(x)]
  BY DEF Sort, UpTo, Under
<1>2. \A i \in 1 .. Len(s) : r[i] \in ToSet(s) /\ B(r[i]) < i /\ i <= K(r[i])
  BY <1>1, RankExists
<1> HIDE DEF r
<1>3. r \in [1 .. Len(s) -> Int]
  BY <1>0, <1>1, <1>2, Zenon
<1>4. r \in Seq(Int) /\ Len(r) = Len(s)
  BY <1>0, <1>3
<1>5. \A x, y \in Int : /\ K(x) \in Nat /\ B(x) \in Nat
                        /\ y < x => K(y) <= B(x)
  <2> SUFFICES ASSUME NEW x \in Int, NEW y \in Int
               PROVE  /\ K(x) \in Nat /\ B(x) \in Nat
                      /\ y < x => K(y) <= B(x)
    BY Zenon
  <2>1. y < x => UpTo(s, y) \subseteq Under(s, x)
    BY <1>0 DEF UpTo, Under
  <2>2. K(x) \in 0 .. Len(s) /\ B(x) \in 0 .. Len(s)
        /\ (UpTo(s, y) \subseteq Under(s, x) => Cardinality(UpTo(s, y)) <= Cardinality(Under(s, x)))
    BY Ranks
  <2> QED BY <2>1, <2>2, <1>0
<1> HIDE DEF K, B
<1>6. \A i, j \in 1 .. Len(s) : i <= j => r[i] <= r[j]
  <2> SUFFICES ASSUME NEW i \in 1 .. Len(s), NEW j \in 1 .. Len(s), i <= j, r[j] < r[i] PROVE FALSE
    BY <1>3
  <2>1. r[i] \in Int /\ r[j] \in Int
    BY <1>3, Zenon
  <2>2. K(r[j]) <= B(r[i])
    BY <2>1, <1>5, Zenon
  <2>4. B(r[i]) \in Nat /\ K(r[j]) \in Nat /\ B(r[i]) < i /\ j <= K(r[j])
    BY <1>2, <1>5, <2>1, Zenon
  <2> QED BY <2>2, <2>4
<1>9. \A T \in SUBSET (1 .. Len(s)) : IsFiniteSet(T)
  <2>1. 1 \in Int /\ Len(s) \in Int
    BY <1>0
  <2>2. IsFiniteSet(1 .. Len(s))
    BY <2>1, FS_Interval
  <2> QED BY <2>2, FS_Subset, Zenon
<1>7. \A x \in ToSet(s) : \E i \in 1 .. Len(s) : r[i] = x
  <2> SUFFICES ASSUME NEW x \in ToSet(s) PROVE \E i \in 1 .. Len(s) : r[i] = x
    OBVIOUS
  <2>1. PICK j \in 1 .. Len(s) : s[j] = x
    BY <1>0
  <2>2. j \in UpTo(s, x) /\ x \in Int
    BY <1>0, <2>1 DEF UpTo
  <2>3. K(x) \in 0 .. Len(s) /\ UpTo(s, x) \in SUBSET (1 .. Len(s))
    BY <2>2, Ranks, Zenon DEF K, UpTo
  <2>4. K(x) # 0
    <3>1. IsFiniteSet(UpTo(s, x))
      BY <2>3, <1>9
    <3> QED BY <2>2, <3>1, FS_EmptySet DEF K
  <2> DEFINE i == K(x)
  <2>5. i \in 1 .. Len(s)
    BY <2>3, <2>4
  <2>6. r[i] \in Int /\ B(r[i]) < K(x) /\ K(x) <= K(r[i])
    BY <2>5, <1>2, <1>3
  <2>7. ~ (x < r[i])
    <3>1. x < r[i] => K(x) <= B(r[i])
      BY <2>2, <2>6, <1>5, Zenon
    <3>2. K(x) \in Nat /\ B(r[i]) \in Nat
      BY <2>2, <2>6, <1>5, Zenon
    <3> QED BY <3>1, <3>2, <2>6
  <2>8. ~ (r[i] < x)
    <3>1. B(x) < K(x)
      <4>1. Under(s, x) \subseteq UpTo(s, x) /\ j \notin Under(s, x)
        BY <1>0, <2>1, <2>2 DEF UpTo, Under
      <4>2. IsFiniteSet(UpTo(s, x))
        BY <2>3, <1>9
      <4>3. Cardinality(Under(s, x)) <= Cardinality(UpTo(s, x))
            /\ Cardinality(Under(s, x)) # Cardinality(UpTo(s, x))
        BY <4>1, <4>2, <2>2, FS_Subset
      <4> QED BY <4>3, <1>5, <2>2 DEF K, B
    <3>2. r[i] < x => K(r[i]) <= B(x)
      BY <1>5, <2>2, <2>6, Zenon
    <3>3. K(x) \in Nat /\ B(x) \in Nat /\ K(r[i]) \in Nat
      BY <1>5, <2>2, <2>6, Zenon
    <3> QED BY <3>1, <3>2, <3>3, <2>6
  <2>9. r[i] = x
    BY <2>2, <2>6, <2>7, <2>8
  <2> QED BY <2>5, <2>9
<1>8. ToSet(r) = ToSet(s)
  <2>1. ToSet(r) = {r[i] : i \in 1 .. Len(s)}
    BY <1>3 DEF ToSet
  <2> QED BY <2>1, <1>2, <1>7
<1> QED BY <1>4, <1>6, <1>8 DEF r, Rising

-----------------------------------------------------------------------------
(* SortedUnique.                                                           *)

UniqueRounds(f, s) ==
  /\ SortedUnique(s) = f[Len(s)].out
  /\ f[0] = [out |-> <<>>, last |-> 0]
  /\ \A i \in 1 .. Len(s) :
       f[i] = IF i # 1 /\ f[i - 1].last = s[i] THEN f[i - 1]
              ELSE [out |-> Append(f[i - 1].out, s[i]), last |-> s[i]]

LEMMA SortedUniqueRuns ==
  ASSUME NEW E, 0 \in E, NEW s \in Seq(E)
  PROVE  \E f : UniqueRounds(f, s) /\ f \in [0 .. Len(s) -> [out : Seq(E), last : E]]
<1> DEFINE n == Len(s)
           N == 0 .. n
           D == [out : Seq(E), last : E]
           base == [out |-> <<>>, last |-> 0]
           Next1(i, l) == IF i # 1 /\ l.last = s[i] THEN l
                          ELSE [out |-> Append(l.out, s[i]), last |-> s[i]]
           step == [i \in 1 .. n |-> [l \in D |-> Next1(i, l)]]
           Is(f) == f = [i \in N |-> IF i = 0 THEN base
                                     ELSE IF i # 1 /\ f[i - 1].last = s[i] THEN f[i - 1]
                                     ELSE [out |-> Append(f[i - 1].out, s[i]), last |-> s[i]]]
           v == CHOOSE f : Is(f)
<1>1. SortedUnique(s) = v[n].out
  BY DEF SortedUnique
<1>2. n \in Nat /\ base \in D /\ s \in [1 .. n -> E]
  OBVIOUS
<1>3. \A i \in 1 .. n, l \in D : Next1(i, l) \in D /\ step[i][l] = Next1(i, l)
  <2> TAKE i \in 1 .. n, l \in D
  <2>1. l.out \in Seq(E) /\ s[i] \in E
    BY <1>2
  <2>2. Append(l.out, s[i]) \in Seq(E)
    BY <2>1
  <2>3. Next1(i, l) \in D
    BY <2>1, <2>2
  <2> HIDE DEF Next1, D
  <2> QED BY <2>3
<1>4. StaysIn(n, D, step)
  <2> HIDE DEF Next1, D, step
  <2> QED BY <1>3 DEF StaysIn
<1>5. PICK f : f \in [N -> D] /\ LoopOf(f, n, base, step)
  <2> HIDE DEF step, D, base, n
  <2> QED BY <1>2, <1>4, LoopExists
<1>6. \A i \in 1 .. n : f[i] = Next1(i, f[i - 1])
  <2> HIDE DEF step, D, base, Next1
  <2>1. \A i \in 1 .. n : i - 1 \in N
    BY <1>2
  <2>2. \A i \in 1 .. n : f[i - 1] \in D
    BY <1>5, <2>1
  <2>3. \A i \in 1 .. n : f[i] = step[i][f[i - 1]]
    BY <1>5, Zenon DEF LoopOf
  <2> QED BY <1>3, <2>2, <2>3
<1>7. Is(f)
  <2>1. \A i \in N : i # 0 => i \in 1 .. n
    BY <1>2
  <2>2. f = [i \in N |-> f[i]]
    BY <1>5
  <2> HIDE DEF base, D, N
  <2> QED BY <1>5, <1>6, <2>1, <2>2, Zenon DEF LoopOf
<1>8. Is(v)
  <2> HIDE DEF Is
  <2> QED BY <1>7, Zenon
<1>9. v[0] = base /\ \A i \in 1 .. n : v[i] = Next1(i, v[i - 1])
  <2>1. v = [i \in N |-> IF i = 0 THEN base ELSE Next1(i, v[i - 1])]
    BY <1>8, Zenon
  <2>2. \A i \in 1 .. n : i # 0 /\ i \in N
    BY <1>2
  <2> HIDE DEF v, Next1, base, Is
  <2> DEFINE g == [i \in N |-> IF i = 0 THEN base ELSE Next1(i, v[i - 1])]
  <2>3. (\A i \in 1 .. n : g[i] = Next1(i, v[i - 1])) /\ g[0] = base
    BY <1>2, <2>2
  <2> HIDE DEF g
  <2>4. v = g
    BY <2>1 DEF g
  <2> QED BY <2>3, <2>4
<1>10. \A i \in N : v[i] \in D
  <2> HIDE DEF v, Next1, base, Is, D
  <2>1. \A i \in 1 .. n : v[i - 1] \in D => v[i] \in D
    BY <1>3, <1>9
  <2> HIDE DEF n
  <2> QED BY <1>2, <1>9, <2>1, LoopStays, Zenon
<1>11. v \in [N -> D]
  <2>1. v = [i \in N |-> IF i = 0 THEN base ELSE Next1(i, v[i - 1])]
    BY <1>8, Zenon
  <2> HIDE DEF v, Next1, base, Is, D
  <2> QED BY <1>10, <2>1
<1> HIDE DEF v, Is, D
<1> QED BY <1>1, <1>9, <1>11, Zenon DEF D, UniqueRounds

Strict(s) == \A i, j \in 1 .. Len(s) : i < j => s[i] < s[j]

LEMMA Appended ==
  ASSUME NEW E, NEW s \in Seq(E), NEW e \in E
  PROVE  /\ Append(s, e) \in Seq(E) /\ Len(Append(s, e)) = Len(s) + 1
         /\ \A k \in 1 .. Len(s) : Append(s, e)[k] = s[k]
         /\ Append(s, e)[Len(s) + 1] = e
         /\ ToSet(Append(s, e)) = ToSet(s) \cup {e}
<1>1. /\ Append(s, e) \in Seq(E) /\ Len(Append(s, e)) = Len(s) + 1 /\ Len(s) \in Nat
      /\ \A k \in 1 .. Len(s) : Append(s, e)[k] = s[k]
      /\ Append(s, e)[Len(s) + 1] = e
  OBVIOUS
<1>2. ToSet(s) = {s[k] : k \in 1 .. Len(s)}
  BY DEF ToSet
<1>3. ToSet(Append(s, e)) = {Append(s, e)[k] : k \in 1 .. Len(s) + 1}
  BY DEF ToSet
<1>4. \A k : k \in 1 .. Len(s) + 1 <=> k \in 1 .. Len(s) \/ k = Len(s) + 1
  BY <1>1
<1> QED BY <1>1, <1>2, <1>3, <1>4

LEMMA StrictAppended ==
  ASSUME NEW s \in Seq(Int), NEW e \in Int, Strict(s), \A k \in 1 .. Len(s) : s[k] < e
  PROVE  Strict(Append(s, e))
<1> DEFINE t == Append(s, e)
<1>1. Len(t) = Len(s) + 1 /\ (\A k \in 1 .. Len(s) : t[k] = s[k]) /\ t[Len(s) + 1] = e /\ Len(s) \in Nat
  OBVIOUS
<1> HIDE DEF t
<1> SUFFICES ASSUME NEW i \in 1 .. Len(t), NEW j \in 1 .. Len(t), i < j PROVE t[i] < t[j]
  BY Zenon DEF t, Strict
<1>2. i \in 1 .. Len(s)
  BY <1>1
<1>3. CASE j \in 1 .. Len(s)
  <2>1. s[i] < s[j]
    BY <1>2, <1>3 DEF Strict
  <2> QED BY <1>1, <1>2, <1>3, <2>1
<1>4. CASE j \notin 1 .. Len(s)
  <2>1. j = Len(s) + 1
    <3> DEFINE n == Len(s)
    <3>1. j \in 1 .. n + 1 /\ j \notin 1 .. n /\ n \in Nat
      BY <1>1, <1>4
    <3> HIDE DEF n
    <3>2. j = n + 1
      BY <3>1
    <3> QED BY <3>2 DEF n
  <2>2. t[j] = e /\ t[i] = s[i] /\ s[i] < e
    BY <1>1, <1>2, <2>1
  <2> QED BY <2>2
<1> QED BY <1>3, <1>4

\* Of a sorted slice it keeps each element once.
LEMMA SortedUniqueIs ==
  ASSUME NEW s \in Seq(Int), Rising(s)
  PROVE  /\ SortedUnique(s) \in Seq(Int) /\ Strict(SortedUnique(s))
         /\ ToSet(SortedUnique(s)) = ToSet(s)
<1> DEFINE n == Len(s)
<1>0. n \in Nat /\ \A i \in 1 .. n : s[i] \in Int
  OBVIOUS
<1>a. PICK f : UniqueRounds(f, s) /\ f \in [0 .. Len(s) -> [out : Seq(Int), last : Int]]
  <2>1. 0 \in Int
    OBVIOUS
  <2> QED BY <2>1, SortedUniqueRuns
<1>b. \A i \in 0 .. n : f[i].out \in Seq(Int) /\ f[i].last \in Int
  <2>1. \A i \in 0 .. n : f[i] \in [out : Seq(Int), last : Int]
    BY <1>a, Zenon
  <2> QED BY <2>1
<1>1. /\ SortedUnique(s) = f[n].out
      /\ f[0] = [out |-> <<>>, last |-> 0]
      /\ \A i \in 1 .. n :
           f[i] = IF i # 1 /\ f[i - 1].last = s[i] THEN f[i - 1]
                  ELSE [out |-> Append(f[i - 1].out, s[i]), last |-> s[i]]
  BY <1>a, Zenon DEF UniqueRounds
<1> DEFINE Inv(i) == /\ Strict(f[i].out) /\ ToSet(f[i].out) = {s[k] : k \in 1 .. i}
                     /\ i > 0 => f[i].last = s[i]
                     /\ \A k \in 1 .. Len(f[i].out) : i > 0 /\ f[i].out[k] <= s[i]
           S == {i \in 0 .. n : Inv(i)}
<1>2. 0 \in S
  <2>1. f[0].out = <<>>
    BY <1>1
  <2>2. Strict(<<>>) /\ ToSet(<<>>) = {} /\ Len(<<>>) = 0
    BY DEF Strict, ToSet
  <2>3. Inv(0)
    BY <2>1, <2>2
  <2> HIDE DEF Inv
  <2> QED BY <2>3, <1>0
<1>3. ASSUME NEW i \in 1 .. n, i - 1 \in S PROVE i \in S
  <2> DEFINE o == f[i - 1].out
  <2>0. Inv(i - 1) /\ i - 1 \in 0 .. n /\ i \in 0 .. n /\ i \in Nat /\ i > 0
    BY <1>0, <1>3
  <2>1. o \in Seq(Int) /\ s[i] \in Int /\ Len(o) \in Nat
    <3>1. i \in 1 .. n /\ i - 1 \in 0 .. n
      BY <2>0
    <3> HIDE DEF n
    <3> QED BY <1>0, <1>b, <3>1
  <2>1a. \A k \in 1 .. Len(o) : o[k] \in Int
    BY <2>1
  <2>2. {s[k] : k \in 1 .. i} = {s[k] : k \in 1 .. i - 1} \cup {s[i]}
    <3>1. \A k : k \in 1 .. i <=> k \in 1 .. i - 1 \/ k = i
      BY <2>0
    <3> QED BY <3>1
  <2>3. i # 1 => s[i - 1] <= s[i] /\ s[i - 1] \in Int /\ i - 1 > 0 /\ i - 1 \in 1 .. i - 1 /\ f[i - 1].last = s[i - 1]
    BY <1>0, <2>0 DEF Rising
  <2>4. CASE i # 1 /\ f[i - 1].last = s[i]
    <3>1. f[i] = f[i - 1]
      BY <1>1, <2>4, Zenon
    <3>2. s[i] = s[i - 1] /\ s[i] \in {s[k] : k \in 1 .. i - 1}
      BY <2>3, <2>4
    <3>3. Inv(i)
      BY <2>0, <2>2, <2>4, <3>1, <3>2, Zenon
    <3> QED BY <2>0, <3>3
  <2>5. CASE ~ (i # 1 /\ f[i - 1].last = s[i])
    <3>1. f[i].out = Append(o, s[i]) /\ f[i].last = s[i]
      <4>1. f[i] = [out |-> Append(o, s[i]), last |-> s[i]]
        BY <1>1, <2>5, Zenon
      <4> QED BY <4>1
    <3>2. \A k \in 1 .. Len(o) : o[k] < s[i]
      <4> SUFFICES ASSUME NEW k \in 1 .. Len(o) PROVE o[k] < s[i]
        BY Zenon
      <4>1. i - 1 > 0 /\ o[k] <= s[i - 1]
        BY <2>0
      <4>2. i # 1
        BY <4>1
      <4>3. s[i - 1] < s[i]
        BY <2>1, <2>3, <2>5, <4>2
      <4>4. o[k] \in Int /\ s[i - 1] \in Int /\ s[i] \in Int
        BY <2>1, <2>1a, <2>3, <4>2
      <4> HIDE DEF o
      <4> QED BY <4>1, <4>3, <4>4
    <3>3. Strict(Append(o, s[i]))
      BY <2>0, <2>1, <3>2, StrictAppended, Zenon
    <3>4. /\ ToSet(Append(o, s[i])) = ToSet(o) \cup {s[i]} /\ Len(Append(o, s[i])) = Len(o) + 1
          /\ (\A k \in 1 .. Len(o) : Append(o, s[i])[k] = o[k]) /\ Append(o, s[i])[Len(o) + 1] = s[i]
      <4> DEFINE e == s[i]
      <4>1. o \in Seq(Int) /\ e \in Int
        BY <2>1
      <4> HIDE DEF o, e
      <4>2. /\ ToSet(Append(o, e)) = ToSet(o) \cup {e} /\ Len(Append(o, e)) = Len(o) + 1
            /\ (\A k \in 1 .. Len(o) : Append(o, e)[k] = o[k]) /\ Append(o, e)[Len(o) + 1] = e
        <5> DEFINE E == Int
        <5>1. o \in Seq(E) /\ e \in E
          BY <4>1
        <5> HIDE DEF E
        <5>2. /\ ToSet(Append(o, e)) = ToSet(o) \cup {e} /\ Len(Append(o, e)) = Len(o) + 1
              /\ (\A k \in 1 .. Len(o) : Append(o, e)[k] = o[k]) /\ Append(o, e)[Len(o) + 1] = e
          BY <5>1, Appended
        <5> QED BY <5>2
      <4> QED BY <4>2 DEF e
    <3>5. \A k \in 1 .. Len(o) + 1 : Append(o, s[i])[k] <= s[i]
      <4> TAKE k \in 1 .. Len(o) + 1
      <4>1. k \in 1 .. Len(o) \/ k = Len(o) + 1
        BY <2>1
      <4> HIDE DEF o
      <4> QED BY <4>1, <2>1, <2>1a, <3>2, <3>4
    <3>6. Inv(i)
      <4> HIDE DEF o
      <4>1. ToSet(o) = {s[k] : k \in 1 .. i - 1}
        BY <2>0 DEF o
      <4> QED BY <2>0, <2>2, <3>1, <3>3, <3>4, <3>5, <4>1, Zenon
    <3> HIDE DEF Inv
    <3> QED BY <2>0, <3>6
  <2> QED BY <2>4, <2>5
<1>4. Inv(n)
  <2>1. \A i \in 0 .. n : i \in S
    <3> HIDE DEF S
    <3> QED BY <1>0, <1>2, <1>3, RoundByRound, Zenon
  <2> HIDE DEF Inv, n
  <2> QED BY <1>0, <2>1
<1>5. ToSet(s) = {s[k] : k \in 1 .. n} /\ f[n].out \in Seq(Int)
  BY <1>0, <1>b DEF ToSet
<1> QED BY <1>1, <1>4, <1>5

LEMMA SeqWithin ==
  ASSUME NEW X, NEW E, NEW s \in Seq(X), ToSet(s) \subseteq E
  PROVE  s \in Seq(E)
<1>1. Len(s) \in Nat /\ s \in [1 .. Len(s) -> X]
  BY LenProperties
<1>2. \A i \in 1 .. Len(s) : s[i] \in E
  BY <1>1 DEF ToSet
<1>3. s \in [1 .. Len(s) -> E]
  BY <1>1, <1>2
<1> QED BY <1>1, <1>3

\* Unique: the elements of its operand, each once, in ascending order.
LEMMA UniqueIs ==
  ASSUME NEW s \in Seq(Int)
  PROVE  Unique(s) \in Seq(Int) /\ Strict(Unique(s)) /\ ToSet(Unique(s)) = ToSet(s)
<1>1. Sort(s) \in Seq(Int) /\ ToSet(Sort(s)) = ToSet(s) /\ Rising(Sort(s))
  BY SortIs
<1> QED BY <1>1, SortedUniqueIs DEF Unique

-----------------------------------------------------------------------------
(* Keep.                                                                   *)

KeepRounds(f, s, I) ==
  /\ Keep(s, I) = f[Len(s)]
  /\ f[0] = <<>>
  /\ \A i \in 1 .. Len(s) : f[i] = IF i \in I THEN Append(f[i - 1], s[i]) ELSE f[i - 1]

LEMMA KeepRuns ==
  ASSUME NEW E, NEW s \in Seq(E), NEW I
  PROVE  \E f : KeepRounds(f, s, I) /\ f \in [0 .. Len(s) -> Seq(E)]
<1> DEFINE n == Len(s)
           N == 0 .. n
           D == Seq(E)
           base == <<>>
           Next1(i, l) == IF i \in I THEN Append(l, s[i]) ELSE l
           step == [i \in 1 .. n |-> [l \in D |-> Next1(i, l)]]
           Is(f) == f = [i \in N |-> IF i = 0 THEN <<>>
                                     ELSE IF i \in I THEN Append(f[i - 1], s[i]) ELSE f[i - 1]]
           v == CHOOSE f : Is(f)
<1>1. Keep(s, I) = v[n]
  BY DEF Keep
<1>2. n \in Nat /\ base \in D /\ s \in [1 .. n -> E]
  OBVIOUS
<1>3. \A i \in 1 .. n, l \in D : Next1(i, l) \in D /\ step[i][l] = Next1(i, l)
  <2> TAKE i \in 1 .. n, l \in D
  <2>1. s[i] \in E
    BY <1>2
  <2>2. Next1(i, l) \in D
    BY <2>1
  <2> HIDE DEF Next1, D
  <2> QED BY <2>2
<1>4. StaysIn(n, D, step)
  <2> HIDE DEF Next1, D, step
  <2> QED BY <1>3 DEF StaysIn
<1>5. PICK f : f \in [N -> D] /\ LoopOf(f, n, base, step)
  <2> HIDE DEF step, D, base, n
  <2> QED BY <1>2, <1>4, LoopExists
<1>6. \A i \in 1 .. n : f[i] = Next1(i, f[i - 1])
  <2> HIDE DEF step, D, base, Next1
  <2>1. \A i \in 1 .. n : i - 1 \in N
    BY <1>2
  <2>2. \A i \in 1 .. n : f[i - 1] \in D
    BY <1>5, <2>1
  <2>3. \A i \in 1 .. n : f[i] = step[i][f[i - 1]]
    BY <1>5, Zenon DEF LoopOf
  <2> QED BY <1>3, <2>2, <2>3
<1>7. Is(f)
  <2>1. \A i \in N : i # 0 => i \in 1 .. n
    BY <1>2
  <2>2. f = [i \in N |-> f[i]]
    BY <1>5
  <2> HIDE DEF D, N
  <2> QED BY <1>5, <1>6, <2>1, <2>2, Zenon DEF LoopOf
<1>8. Is(v)
  <2> HIDE DEF Is
  <2> QED BY <1>7, Zenon
<1>9. v[0] = base /\ \A i \in 1 .. n : v[i] = Next1(i, v[i - 1])
  <2>1. v = [i \in N |-> IF i = 0 THEN base ELSE Next1(i, v[i - 1])]
    BY <1>8, Zenon
  <2>2. \A i \in 1 .. n : i # 0 /\ i \in N
    BY <1>2
  <2> HIDE DEF v, Next1, base, Is
  <2> DEFINE g == [i \in N |-> IF i = 0 THEN base ELSE Next1(i, v[i - 1])]
  <2>3. (\A i \in 1 .. n : g[i] = Next1(i, v[i - 1])) /\ g[0] = base
    BY <1>2, <2>2
  <2> HIDE DEF g
  <2>4. v = g
    BY <2>1 DEF g
  <2> QED BY <2>3, <2>4
<1>10. \A i \in N : v[i] \in D
  <2> HIDE DEF v, Next1, base, Is, D
  <2>1. \A i \in 1 .. n : v[i - 1] \in D => v[i] \in D
    BY <1>3, <1>9
  <2> HIDE DEF n
  <2> QED BY <1>2, <1>9, <2>1, LoopStays, Zenon
<1>11. v \in [N -> D]
  <2>1. v = [i \in N |-> IF i = 0 THEN base ELSE Next1(i, v[i - 1])]
    BY <1>8, Zenon
  <2> HIDE DEF v, Next1, base, Is, D
  <2> QED BY <1>10, <2>1
<1> HIDE DEF v, Is, D
<1> QED BY <1>1, <1>9, <1>11 DEF D, KeepRounds

\* h: the indices of s whose elements r has.
Picks(s, r, h, I) ==
  /\ h \in Seq(1 .. Len(s)) /\ Len(h) = Len(r) /\ Strict(h)
  /\ ToSet(h) = I
  /\ \A k \in 1 .. Len(r) : r[k] = s[h[k]]

\* What it keeps are the elements at the indices of I, in their order.
LEMMA KeepIs ==
  ASSUME NEW E, NEW s \in Seq(E), NEW I \in SUBSET (1 .. Len(s))
  PROVE  /\ Keep(s, I) \in Seq(E) /\ ToSet(Keep(s, I)) = {s[i] : i \in I}
         /\ \E h : Picks(s, Keep(s, I), h, I)
<1> DEFINE n == Len(s)
<1>0. n \in Nat /\ \A i \in 1 .. n : s[i] \in E
  OBVIOUS
<1>1. PICK f : KeepRounds(f, s, I) /\ f \in [0 .. Len(s) -> Seq(E)]
  BY KeepRuns, Zenon
<1>2. \A i \in 0 .. n : f[i] \in Seq(E)
  BY <1>1
<1>3. /\ Keep(s, I) = f[n]
      /\ f[0] = <<>>
      /\ \A i \in 1 .. n : f[i] = IF i \in I THEN Append(f[i - 1], s[i]) ELSE f[i - 1]
  BY <1>1 DEF KeepRounds
<1> DEFINE S == {i \in 0 .. n : \E h : Picks(s, f[i], h, I \cap (1 .. i))}
<1>4. 0 \in S
  <2>1. Strict(<<>>) /\ ToSet(<<>>) = {} /\ Len(<<>>) = 0 /\ <<>> \in Seq(1 .. Len(s)) /\ I \cap (1 .. 0) = {}
    BY DEF Strict, ToSet
  <2>2. Picks(s, <<>>, <<>>, I \cap (1 .. 0))
    BY <2>1 DEF Picks
  <2> QED BY <1>0, <1>3, <2>2
<1>5. ASSUME NEW i \in 1 .. n, i - 1 \in S PROVE i \in S
  <2>0. i \in 0 .. n /\ i - 1 \in 0 .. n /\ i \in Nat /\ i > 0
    BY <1>0, <1>5
  <2>1. PICK h : Picks(s, f[i - 1], h, I \cap (1 .. i - 1))
    BY <1>5, Zenon
  <2> DEFINE o == f[i - 1]
  <2>2. o \in Seq(E) /\ s[i] \in E /\ Len(o) \in Nat
    BY <1>0, <1>2, <2>0
  <2>3. CASE i \notin I
    <3>1. I \cap (1 .. i) = I \cap (1 .. i - 1)
      <4>1. \A k : k \in 1 .. i <=> k \in 1 .. i - 1 \/ k = i
        BY <2>0
      <4> QED BY <2>3, <4>1
    <3>2. f[i] = f[i - 1]
      BY <1>3, <2>3
    <3> QED BY <2>0, <2>1, <3>1, <3>2, Zenon
  <2>4. CASE i \in I
    <3>1. I \cap (1 .. i) = (I \cap (1 .. i - 1)) \cup {i}
      <4>1. \A k : k \in 1 .. i <=> k \in 1 .. i - 1 \/ k = i
        BY <2>0
      <4> QED BY <2>4, <4>1
    <3>2. f[i] = Append(o, s[i])
      BY <1>3, <2>4, Zenon
    <3>3. /\ h \in Seq(1 .. n) /\ Len(h) = Len(o) /\ Strict(h) /\ ToSet(h) = I \cap (1 .. i - 1)
          /\ \A k \in 1 .. Len(o) : o[k] = s[h[k]]
      BY <2>1 DEF Picks
    <3>4. Len(Append(o, s[i])) = Len(o) + 1 /\ Append(o, s[i])[Len(o) + 1] = s[i]
          /\ \A k \in 1 .. Len(o) : Append(o, s[i])[k] = o[k]
      BY <2>2
    <3>5. /\ Append(h, i) \in Seq(1 .. n) /\ Len(Append(h, i)) = Len(h) + 1 /\ ToSet(Append(h, i)) = ToSet(h) \cup {i}
          /\ Append(h, i)[Len(h) + 1] = i /\ \A k \in 1 .. Len(h) : Append(h, i)[k] = h[k]
      <4> DEFINE R == 1 .. n
      <4>1. h \in Seq(R) /\ i \in R
        BY <3>3
      <4> HIDE DEF R
      <4>2. /\ Append(h, i) \in Seq(R) /\ Len(Append(h, i)) = Len(h) + 1 /\ ToSet(Append(h, i)) = ToSet(h) \cup {i}
            /\ Append(h, i)[Len(h) + 1] = i /\ \A k \in 1 .. Len(h) : Append(h, i)[k] = h[k]
        BY <4>1, Appended
      <4> QED BY <4>2 DEF R
    <3>6. \A k \in 1 .. Len(h) : h[k] < i
      <4>1. \A k \in 1 .. Len(h) : h[k] \in ToSet(h)
        BY <3>3 DEF ToSet
      <4> QED BY <4>1, <3>3
    <3>7. Strict(Append(h, i))
      <4>1. h \in Seq(Int)
        <5>1. ToSet(h) \subseteq Int
          BY <3>3
        <5> DEFINE R == 1 .. n
        <5>2. h \in Seq(R)
          BY <3>3
        <5> HIDE DEF R
        <5> QED BY <5>1, <5>2, SeqWithin
      <4>2. Strict(h) /\ i \in Int
        BY <2>0, <3>3
      <4> QED BY <3>6, <4>1, <4>2, StrictAppended
    <3> DEFINE r == Append(o, s[i])   g == Append(h, i)
    <3>8. \A k \in 1 .. Len(r) : r[k] = s[g[k]]
      <4> TAKE k \in 1 .. Len(r)
      <4>1. k \in 1 .. Len(o) \/ k = Len(o) + 1
        BY <2>2, <3>4
      <4> HIDE DEF o
      <4> QED BY <3>3, <3>4, <3>5, <4>1
    <3>9. Len(g) = Len(r) /\ ToSet(g) = I \cap (1 .. i)
      BY <3>1, <3>3, <3>4, <3>5
    <3> HIDE DEF r, g
    <3>10. Picks(s, r, g, I \cap (1 .. i))
      BY <3>5, <3>7, <3>8, <3>9 DEF Picks, g
    <3> QED BY <2>0, <3>2, <3>10, Zenon DEF r
  <2> QED BY <2>3, <2>4, Zenon
<1>6. n \in S
  <2> HIDE DEF S
  <2>1. \A i \in 0 .. n : i \in S
    BY <1>0, <1>4, <1>5, RoundByRound, Zenon
  <2> QED BY <1>0, <2>1
<1>7. PICK h : Picks(s, Keep(s, I), h, I \cap (1 .. n))
  BY <1>3, <1>6, Zenon
<1>8. I \cap (1 .. n) = I /\ Keep(s, I) \in Seq(E)
  <2>1. n \in 0 .. n
    BY <1>0
  <2>2. Keep(s, I) = f[n] /\ f[n] \in Seq(E)
    BY <1>2, <1>3, <2>1, Zenon
  <2>3. I \cap (1 .. n) = I
    OBVIOUS
  <2> QED BY <2>2, <2>3, Zenon
<1>9. ToSet(Keep(s, I)) = {s[i] : i \in I}
  <2> DEFINE r == Keep(s, I)
  <2>0. /\ h \in Seq(1 .. Len(s)) /\ Len(h) = Len(r) /\ ToSet(h) = I
        /\ \A k \in 1 .. Len(r) : r[k] = s[h[k]]
    BY <1>7, <1>8 DEF Picks
  <2>1. ToSet(r) = {r[k] : k \in 1 .. Len(r)} /\ ToSet(h) = {h[k] : k \in 1 .. Len(r)}
    <3>1. DOMAIN r = 1 .. Len(r) /\ DOMAIN h = 1 .. Len(r)
      BY <1>8, <2>0
    <3> QED BY <3>1 DEF ToSet
  <2> HIDE DEF r
  <2> DEFINE R == 1 .. Len(r)
  <2>2. ToSet(r) = {s[h[k]] : k \in 1 .. Len(r)}
    <3>1. \A k \in R : r[k] = s[h[k]]
      BY <2>0
    <3>2. ToSet(r) = {r[k] : k \in R}
      BY <2>1
    <3> HIDE DEF R
    <3>3. ASSUME NEW k \in R PROVE r[k] \in {s[h[j]] : j \in R} /\ s[h[k]] \in {r[j] : j \in R}
      BY <3>1
    <3>4. {r[k] : k \in R} = {s[h[k]] : k \in R}
      BY <3>3
    <3> QED BY <3>2, <3>4, Zenon DEF R
  <2>3. {s[i] : i \in I} = {s[h[k]] : k \in 1 .. Len(r)}
    BY <2>0, <2>1
  <2> QED BY <2>2, <2>3, Zenon DEF r
<1> QED BY <1>7, <1>8, <1>9, Zenon

-----------------------------------------------------------------------------
(* Compare.                                                                *)

Sides == {"left", "equal", "right"}

\* What the log says when i and j are the next of u and w.
MergeInv(u, w, i, j, log) ==
  /\ log \in Seq(Sides \X Int)
  /\ \A m, n \in 1 .. Len(log) : m < n => log[m][2] < log[n][2]
  /\ {log[n][2] : n \in 1 .. Len(log)} = {u[k] : k \in 1 .. i - 1} \cup {w[k] : k \in 1 .. j - 1}
  /\ \A n \in 1 .. Len(log) :
       /\ i <= Len(u) => log[n][2] < u[i]
       /\ j <= Len(w) => log[n][2] < w[j]
       /\ log[n][1] \in Sides
       /\ log[n][1] # "right" => log[n][2] \in ToSet(u)
       /\ log[n][1] # "left" => log[n][2] \in ToSet(w)
       /\ log[n][1] = "left" => log[n][2] \notin ToSet(w)
       /\ log[n][1] = "right" => log[n][2] \notin ToSet(u)

\* The next value x comes after what has been called back for, and is not in the
\* slice that has not come to it.
LEMMA NotYet ==
  ASSUME NEW w \in Seq(Int), Strict(w), NEW j \in 1 .. Len(w) + 1, NEW x \in Int,
         \A k \in 1 .. j - 1 : w[k] < x, j <= Len(w) => x < w[j]
  PROVE  x \notin ToSet(w)
<1>1. ToSet(w) = {w[k] : k \in 1 .. Len(w)} /\ Len(w) \in Nat /\ \A k \in 1 .. Len(w) : w[k] \in Int
  BY DEF ToSet
<1> SUFFICES ASSUME NEW q \in 1 .. Len(w), w[q] = x PROVE FALSE
  BY <1>1, Zenon
<1>2. ~ (q \in 1 .. j - 1)
  BY <1>1
<1>3. j <= q /\ j \in 1 .. Len(w)
  BY <1>1, <1>2
<1>4. w[j] <= w[q] /\ x < w[j]
  BY <1>1, <1>3 DEF Strict
<1> QED BY <1>1, <1>3, <1>4

\* The merge goes on from i and j to i2 and j2, logging x, the least that remains.
GoesOn(u, w, i, j, i2, j2, x, name) ==
  /\ IF i2 = i + 1 THEN i <= Len(u) /\ x = u[i] ELSE i <= Len(u) => x < u[i]
  /\ IF j2 = j + 1 THEN j <= Len(w) /\ x = w[j] ELSE j <= Len(w) => x < w[j]
  /\ name # "right" <=> i2 = i + 1
  /\ name # "left" <=> j2 = j + 1

LEMMA MergeStep ==
  ASSUME NEW u \in Seq(Int), NEW w \in Seq(Int), Strict(u), Strict(w),
         NEW i \in 1 .. Len(u) + 1, NEW j \in 1 .. Len(w) + 1, NEW log, MergeInv(u, w, i, j, log),
         NEW x \in Int, NEW name \in Sides, NEW i2 \in {i, i + 1}, NEW j2 \in {j, j + 1},
         GoesOn(u, w, i, j, i2, j2, x, name)
  PROVE  MergeInv(u, w, i2, j2, Append(log, <<name, x>>))
<1> USE DEF GoesOn
<1> DEFINE e == <<name, x>>   l == Append(log, e)   N == 1 .. Len(log)
<1>0. /\ Len(u) \in Nat /\ Len(w) \in Nat /\ Len(log) \in Nat /\ log \in Seq(Sides \X Int)
      /\ \A k \in 1 .. Len(u) : u[k] \in Int
      /\ \A k \in 1 .. Len(w) : w[k] \in Int
      /\ \A n \in N : log[n][2] \in Int /\ log[n][1] \in Sides
  <2>1. log \in Seq(Sides \X Int)
    BY DEF MergeInv
  <2>2. \A n \in N : log[n] \in Sides \X Int
    BY <2>1, ElementOfSeq
  <2>3. \A n \in N : log[n][1] \in Sides /\ log[n][2] \in Int
    BY <2>2, Zenon
  <2>4. Len(log) \in Nat /\ Len(u) \in Nat /\ Len(w) \in Nat
    BY <2>1, LenProperties
  <2>5. (\A k \in 1 .. Len(u) : u[k] \in Int) /\ \A k \in 1 .. Len(w) : w[k] \in Int
    BY ElementOfSeq, Zenon
  <2> QED BY <2>1, <2>3, <2>4, <2>5, Zenon
<1>1. /\ e \in Sides \X Int /\ e[1] = name /\ e[2] = x
      /\ l \in Seq(Sides \X Int) /\ Len(l) = Len(log) + 1
      /\ (\A n \in N : l[n] = log[n]) /\ l[Len(log) + 1] = e
  <2>1. e \in Sides \X Int /\ e[1] = name /\ e[2] = x
    OBVIOUS
  <2> HIDE DEF e
  <2>2. log \in Seq(Sides \X Int)
    BY <1>0
  <2> DEFINE Entries == Sides \X Int
  <2>3. e \in Entries /\ log \in Seq(Entries)
    BY <2>1, <2>2
  <2> HIDE DEF Entries
  <2>4. /\ l \in Seq(Entries) /\ Len(l) = Len(log) + 1
        /\ (\A n \in N : l[n] = log[n]) /\ l[Len(log) + 1] = e
    BY <2>3, Appended
  <2> QED BY <2>1, <2>4 DEF Entries
<1>2. \A n : n \in 1 .. Len(l) <=> n \in N \/ n = Len(log) + 1
  <2> DEFINE p == Len(log)   q == Len(l)
  <2>1. q = p + 1 /\ p \in Nat
    BY <1>0, <1>1
  <2> HIDE DEF l, p, q
  <2>2. \A n : n \in 1 .. q <=> n \in 1 .. p \/ n = p + 1
    <3>1. p \in Nat
      BY <2>1
    <3>2. p + 1 \in 1 .. p + 1 /\ \A n \in 1 .. p : n \in 1 .. p + 1
      BY <3>1
    <3>3. \A n \in 1 .. p + 1 : n \in 1 .. p \/ n = p + 1
      BY <3>1
    <3> QED BY <2>1, <3>2, <3>3, Zenon
  <2> QED BY <2>2, Zenon DEF p, q
<1>3. \A n \in N : log[n][2] < x
  BY <1>0, Zenon DEF MergeInv, Sides
<1>4. {log[n][2] : n \in N} = {u[k] : k \in 1 .. i - 1} \cup {w[k] : k \in 1 .. j - 1}
  BY Zenon DEF MergeInv
<1>5. (\A k \in 1 .. i - 1 : u[k] < x) /\ (\A k \in 1 .. j - 1 : w[k] < x)
  BY <1>3, <1>4, Zenon
<1> HIDE DEF e, l, N
<1>6. \A m, n \in 1 .. Len(l) : m < n => l[m][2] < l[n][2]
  <2> SUFFICES ASSUME NEW m \in 1 .. Len(l), NEW n \in 1 .. Len(l), m < n PROVE l[m][2] < l[n][2]
    BY Zenon
  <2>1. m \in N /\ l[m] = log[m]
    <3>1. Len(l) = Len(log) + 1 /\ Len(log) \in Nat
      BY <1>0, <1>1
    <3>2. m \in N
      BY <3>1 DEF N
    <3> QED BY <1>1, <3>2, Zenon
  <2>2. CASE n \in N
    BY <1>1, <2>1, <2>2, Zenon DEF MergeInv, N
  <2>3. CASE n = Len(log) + 1
    BY <1>1, <1>3, <2>1, <2>3, Zenon
  <2> QED BY <1>2, <2>2, <2>3, Zenon
<1>7. {l[n][2] : n \in 1 .. Len(l)} = {u[k] : k \in 1 .. i2 - 1} \cup {w[k] : k \in 1 .. j2 - 1}
  <2>1. {l[n][2] : n \in 1 .. Len(l)} = {log[n][2] : n \in N} \cup {x}
    <3>1. (\A n \in N : l[n] = log[n]) /\ l[Len(log) + 1][2] = x
      BY <1>1
    <3> HIDE DEF MergeInv
    <3>2. ASSUME NEW n \in 1 .. Len(l) PROVE l[n][2] \in {log[m][2] : m \in N} \cup {x}
      BY <1>2, <3>1, Zenon
    <3>3. ASSUME NEW m \in N PROVE log[m][2] \in {l[n][2] : n \in 1 .. Len(l)}
      <4>1. m \in 1 .. Len(l) /\ l[m][2] = log[m][2]
        BY <1>2, <3>1, Zenon
      <4> QED BY <4>1, Zenon
    <3>4. x \in {l[n][2] : n \in 1 .. Len(l)}
      BY <1>2, <3>1, Zenon
    <3> QED BY <3>2, <3>3, <3>4, Zenon
  <2>2. /\ i2 = i => {u[k] : k \in 1 .. i2 - 1} = {u[k] : k \in 1 .. i - 1}
        /\ i2 = i + 1 => {u[k] : k \in 1 .. i2 - 1} = {u[k] : k \in 1 .. i - 1} \cup {x}
    <3>1. i2 = i + 1 => \A k : k \in 1 .. i2 - 1 <=> k \in 1 .. i - 1 \/ k = i
      <4>1. i \in Nat /\ i > 0
        BY <1>0
      <4> QED BY <4>1
    <3> QED BY <3>1, Zenon
  <2>3. /\ j2 = j => {w[k] : k \in 1 .. j2 - 1} = {w[k] : k \in 1 .. j - 1}
        /\ j2 = j + 1 => {w[k] : k \in 1 .. j2 - 1} = {w[k] : k \in 1 .. j - 1} \cup {x}
    <3>1. j2 = j + 1 => \A k : k \in 1 .. j2 - 1 <=> k \in 1 .. j - 1 \/ k = j
      <4>1. j \in Nat /\ j > 0
        BY <1>0
      <4> QED BY <4>1
    <3> QED BY <3>1, Zenon
  <2>4. i2 = i + 1 \/ j2 = j + 1
    BY DEF Sides
  <2> HIDE DEF N
  <2> QED BY <1>4, <2>1, <2>2, <2>3, <2>4, Zenon
<1>8. ASSUME NEW n \in 1 .. Len(l)
      PROVE  (i2 <= Len(u) => l[n][2] < u[i2]) /\ (j2 <= Len(w) => l[n][2] < w[j2])
  <2>1. l[n][2] \in Int /\ l[n][2] <= x
    <3>1. CASE n \in N
      <4>1. l[n] = log[n]
        BY <1>1, <3>1, Zenon
      <4>2. log[n][2] \in Int /\ log[n][2] < x
        BY <1>0, <1>3, <3>1, Zenon
      <4>3. \A y \in Int : y < x => y <= x
        OBVIOUS
      <4>4. l[n][2] \in Int /\ l[n][2] < x
        BY <4>1, <4>2, Zenon
      <4> QED BY <4>3, <4>4, Zenon
    <3>2. CASE n = Len(log) + 1
      <4>1. l[n][2] = x
        BY <1>1, <3>2
      <4> QED BY <4>1
    <3> QED BY <1>2, <3>1, <3>2, Zenon
  <2>2. i2 <= Len(u) => x < u[i2] /\ u[i2] \in Int
    <3>1. CASE i2 = i
      <4>1. i2 # i + 1
        BY <3>1
      <4>2. i <= Len(u) => x < u[i]
        BY <4>1
      <4>3. i <= Len(u) => u[i] \in Int
        BY <1>0
      <4> HIDE DEF GoesOn
      <4> QED BY <3>1, <4>2, <4>3, Zenon
    <3>2. CASE i2 = i + 1
      <4>1. i <= Len(u) /\ x = u[i] /\ i \in 1 .. Len(u)
        BY <1>0, <3>2
      <4>2. i2 <= Len(u) => i2 \in 1 .. Len(u) /\ i < i2
        BY <1>0, <3>2, <4>1
      <4> QED BY <1>0, <4>1, <4>2 DEF Strict
    <3> QED BY <3>1, <3>2
  <2>3. j2 <= Len(w) => x < w[j2] /\ w[j2] \in Int
    <3>1. CASE j2 = j
      <4>1. j2 # j + 1
        BY <3>1
      <4>2. j <= Len(w) => x < w[j]
        BY <4>1
      <4>3. j <= Len(w) => w[j] \in Int
        BY <1>0
      <4> HIDE DEF GoesOn
      <4> QED BY <3>1, <4>2, <4>3, Zenon
    <3>2. CASE j2 = j + 1
      <4>1. j <= Len(w) /\ x = w[j] /\ j \in 1 .. Len(w)
        BY <1>0, <3>2
      <4>2. j2 <= Len(w) => j2 \in 1 .. Len(w) /\ j < j2
        BY <1>0, <3>2, <4>1
      <4> QED BY <1>0, <4>1, <4>2 DEF Strict
    <3> QED BY <3>1, <3>2
  <2>4. \A y \in Int : x < y => l[n][2] < y
    BY <2>1
  <2> QED BY <2>2, <2>3, <2>4, Zenon
<1>9. /\ name # "right" => x \in ToSet(u)
      /\ name # "left" => x \in ToSet(w)
      /\ name = "left" => x \notin ToSet(w)
      /\ name = "right" => x \notin ToSet(u)
  <2>1. name # "right" => x \in ToSet(u)
    BY <1>0 DEF ToSet
  <2>2. name # "left" => x \in ToSet(w)
    BY <1>0 DEF ToSet
  <2>3. name = "left" => x \notin ToSet(w)
    BY <1>5, NotYet
  <2>4. name = "right" => x \notin ToSet(u)
    BY <1>5, NotYet, Zenon
  <2> QED BY <2>1, <2>2, <2>3, <2>4
<1>10. ASSUME NEW n \in 1 .. Len(l)
       PROVE  /\ l[n][1] \in Sides
              /\ l[n][1] # "right" => l[n][2] \in ToSet(u)
              /\ l[n][1] # "left" => l[n][2] \in ToSet(w)
              /\ l[n][1] = "left" => l[n][2] \notin ToSet(w)
              /\ l[n][1] = "right" => l[n][2] \notin ToSet(u)
  <2>1. CASE n \in N
    <3>1. l[n] = log[n]
      BY <1>1, <2>1, Zenon
    <3> QED BY <2>1, <3>1 DEF MergeInv, N
  <2>2. CASE n = Len(log) + 1
    BY <1>1, <1>9, <2>2, Zenon
  <2> QED BY <1>2, <2>1, <2>2, Zenon
<1>11. MergeInv(u, w, i2, j2, l)
  BY <1>1, <1>6, <1>7, <1>8, <1>10, Zenon DEF MergeInv
<1> QED BY <1>11 DEF l, e

MergeStates(u, w) ==
  [i : 1 .. Len(u) + 1, j : 1 .. Len(w) + 1, log : Seq(Sides \X Int)]

Merged(u, w, at) ==
  IF at.i <= Len(u) /\ at.j <= Len(w) THEN Round(u, w, at) ELSE RestRound(u, w, at)

\* A round goes on in one or both of the slices, and logs what it passes.
Passes(u, w, at, to) ==
  \E i2 \in {at.i, at.i + 1}, j2 \in {at.j, at.j + 1}, x \in Int, name \in Sides :
    /\ to = [i |-> i2, j |-> j2, log |-> Append(at.log, <<name, x>>)]
    /\ GoesOn(u, w, at.i, at.j, i2, j2, x, name)

LEMMA MergedPasses ==
  ASSUME NEW u \in Seq(Int), NEW w \in Seq(Int), NEW at \in MergeStates(u, w),
         at.i <= Len(u) \/ at.j <= Len(w)
  PROVE  Passes(u, w, at, Merged(u, w, at)) /\ Merged(u, w, at) \in MergeStates(u, w)
<1> DEFINE i == at.i   j == at.j   to == Merged(u, w, at)
           New(a, b, name, x) == [i |-> a, j |-> b, log |-> Append(at.log, <<name, x>>)]
<1>0. /\ i \in 1 .. Len(u) + 1 /\ j \in 1 .. Len(w) + 1 /\ Len(u) \in Nat /\ Len(w) \in Nat
      /\ i \in Nat /\ j \in Nat
      /\ at = [i |-> i, j |-> j, log |-> at.log] /\ at.log \in Seq(Sides \X Int)
      /\ (i <= Len(u) => u[i] \in Int) /\ (j <= Len(w) => w[j] \in Int)
  <2>1. /\ i \in 1 .. Len(u) + 1 /\ j \in 1 .. Len(w) + 1
        /\ at = [i |-> i, j |-> j, log |-> at.log] /\ at.log \in Seq(Sides \X Int)
    BY DEF MergeStates
  <2>2. Len(u) \in Nat /\ Len(w) \in Nat
    BY LenProperties
  <2>3. (i <= Len(u) => i \in 1 .. Len(u)) /\ (j <= Len(w) => j \in 1 .. Len(w))
    BY <2>1, <2>2
  <2> HIDE DEF i, j
  <2> QED BY <2>1, <2>2, <2>3, ElementOfSeq
<1>3. /\ Round(u, w, at) = IF u[i] < w[j] THEN New(i + 1, j, "left", u[i])
                           ELSE IF u[i] > w[j] THEN New(i, j + 1, "right", w[j])
                           ELSE New(i + 1, j + 1, "equal", u[i])
      /\ RestRound(u, w, at) = IF i <= Len(u) THEN New(i + 1, j, "left", u[i])
                               ELSE IF j <= Len(w) THEN New(i, j + 1, "right", w[j]) ELSE at
  BY DEF Round, RestRound
<1> HIDE DEF New
<1>4. \/ /\ to = New(i + 1, j, "left", u[i])
         /\ i <= Len(u) /\ (j <= Len(w) => u[i] < w[j])
      \/ /\ to = New(i, j + 1, "right", w[j])
         /\ j <= Len(w) /\ (i <= Len(u) => w[j] < u[i])
      \/ /\ to = New(i + 1, j + 1, "equal", u[i])
         /\ i <= Len(u) /\ j <= Len(w) /\ u[i] = w[j]
  <2>1. CASE i <= Len(u) /\ j <= Len(w)
    <3>1. to = Round(u, w, at)
      BY <2>1 DEF Merged
    <3>2. u[i] \in Int /\ w[j] \in Int
      BY <1>0, <2>1
    <3> HIDE DEF i, j, to
    <3>3. CASE u[i] < w[j]
      <4>1. to = New(i + 1, j, "left", u[i])
        BY <1>3, <3>1, <3>3
      <4> QED BY <2>1, <3>3, <4>1
    <3>4. CASE u[i] > w[j]
      <4>1. to = New(i, j + 1, "right", w[j]) /\ w[j] < u[i]
        BY <1>3, <3>1, <3>2, <3>4
      <4> QED BY <2>1, <4>1
    <3>5. CASE ~ (u[i] < w[j]) /\ ~ (u[i] > w[j])
      <4>1. to = New(i + 1, j + 1, "equal", u[i])
        BY <1>3, <3>1, <3>5
      <4>2. u[i] = w[j]
        BY <3>2, <3>5
      <4> QED BY <2>1, <4>1, <4>2
    <3> QED BY <3>3, <3>4, <3>5
  <2>2. CASE ~ (i <= Len(u) /\ j <= Len(w))
    <3>1. to = RestRound(u, w, at)
      BY <2>2 DEF Merged
    <3> HIDE DEF to
    <3> QED BY <1>0, <1>3, <2>2, <3>1
  <2> QED BY <2>1, <2>2
<1>5. \A name \in Sides, x \in Int, a \in 1 .. Len(u) + 1, b \in 1 .. Len(w) + 1 :
        New(a, b, name, x) \in MergeStates(u, w)
  <2> TAKE name \in Sides, x \in Int, a \in 1 .. Len(u) + 1, b \in 1 .. Len(w) + 1
  <2>1. <<name, x>> \in Sides \X Int
    OBVIOUS
  <2>2. Append(at.log, <<name, x>>) \in Seq(Sides \X Int)
    <3> DEFINE Entries == Sides \X Int   e == <<name, x>>
    <3>1. e \in Entries /\ at.log \in Seq(Entries)
      BY <1>0
    <3> HIDE DEF Entries, e
    <3>2. Append(at.log, e) \in Seq(Entries)
      BY <3>1, Appended
    <3> QED BY <3>2 DEF Entries, e
  <2> QED BY <2>2 DEF New, MergeStates
<1>6. "left" \in Sides /\ "right" \in Sides /\ "equal" \in Sides
  BY DEF Sides
<1> HIDE DEF to
<1>7. ASSUME NEW i2 \in {i, i + 1}, NEW j2 \in {j, j + 1}, NEW x \in Int, NEW name \in Sides,
             to = New(i2, j2, name, x),
             IF i2 = i + 1 THEN i <= Len(u) /\ x = u[i] ELSE i <= Len(u) => x < u[i],
             IF j2 = j + 1 THEN j <= Len(w) /\ x = w[j] ELSE j <= Len(w) => x < w[j],
             name # "right" <=> i2 = i + 1, name # "left" <=> j2 = j + 1
      PROVE  Passes(u, w, at, to) /\ to \in MergeStates(u, w)
  <2>1. i2 \in 1 .. Len(u) + 1 /\ j2 \in 1 .. Len(w) + 1
    <3>1. \A a, n \in Nat : a \in 1 .. n + 1 /\ a <= n => a + 1 \in 1 .. n + 1
      OBVIOUS
    <3> HIDE DEF i, j
    <3> QED BY <1>0, <1>7, <3>1, Zenon
  <2>2. to \in MergeStates(u, w)
    BY <1>5, <1>7, <2>1
  <2>3. Passes(u, w, at, to)
    BY <1>7, Zenon DEF Passes, New, GoesOn
  <2> QED BY <2>2, <2>3
<1>8. i # i + 1 /\ j # j + 1
  BY <1>0
<1>9. CASE to = New(i + 1, j, "left", u[i]) /\ i <= Len(u) /\ (j <= Len(w) => u[i] < w[j])
  <2>1. u[i] \in Int
    BY <1>0, <1>9
  <2> HIDE DEF i, j
  <2> QED BY <1>6, <1>7, <1>8, <1>9, <2>1 DEF to
<1>10. CASE to = New(i, j + 1, "right", w[j]) /\ j <= Len(w) /\ (i <= Len(u) => w[j] < u[i])
  <2>1. w[j] \in Int
    BY <1>0, <1>10
  <2> HIDE DEF i, j
  <2> QED BY <1>6, <1>7, <1>8, <1>10, <2>1 DEF to
<1>11. CASE to = New(i + 1, j + 1, "equal", u[i]) /\ i <= Len(u) /\ j <= Len(w) /\ u[i] = w[j]
  <2>1. u[i] \in Int
    BY <1>0, <1>11
  <2> HIDE DEF i, j
  <2> QED BY <1>6, <1>7, <1>8, <1>11, <2>1, Zenon DEF to
<1> QED BY <1>4, <1>9, <1>10, <1>11

MergeRounds(f, u, w) ==
  /\ f[0] = [i |-> 1, j |-> 1, log |-> <<>>]
  /\ \A k \in 1 .. Len(u) + Len(w) : f[k] = Merged(u, w, f[k - 1])

CompareBy(f, s1, s2, u, w) ==
  /\ MergeRounds(f, u, w) /\ f \in [0 .. Len(u) + Len(w) -> MergeStates(u, w)]
  /\ Compare(s1, s2) = f[Len(u) + Len(w)].log

LEMMA CompareRuns ==
  ASSUME NEW s1, NEW s2, NEW u \in Seq(Int), NEW w \in Seq(Int), u = Unique(s1), w = Unique(s2)
  PROVE  \E f : CompareBy(f, s1, s2, u, w)
<1> DEFINE n == Len(u) + Len(w)
           N == 0 .. n
           D == MergeStates(u, w)
           base == [i |-> 1, j |-> 1, log |-> <<>>]
           step == [i \in 1 .. n |-> [l \in D |-> Merged(u, w, l)]]
           Is(f) == f = [k \in N |->
                          IF k = 0 THEN [i |-> 1, j |-> 1, log |-> <<>>]
                          ELSE IF f[k - 1].i <= Len(u) /\ f[k - 1].j <= Len(w) THEN Round(u, w, f[k - 1])
                          ELSE RestRound(u, w, f[k - 1])]
           v == CHOOSE f : Is(f)
<1>1. Compare(s1, s2) = v[n].log
  BY DEF Compare
<1>2. n \in Nat /\ base \in D /\ Len(u) \in Nat /\ Len(w) \in Nat
  <2>1. Len(u) \in Nat /\ Len(w) \in Nat
    BY LenProperties
  <2>2. 1 \in 1 .. Len(u) + 1 /\ 1 \in 1 .. Len(w) + 1 /\ <<>> \in Seq(Sides \X Int)
    BY <2>1
  <2> QED BY <2>1, <2>2 DEF MergeStates
<1>3. \A i \in 1 .. n, l \in D : Merged(u, w, l) \in D /\ step[i][l] = Merged(u, w, l)
  <2> TAKE i \in 1 .. n, l \in D
  <2>1. CASE l.i <= Len(u) \/ l.j <= Len(w)
    <3>1. Merged(u, w, l) \in D
      BY <2>1, MergedPasses
    <3> HIDE DEF D
    <3> QED BY <3>1
  <2>2. CASE ~ (l.i <= Len(u) \/ l.j <= Len(w))
    <3>1. Merged(u, w, l) = l
      BY <2>2 DEF Merged, RestRound
    <3> HIDE DEF D
    <3> QED BY <3>1
  <2> QED BY <2>1, <2>2
<1>4. StaysIn(n, D, step)
  <2> HIDE DEF D, step
  <2> QED BY <1>3 DEF StaysIn
<1>5. PICK f : f \in [N -> D] /\ LoopOf(f, n, base, step)
  <2> HIDE DEF step, D, base, n
  <2> QED BY <1>2, <1>4, LoopExists
<1>6. \A i \in 1 .. n : f[i] = Merged(u, w, f[i - 1])
  <2> HIDE DEF step, D, base
  <2>1. \A i \in 1 .. n : i - 1 \in N
    BY <1>2
  <2>2. \A i \in 1 .. n : f[i - 1] \in D
    BY <1>5, <2>1, Zenon
  <2>3. \A i \in 1 .. n : f[i] = step[i][f[i - 1]]
    BY <1>5, Zenon DEF LoopOf
  <2> QED BY <1>3, <2>2, <2>3
<1> DEFINE Step(l) == IF l.i <= Len(u) /\ l.j <= Len(w) THEN Round(u, w, l) ELSE RestRound(u, w, l)
<1>m. \A l : Step(l) = Merged(u, w, l)
  BY DEF Merged
<1>7. Is(f)
  <2>1. \A i \in N : i # 0 => i \in 1 .. n
    BY <1>2
  <2>2. f = [i \in N |-> f[i]]
    BY <1>5
  <2>3. \A i \in N : f[i] = IF i = 0 THEN base ELSE Step(f[i - 1])
    <3> HIDE DEF D, N, base, Step
    <3> QED BY <1>5, <1>6, <1>m, <2>1 DEF LoopOf
  <2>4. f = [i \in N |-> IF i = 0 THEN base ELSE Step(f[i - 1])]
    <3> HIDE DEF D, N, base, Step
    <3> QED BY <2>2, <2>3, Zenon
  <2> QED BY <2>4, Zenon
<1>8. Is(v)
  <2> HIDE DEF Is
  <2> QED BY <1>7, Zenon
<1>9. v[0] = base /\ \A i \in 1 .. n : v[i] = Merged(u, w, v[i - 1])
  <2>1. v = [i \in N |-> IF i = 0 THEN base ELSE Step(v[i - 1])]
    BY <1>8, Zenon
  <2>2. \A i \in 1 .. n : i # 0 /\ i \in N
    BY <1>2
  <2> HIDE DEF v, Step, base, Is
  <2> DEFINE g == [i \in N |-> IF i = 0 THEN base ELSE Step(v[i - 1])]
  <2>3. (\A i \in 1 .. n : g[i] = Step(v[i - 1])) /\ g[0] = base
    BY <1>2, <2>2
  <2> HIDE DEF g
  <2>4. v = g
    BY <2>1, Zenon DEF g
  <2> QED BY <1>m, <2>3, <2>4
<1>10. \A i \in N : v[i] \in D
  <2> HIDE DEF v, base, Is, D
  <2>1. \A i \in 1 .. n : v[i - 1] \in D => v[i] \in D
    BY <1>3, <1>9
  <2> HIDE DEF n
  <2> QED BY <1>2, <1>9, <2>1, LoopStays, Zenon
<1>11. v \in [N -> D]
  <2>1. v = [i \in N |-> IF i = 0 THEN base ELSE Step(v[i - 1])]
    BY <1>8, Zenon
  <2> HIDE DEF v, Step, base, Is, D
  <2> QED BY <1>10, <2>1, Zenon
<1> HIDE DEF v, Is, D
<1> QED BY <1>1, <1>9, <1>11 DEF D, MergeRounds, CompareBy

\* One call for each element of either slice, in ascending order, for the side it is on.
MergeOf(s1, s2, log) ==
  /\ log \in Seq(Sides \X Int)
  /\ \A m, n \in 1 .. Len(log) : m < n => log[m][2] < log[n][2]
  /\ {log[n][2] : n \in 1 .. Len(log)} = ToSet(s1) \cup ToSet(s2)
  /\ \A n \in 1 .. Len(log) :
       /\ log[n][1] \in Sides
       /\ log[n][1] = "left"  => log[n][2] \in ToSet(s1) \ ToSet(s2)
       /\ log[n][1] = "equal" => log[n][2] \in ToSet(s1) \cap ToSet(s2)
       /\ log[n][1] = "right" => log[n][2] \in ToSet(s2) \ ToSet(s1)

LEMMA CompareIs ==
  ASSUME NEW s1 \in Seq(Int), NEW s2 \in Seq(Int)
  PROVE  MergeOf(s1, s2, Compare(s1, s2))
<1> DEFINE u == Unique(s1)   w == Unique(s2)   L == Len(u) + Len(w)
<1>1. /\ u \in Seq(Int) /\ Strict(u) /\ ToSet(u) = ToSet(s1)
      /\ w \in Seq(Int) /\ Strict(w) /\ ToSet(w) = ToSet(s2)
  BY UniqueIs
<1>2a. PICK f : CompareBy(f, s1, s2, u, w)
  <2>1. u = Unique(s1) /\ w = Unique(s2)
    OBVIOUS
  <2> HIDE DEF u, w
  <2> QED BY <1>1, <2>1, CompareRuns
<1>2. /\ MergeRounds(f, u, w) /\ f \in [0 .. Len(u) + Len(w) -> MergeStates(u, w)]
      /\ Compare(s1, s2) = f[Len(u) + Len(w)].log
  BY <1>2a DEF CompareBy
<1> HIDE DEF u, w
<1>3. Len(u) \in Nat /\ Len(w) \in Nat /\ L \in Nat
  BY <1>1, LenProperties
<1>4. \A k \in 0 .. L : f[k] \in MergeStates(u, w)
  BY <1>2, Zenon
<1>5. f[0] = [i |-> 1, j |-> 1, log |-> <<>>] /\ \A k \in 1 .. L : f[k] = Merged(u, w, f[k - 1])
  BY <1>2 DEF MergeRounds
<1>6. \A k \in 0 .. L : f[k].i \in 1 .. Len(u) + 1 /\ f[k].j \in 1 .. Len(w) + 1 /\ f[k].log \in Seq(Sides \X Int)
  BY <1>4, Zenon DEF MergeStates
<1> DEFINE Far(k) == (f[k].i = Len(u) + 1 /\ f[k].j = Len(w) + 1) \/ f[k].i + f[k].j >= k + 2
           S == {k \in 0 .. L : Far(k) /\ MergeInv(u, w, f[k].i, f[k].j, f[k].log)}
<1>7. 0 \in S
  <2>1. f[0].i = 1 /\ f[0].j = 1 /\ f[0].log = <<>>
    BY <1>5
  <2>2. MergeInv(u, w, 1, 1, <<>>)
    <3>1. <<>> \in Seq(Sides \X Int) /\ Len(<<>>) = 0 /\ {u[k] : k \in 1 .. 1 - 1} = {} /\ {w[k] : k \in 1 .. 1 - 1} = {}
      OBVIOUS
    <3>2. {<<>>[n][2] : n \in 1 .. Len(<<>>)} = {}
      BY <3>1
    <3> QED BY <3>1, <3>2 DEF MergeInv
  <2>3. Far(0)
    BY <2>1
  <2>4. MergeInv(u, w, f[0].i, f[0].j, f[0].log)
    BY <2>1, <2>2
  <2> HIDE DEF Far
  <2> QED BY <1>3, <2>3, <2>4
<1>8. ASSUME NEW k \in 1 .. L, k - 1 \in S PROVE k \in S
  <2> DEFINE at == f[k - 1]
  <2>0. /\ k \in 0 .. L /\ k - 1 \in 0 .. L /\ at \in MergeStates(u, w) /\ f[k] = Merged(u, w, at)
        /\ at.i \in 1 .. Len(u) + 1 /\ at.j \in 1 .. Len(w) + 1
        /\ Far(k - 1) /\ MergeInv(u, w, at.i, at.j, at.log)
    <3>1. k \in 0 .. L /\ k - 1 \in 0 .. L
      BY <1>3
    <3> HIDE DEF Far
    <3> QED BY <3>1, <1>4, <1>5, <1>6, <1>8
  <2>0a. at.i \in Nat /\ at.j \in Nat /\ k \in Nat
    <3>1. at.i \in 1 .. Len(u) + 1 /\ at.j \in 1 .. Len(w) + 1 /\ k \in 0 .. L
      BY <2>0
    <3> HIDE DEF at, Far
    <3> QED BY <3>1
  <2>1. CASE at.i <= Len(u) \/ at.j <= Len(w)
    <3>1. Passes(u, w, at, f[k])
      <4> HIDE DEF at
      <4> QED BY <1>1, <2>0, <2>1, MergedPasses
    <3> HIDE DEF at
    <3>2. PICK i2 \in {at.i, at.i + 1}, j2 \in {at.j, at.j + 1}, x \in Int, name \in Sides :
            /\ f[k] = [i |-> i2, j |-> j2, log |-> Append(at.log, <<name, x>>)]
            /\ GoesOn(u, w, at.i, at.j, i2, j2, x, name)
      BY <3>1, Zenon DEF Passes
    <3>3. MergeInv(u, w, i2, j2, Append(at.log, <<name, x>>))
      <4> DEFINE p == at.i   q == at.j   lg == at.log
      <4>1. /\ p \in 1 .. Len(u) + 1 /\ q \in 1 .. Len(w) + 1 /\ MergeInv(u, w, p, q, lg)
            /\ i2 \in {p, p + 1} /\ j2 \in {q, q + 1} /\ GoesOn(u, w, p, q, i2, j2, x, name)
        BY <2>0, <3>2
      <4> HIDE DEF p, q, lg
      <4>2. MergeInv(u, w, i2, j2, Append(lg, <<name, x>>))
        BY <1>1, <4>1, MergeStep, ZenonT(30)
      <4> QED BY <4>2 DEF lg
    <3>4. f[k].i = i2 /\ f[k].j = j2 /\ f[k].log = Append(at.log, <<name, x>>)
      BY <3>2
    <3>5. i2 + j2 >= at.i + at.j + 1
      <4>1. name # "right" \/ name # "left"
        OBVIOUS
      <4>2. at.i \in Nat /\ at.j \in Nat
        BY <2>0a
      <4>3. i2 = at.i + 1 \/ j2 = at.j + 1
        BY <3>2, <4>1 DEF GoesOn
      <4>4. \A p, q \in Nat : \A p2 \in {p, p + 1}, q2 \in {q, q + 1} :
              p2 = p + 1 \/ q2 = q + 1 => p2 + q2 >= p + q + 1
        OBVIOUS
      <4> QED BY <4>2, <4>3, <4>4, Zenon
    <3>6. Far(k)
      <4>1. at.i + at.j >= k - 1 + 2
        BY <1>3, <2>0, <2>1 DEF at
      <4>2. at.i \in Nat /\ at.j \in Nat /\ k \in Nat
        BY <2>0a
      <4>3. i2 \in Nat /\ j2 \in Nat
        BY <4>2
      <4> QED BY <3>4, <3>5, <4>1, <4>2, <4>3
    <3> HIDE DEF Far
    <3> QED BY <2>0, <3>3, <3>4, <3>6, Zenon
  <2>2. CASE ~ (at.i <= Len(u) \/ at.j <= Len(w))
    <3>1. f[k] = at
      BY <2>0, <2>2, Zenon DEF Merged, RestRound
    <3>2. at.i = Len(u) + 1 /\ at.j = Len(w) + 1
      <4>1. at.i \in 1 .. Len(u) + 1 /\ at.j \in 1 .. Len(w) + 1
        BY <2>0
      <4>2. \A n \in Nat : \A p \in 1 .. n + 1 : ~ (p <= n) => p = n + 1
        OBVIOUS
      <4> HIDE DEF at
      <4> QED BY <1>3, <2>2, <4>1, <4>2, Zenon
    <3>3. Far(k)
      BY <3>1, <3>2
    <3> HIDE DEF Far
    <3> QED BY <2>0, <3>1, <3>3, Zenon
  <2> QED BY <2>1, <2>2
<1>9. L \in S
  <2> HIDE DEF S, L
  <2>1. \A k \in 0 .. L : k \in S
    BY <1>3, <1>7, <1>8, RoundByRound, Zenon
  <2> QED BY <1>3, <2>1
<1> DEFINE log == f[L].log
<1>10. Compare(s1, s2) = log /\ MergeInv(u, w, f[L].i, f[L].j, log) /\ L \in 0 .. L
  <2> HIDE DEF Far
  <2> QED BY <1>2, <1>3, <1>9
<1>11. f[L].i = Len(u) + 1 /\ f[L].j = Len(w) + 1
  <2>1. Far(L)
    BY <1>9
  <2>2. f[L].i \in 1 .. Len(u) + 1 /\ f[L].j \in 1 .. Len(w) + 1
    BY <1>6, <1>10
  <2>3. \A m, n \in Nat : \A p \in 1 .. m + 1, q \in 1 .. n + 1 : p + q >= m + n + 2 => p = m + 1 /\ q = n + 1
    OBVIOUS
  <2>4. f[L].i + f[L].j >= L + 2 => f[L].i = Len(u) + 1 /\ f[L].j = Len(w) + 1
    BY <1>3, <2>2, <2>3, Zenon
  <2> QED BY <2>1, <2>4
<1>12. {log[n][2] : n \in 1 .. Len(log)} = ToSet(s1) \cup ToSet(s2)
  <2>1. {log[n][2] : n \in 1 .. Len(log)} = {u[k] : k \in 1 .. f[L].i - 1} \cup {w[k] : k \in 1 .. f[L].j - 1}
    BY <1>10, Zenon DEF MergeInv
  <2>2. f[L].i - 1 = Len(u) /\ f[L].j - 1 = Len(w)
    BY <1>3, <1>11
  <2>3. ToSet(u) = {u[k] : k \in 1 .. Len(u)} /\ ToSet(w) = {w[k] : k \in 1 .. Len(w)}
    BY <1>1 DEF ToSet
  <2> HIDE DEF log
  <2> QED BY <1>1, <2>1, <2>2, <2>3, Zenon
<1>13. /\ log \in Seq(Sides \X Int)
       /\ \A m, n \in 1 .. Len(log) : m < n => log[m][2] < log[n][2]
       /\ \A n \in 1 .. Len(log) :
              /\ log[n][1] \in Sides
              /\ log[n][1] = "left"  => log[n][2] \in ToSet(s1) \ ToSet(s2)
              /\ log[n][1] = "equal" => log[n][2] \in ToSet(s1) \cap ToSet(s2)
              /\ log[n][1] = "right" => log[n][2] \in ToSet(s2) \ ToSet(s1)
  <2> HIDE DEF log
  <2> QED BY <1>1, <1>10, Zenon DEF MergeInv
<1> HIDE DEF log
<1> QED BY <1>10, <1>12, <1>13 DEF MergeOf

LEMMA StrictAscends ==
  ASSUME NEW s \in Seq(Int), Strict(s)
  PROVE  Ascending(s)
<1>1. Len(s) \in Nat
  BY LenProperties
<1> SUFFICES ASSUME NEW i \in 1 .. Len(s) - 1 PROVE s[i] < s[i + 1]
  BY DEF Ascending
<1>2. i \in 1 .. Len(s) /\ i + 1 \in 1 .. Len(s) /\ i < i + 1
  BY <1>1
<1> QED BY <1>2 DEF Strict

\* The elements on one side of the comparison.
On(s1, s2, name) ==
  CASE name = "left"  -> ToSet(s1) \ ToSet(s2)
    [] name = "equal" -> ToSet(s1) \cap ToSet(s2)
    [] name = "right" -> ToSet(s2) \ ToSet(s1)

\* One side of what Compare has logged: its elements, in ascending order.
LEMMA SideIs ==
  ASSUME NEW s1 \in Seq(Int), NEW s2 \in Seq(Int), NEW name \in Sides
  PROVE  /\ Side(Compare(s1, s2), name) \in Seq(Int) /\ Strict(Side(Compare(s1, s2), name))
         /\ ToSet(Side(Compare(s1, s2), name)) = On(s1, s2, name)
<1> DEFINE log == Compare(s1, s2)
           E == Sides \X Int
           I == {i \in 1 .. Len(log) : log[i][1] = name}
           c == Keep(log, I)
           r == Side(log, name)
<1>1. /\ log \in Seq(E)
      /\ \A m, n \in 1 .. Len(log) : m < n => log[m][2] < log[n][2]
      /\ {log[n][2] : n \in 1 .. Len(log)} = ToSet(s1) \cup ToSet(s2)
      /\ \A n \in 1 .. Len(log) :
           /\ log[n][1] \in Sides
           /\ log[n][1] = "left"  => log[n][2] \in ToSet(s1) \ ToSet(s2)
           /\ log[n][1] = "equal" => log[n][2] \in ToSet(s1) \cap ToSet(s2)
           /\ log[n][1] = "right" => log[n][2] \in ToSet(s2) \ ToSet(s1)
  <2>1. MergeOf(s1, s2, Compare(s1, s2))
    BY CompareIs
  <2> QED BY <2>1 DEF MergeOf
<1>2. \A n \in 1 .. Len(log) : log[n][2] \in Int
  <2>1. \A n \in 1 .. Len(log) : log[n] \in E
    BY <1>1, ElementOfSeq
  <2> QED BY <2>1
<1> HIDE DEF E, log
<1>3. I \in SUBSET (1 .. Len(log))
  OBVIOUS
<1> HIDE DEF I
<1>4. c \in Seq(E) /\ \E h : Picks(log, c, h, I)
  BY <1>1, <1>3, KeepIs
<1>5. PICK h : Picks(log, c, h, I)
  BY <1>4
<1>6. r = [i \in 1 .. Len(c) |-> c[i][2]]
  BY DEF Side, I
<1> HIDE DEF c, r
<1>7. /\ h \in Seq(1 .. Len(log)) /\ Len(h) = Len(c) /\ Strict(h) /\ ToSet(h) = I
      /\ \A k \in 1 .. Len(c) : c[k] = log[h[k]]
  BY <1>5 DEF Picks
<1>8. Len(c) \in Nat /\ DOMAIN h = 1 .. Len(c) /\ \A k \in 1 .. Len(c) : h[k] \in 1 .. Len(log)
  <2> DEFINE R == 1 .. Len(log)
  <2>1. h \in Seq(R)
    BY <1>7
  <2> HIDE DEF R
  <2>2. \A k \in 1 .. Len(c) : h[k] \in R
    BY <1>7, <2>1, ElementOfSeq
  <2>3. Len(c) \in Nat /\ DOMAIN h = 1 .. Len(c)
    BY <1>4, <1>7, <2>1, LenProperties
  <2> QED BY <2>2, <2>3 DEF R
<1>9. \A k \in 1 .. Len(c) : r[k] = log[h[k]][2] /\ r[k] \in Int
  BY <1>2, <1>6, <1>7, <1>8
<1>10. r \in Seq(Int) /\ Len(r) = Len(c) /\ DOMAIN r = 1 .. Len(c)
  BY <1>6, <1>8, <1>9
<1>11. Strict(r)
  <2> SUFFICES ASSUME NEW i \in 1 .. Len(c), NEW j \in 1 .. Len(c), i < j PROVE r[i] < r[j]
    BY <1>10 DEF Strict
  <2>1. h[i] < h[j]
    BY <1>7 DEF Strict
  <2> QED BY <1>1, <1>8, <1>9, <2>1, Zenon
<1>12. ToSet(r) = {log[n][2] : n \in I}
  <2>1. ToSet(r) = {r[k] : k \in 1 .. Len(c)} /\ I = {h[k] : k \in 1 .. Len(c)}
    BY <1>7, <1>8, <1>10 DEF ToSet
  <2>2. {r[k] : k \in 1 .. Len(c)} = {log[h[k]][2] : k \in 1 .. Len(c)}
    <3> DEFINE R == 1 .. Len(c)
    <3>1. \A k \in R : r[k] = log[h[k]][2]
      BY <1>9, Zenon
    <3> HIDE DEF R
    <3>2. ASSUME NEW k \in R PROVE r[k] \in {log[h[j]][2] : j \in R} /\ log[h[k]][2] \in {r[j] : j \in R}
      BY <3>1
    <3>3. {r[k] : k \in R} = {log[h[k]][2] : k \in R}
      BY <3>2, Zenon
    <3> QED BY <3>3, Zenon DEF R
  <2>3. {log[n][2] : n \in I} = {log[h[k]][2] : k \in 1 .. Len(c)}
    BY <2>1
  <2> QED BY <2>1, <2>2, <2>3, Zenon
<1> DEFINE W == On(s1, s2, name)
<1>13. ASSUME NEW n \in 1 .. Len(log) PROVE n \in I <=> log[n][2] \in W
  <2>1. log[n][1] \in Sides /\ (n \in I <=> log[n][1] = name)
    BY <1>1 DEF I
  <2> QED BY <1>1, <2>1 DEF Sides, On
<1>14. W \subseteq ToSet(s1) \cup ToSet(s2)
  BY DEF Sides, On
<1> HIDE DEF W
<1>15. {log[n][2] : n \in I} = W
  <2>1. {log[n][2] : n \in I} \subseteq W
    BY <1>3, <1>13
  <2>2. W \subseteq {log[n][2] : n \in I}
    <3> SUFFICES ASSUME NEW x \in W PROVE x \in {log[n][2] : n \in I}
      OBVIOUS
    <3>1. PICK n \in 1 .. Len(log) : x = log[n][2]
      BY <1>1, <1>14, Zenon
    <3>2. n \in I
      BY <1>13, <3>1
    <3> QED BY <3>1, <3>2
  <2> QED BY <2>1, <2>2
<1> QED BY <1>10, <1>11, <1>12, <1>15 DEF W, r, log

LEMMA UniqueRight ==
  ASSUME NEW s \in Seq(Int)
  PROVE  IsSetSeq(Unique(s), ToSet(s))
BY UniqueIs, StrictAscends DEF IsSetSeq

LEMMA SubtractRight ==
  ASSUME NEW s \in Seq(Int), NEW t \in Seq(Int)
  PROVE  Subtract(s, t) \in Seq(Int) /\ IsSetSeq(Subtract(s, t), ToSet(s) \ ToSet(t))
<1>1. "left" \in Sides
  BY DEF Sides
<1>2. Side(Compare(s, t), "left") \in Seq(Int) /\ Strict(Side(Compare(s, t), "left"))
      /\ ToSet(Side(Compare(s, t), "left")) = ToSet(s) \ ToSet(t)
  BY <1>1, SideIs, Zenon DEF On
<1> QED BY <1>2, StrictAscends DEF IsSetSeq, Subtract

LEMMA CompareRight ==
  ASSUME NEW s \in Seq(Int), NEW t \in Seq(Int), NEW r, r = Compare(s, t)
  PROVE  /\ IsSetSeq([i \in DOMAIN r |-> r[i][2]], ToSet(s) \cup ToSet(t))
         /\ ToSet(Side(r, "left")) = ToSet(s) \ ToSet(t)
         /\ ToSet(Side(r, "equal")) = ToSet(s) \cap ToSet(t)
         /\ ToSet(Side(r, "right")) = ToSet(t) \ ToSet(s)
<1> DEFINE E == Sides \X Int   v == [i \in DOMAIN r |-> r[i][2]]
<1>1. "left" \in Sides /\ "equal" \in Sides /\ "right" \in Sides
  BY DEF Sides
<1>2. ToSet(Side(r, "left")) = ToSet(s) \ ToSet(t)
  BY <1>1, SideIs, Zenon DEF On
<1>3. ToSet(Side(r, "equal")) = ToSet(s) \cap ToSet(t)
  <2>1. On(s, t, "equal") = ToSet(s) \cap ToSet(t)
    BY DEF On
  <2> QED BY <1>1, <2>1, SideIs, Zenon
<1>4. ToSet(Side(r, "right")) = ToSet(t) \ ToSet(s)
  <2>1. On(s, t, "right") = ToSet(t) \ ToSet(s)
    BY DEF On
  <2> QED BY <1>1, <2>1, SideIs, Zenon
<1>5. /\ r \in Seq(E)
      /\ \A m, n \in 1 .. Len(r) : m < n => r[m][2] < r[n][2]
      /\ {r[n][2] : n \in 1 .. Len(r)} = ToSet(s) \cup ToSet(t)
  <2>1. MergeOf(s, t, Compare(s, t))
    BY CompareIs
  <2> QED BY <2>1 DEF MergeOf
<1>6. \A n \in 1 .. Len(r) : r[n] \in E
  BY <1>5, ElementOfSeq
<1>7. \A n \in 1 .. Len(r) : r[n][2] \in Int
  BY <1>6
<1> HIDE DEF E
<1>8. Len(r) \in Nat /\ DOMAIN r = 1 .. Len(r)
  BY <1>5, LenProperties
<1>9. v \in Seq(Int) /\ Len(v) = Len(r) /\ DOMAIN v = 1 .. Len(r) /\ \A n \in 1 .. Len(r) : v[n] = r[n][2]
  BY <1>7, <1>8
<1> HIDE DEF v
<1>10. Strict(v)
  <2>1. \A m, n \in 1 .. Len(r) : m < n => v[m] < v[n]
    BY <1>5, <1>9, Zenon
  <2> QED BY <1>9, <2>1 DEF Strict
<1>11. ToSet(v) = ToSet(s) \cup ToSet(t)
  <2>1. ToSet(v) = {v[n] : n \in 1 .. Len(r)}
    BY <1>9 DEF ToSet
  <2>2. {v[n] : n \in 1 .. Len(r)} = {r[n][2] : n \in 1 .. Len(r)}
    <3> DEFINE R == 1 .. Len(r)
    <3>1. \A n \in R : v[n] = r[n][2]
      BY <1>9
    <3> HIDE DEF R
    <3>2. ASSUME NEW n \in R PROVE v[n] \in {r[k][2] : k \in R} /\ r[n][2] \in {v[k] : k \in R}
      BY <3>1
    <3>3. {v[n] : n \in R} = {r[n][2] : n \in R}
      BY <3>2, Zenon
    <3> QED BY <3>3, Zenon DEF R
  <2> QED BY <1>5, <2>1, <2>2, Zenon
<1> QED BY <1>2, <1>3, <1>4, <1>9, <1>10, <1>11, StrictAscends, Zenon DEF IsSetSeq, v

LEMMA RemoveAllRight ==
  ASSUME NEW s \in Seq(Int), NEW t \in Seq(Int)
  PROVE  /\ RemoveAll(s, t) \in Seq(Int) /\ ToSet(RemoveAll(s, t)) = ToSet(s) \ ToSet(t)
         /\ IsSetSeq(Unique(RemoveAll(s, t)), ToSet(s) \ ToSet(t))
<1> DEFINE I == {i \in 1 .. Len(s) : s[i] \notin ToSet(t)}
<1>1. I \in SUBSET (1 .. Len(s)) /\ RemoveAll(s, t) = Keep(s, I)
  BY DEF RemoveAll
<1>2. Keep(s, I) \in Seq(Int) /\ ToSet(Keep(s, I)) = {s[i] : i \in I}
  <2> HIDE DEF I
  <2> QED BY <1>1, KeepIs
<1>3. {s[i] : i \in I} = ToSet(s) \ ToSet(t)
  <2>1. ToSet(s) = {s[i] : i \in 1 .. Len(s)}
    <3>1. DOMAIN s = 1 .. Len(s)
      BY LenProperties
    <3> QED BY <3>1, Zenon DEF ToSet
  <2> QED BY <2>1
<1> HIDE DEF I
<1> QED BY <1>1, <1>2, <1>3, UniqueRight, Zenon

-----------------------------------------------------------------------------
(* SortedIndex.                                                            *)

LEMMA Middle ==
  ASSUME NEW i \in Nat, NEW j \in Nat, i < j
  PROVE  (i + j) \div 2 \in Nat /\ i <= (i + j) \div 2 /\ (i + j) \div 2 < j
OBVIOUS

\* A round of the binary search of v in s.
Halved(s, v, at) ==
  LET h == (at.i + at.j) \div 2
  IN  IF at.i >= at.j THEN at
      ELSE IF s[h + 1] < v THEN [i |-> h + 1, j |-> at.j] ELSE [i |-> at.i, j |-> h]

SearchStates(s) == [i : 0 .. Len(s), j : 0 .. Len(s)]

SearchRounds(f, s, v) ==
  /\ Search(s, v) = f[Len(s)].i /\ f \in [0 .. Len(s) -> SearchStates(s)]
  /\ f[0] = [i |-> 0, j |-> Len(s)]
  /\ \A k \in 1 .. Len(s) : f[k] = Halved(s, v, f[k - 1])

LEMMA HalvedStays ==
  ASSUME NEW s \in Seq(Int), NEW v \in Int, NEW at \in SearchStates(s)
  PROVE  Halved(s, v, at) \in SearchStates(s)
<1>1. at.i \in 0 .. Len(s) /\ at.j \in 0 .. Len(s) /\ Len(s) \in Nat
  BY LenProperties DEF SearchStates
<1> DEFINE h == (at.i + at.j) \div 2
<1>2. CASE at.i >= at.j
  BY <1>2 DEF Halved
<1>3. CASE at.i < at.j
  <2>1. h \in Nat /\ at.i <= h /\ h < at.j
    BY <1>1, <1>3, Middle
  <2>2. h \in 0 .. Len(s) /\ h + 1 \in 0 .. Len(s)
    <3> HIDE DEF h
    <3> QED BY <1>1, <2>1
  <2>3. ~ (at.i >= at.j)
    BY <1>1, <1>3
  <2>4. Halved(s, v, at) = IF s[h + 1] < v THEN [i |-> h + 1, j |-> at.j] ELSE [i |-> at.i, j |-> h]
    BY <2>3 DEF Halved
  <2> HIDE DEF h
  <2> QED BY <1>1, <2>2, <2>4 DEF SearchStates
<1> QED BY <1>1, <1>2, <1>3

LEMMA SearchRuns ==
  ASSUME NEW s \in Seq(Int), NEW v \in Int
  PROVE  \E f : SearchRounds(f, s, v)
<1> DEFINE n == Len(s)
           N == 0 .. n
           D == SearchStates(s)
           base == [i |-> 0, j |-> Len(s)]
           Step(at) == LET h == (at.i + at.j) \div 2
                       IN  IF at.i >= at.j THEN at
                           ELSE IF s[h + 1] < v THEN [i |-> h + 1, j |-> at.j] ELSE [i |-> at.i, j |-> h]
           step == [i \in 1 .. n |-> [l \in D |-> Halved(s, v, l)]]
           Is(f) == f = [k \in N |->
                          IF k = 0 THEN [i |-> 0, j |-> Len(s)]
                          ELSE LET at == f[k - 1]
                                   h  == (at.i + at.j) \div 2
                               IN  IF at.i >= at.j THEN at
                                   ELSE IF s[h + 1] < v THEN [i |-> h + 1, j |-> at.j]
                                        ELSE [i |-> at.i, j |-> h]]
           g == CHOOSE f : Is(f)
<1>1. Search(s, v) = g[n].i
  BY DEF Search
<1>m. \A l : Step(l) = Halved(s, v, l)
  BY DEF Halved
<1>2. n \in Nat /\ base \in D
  <2>1. n \in Nat /\ 0 \in 0 .. n /\ n \in 0 .. n
    BY LenProperties
  <2> QED BY <2>1 DEF SearchStates
<1>3. \A i \in 1 .. n, l \in D : Halved(s, v, l) \in D /\ step[i][l] = Halved(s, v, l)
  <2> TAKE i \in 1 .. n, l \in D
  <2>1. Halved(s, v, l) \in D
    BY HalvedStays
  <2> HIDE DEF D
  <2> QED BY <2>1
<1>4. StaysIn(n, D, step)
  <2> HIDE DEF D, step
  <2> QED BY <1>3 DEF StaysIn
<1>5. PICK f : f \in [N -> D] /\ LoopOf(f, n, base, step)
  <2> HIDE DEF step, D, base, n
  <2> QED BY <1>2, <1>4, LoopExists
<1>6. \A i \in 1 .. n : f[i] = Halved(s, v, f[i - 1])
  <2> HIDE DEF step, D, base
  <2>1. \A i \in 1 .. n : i - 1 \in N
    BY <1>2
  <2>2. \A i \in 1 .. n : f[i - 1] \in D
    BY <1>5, <2>1
  <2>3. \A i \in 1 .. n : f[i] = step[i][f[i - 1]]
    BY <1>5, Zenon DEF LoopOf
  <2> QED BY <1>3, <2>2, <2>3, Zenon
<1>7. Is(f)
  <2>1. \A i \in N : i # 0 => i \in 1 .. n
    BY <1>2
  <2>2. f = [i \in N |-> f[i]]
    BY <1>5
  <2>3. \A i \in N : f[i] = IF i = 0 THEN base ELSE Step(f[i - 1])
    <3> HIDE DEF D, N, base, Step
    <3> QED BY <1>5, <1>6, <1>m, <2>1 DEF LoopOf
  <2>4. f = [i \in N |-> IF i = 0 THEN base ELSE Step(f[i - 1])]
    <3> HIDE DEF D, N, base, Step
    <3> QED BY <2>2, <2>3, Zenon
  <2> QED BY <2>4, Zenon
<1>8. Is(g)
  <2> HIDE DEF Is
  <2> QED BY <1>7
<1>8a. g = [i \in N |-> IF i = 0 THEN base ELSE Step(g[i - 1])]
  BY <1>8, Zenon
<1>9. g[0] = base /\ \A i \in 1 .. n : g[i] = Halved(s, v, g[i - 1])
  <2>1. \A i \in 1 .. n : i # 0 /\ i \in N
    BY <1>2
  <2> HIDE DEF g, Step, base, Is
  <2> DEFINE r == [i \in N |-> IF i = 0 THEN base ELSE Step(g[i - 1])]
  <2>2. (\A i \in 1 .. n : r[i] = Step(g[i - 1])) /\ r[0] = base
    BY <1>2, <2>1
  <2> HIDE DEF r
  <2>3. g = r
    BY <1>8a, Zenon DEF r
  <2> QED BY <1>m, <2>2, <2>3
<1>10. \A i \in N : g[i] \in D
  <2> HIDE DEF g, base, Is, D
  <2>1. \A i \in 1 .. n : g[i - 1] \in D => g[i] \in D
    BY <1>3, <1>9
  <2> HIDE DEF n
  <2> QED BY <1>2, <1>9, <2>1, LoopStays, Zenon
<1>11. g \in [N -> D]
  <2> HIDE DEF g, Step, base, Is, D
  <2> QED BY <1>8a, <1>10
<1> HIDE DEF g, Is, D
<1> QED BY <1>1, <1>9, <1>11, Zenon DEF D, SearchRounds

\* The search ends at the first element that is not below v.
LEMMA SearchIs ==
  ASSUME NEW s \in Seq(Int), Rising(s), NEW v \in Int
  PROVE  /\ Search(s, v) \in 0 .. Len(s)
         /\ \A m \in 1 .. Len(s) : m <= Search(s, v) <=> s[m] < v
<1> DEFINE n == Len(s)
<1>0. n \in Nat /\ \A m \in 1 .. n : s[m] \in Int
  BY LenProperties, ElementOfSeq
<1>1. PICK f : SearchRounds(f, s, v)
  BY SearchRuns
<1>2. /\ Search(s, v) = f[n].i /\ f[0] = [i |-> 0, j |-> n]
      /\ \A k \in 1 .. n : f[k] = Halved(s, v, f[k - 1])
      /\ \A k \in 0 .. n : f[k] \in SearchStates(s)
  BY <1>1, Zenon DEF SearchRounds
<1>3. \A k \in 0 .. n : f[k].i \in 0 .. n /\ f[k].j \in 0 .. n
  BY <1>2 DEF SearchStates
<1> DEFINE Inv(k) == /\ f[k].i <= f[k].j
                     /\ f[k].i = f[k].j \/ f[k].j - f[k].i <= n - k
                     /\ \A m \in 1 .. n : m <= f[k].i => s[m] < v
                     /\ \A m \in 1 .. n : m > f[k].j => ~ (s[m] < v)
           S == {k \in 0 .. n : Inv(k)}
<1>4. 0 \in S
  <2>1. f[0].i = 0 /\ f[0].j = n /\ 0 \in 0 .. n
    BY <1>0, <1>2
  <2>2. Inv(0)
    BY <1>0, <2>1
  <2> HIDE DEF Inv
  <2> QED BY <2>1, <2>2
<1>5. ASSUME NEW k \in 1 .. n, k - 1 \in S PROVE k \in S
  <2> DEFINE i == f[k - 1].i   j == f[k - 1].j   h == (i + j) \div 2
  <2>0. /\ k \in 0 .. n /\ k - 1 \in 0 .. n /\ k \in Nat /\ i \in Nat /\ j \in Nat /\ i <= n /\ j <= n
        /\ f[k] = Halved(s, v, f[k - 1])
        /\ i <= j /\ (i = j \/ j - i <= n - (k - 1))
        /\ (\A m \in 1 .. n : m <= i => s[m] < v)
        /\ (\A m \in 1 .. n : m > j => ~ (s[m] < v))
    <3>1. k \in 0 .. n /\ k - 1 \in 0 .. n /\ k \in Nat
      BY <1>0
    <3>2. i \in 0 .. n /\ j \in 0 .. n /\ f[k] = Halved(s, v, f[k - 1])
      BY <1>2, <1>3, <3>1
    <3>3. /\ i <= j /\ (i = j \/ j - i <= n - (k - 1))
          /\ (\A m \in 1 .. n : m <= i => s[m] < v)
          /\ (\A m \in 1 .. n : m > j => ~ (s[m] < v))
      BY <1>5
    <3>4. i \in Nat /\ j \in Nat /\ i <= n /\ j <= n
      <4> HIDE DEF i, j
      <4> QED BY <1>0, <3>2
    <3> HIDE DEF i, j, n
    <3> QED BY <3>1, <3>2, <3>3, <3>4
  <2>1. CASE i >= j
    <3>1. f[k] = f[k - 1] /\ i = j
      <4>1. f[k] = Halved(s, v, f[k - 1])
        BY <2>0
      <4>2. i \in Nat /\ j \in Nat /\ i <= j
        BY <2>0
      <4>3. f[k] = f[k - 1]
        BY <2>1, <4>1 DEF Halved
      <4> HIDE DEF i, j
      <4> QED BY <2>1, <4>2, <4>3
    <3>2. Inv(k)
      BY <2>0, <3>1
    <3> HIDE DEF Inv
    <3> QED BY <2>0, <3>2
  <2>2. CASE i < j
    <3>1. h \in Nat /\ i <= h /\ h < j
      <4> HIDE DEF i, j
      <4> QED BY <2>0, <2>2, Middle, Zenon
    <3>2. ~ (i >= j)
      <4>1. i \in Nat /\ j \in Nat
        BY <2>0
      <4> HIDE DEF i, j
      <4> QED BY <2>2, <4>1
    <3>3. f[k] = IF s[h + 1] < v THEN [i |-> h + 1, j |-> j] ELSE [i |-> i, j |-> h]
      BY <2>0, <3>2 DEF Halved
    <3> HIDE DEF i, j, h
    <3>4. h + 1 \in 1 .. n
      BY <1>0, <2>0, <3>1
    <3>5. CASE s[h + 1] < v
      <4>1. f[k].i = h + 1 /\ f[k].j = j
        BY <3>3, <3>5
      <4>2. h + 1 <= j /\ j - (h + 1) <= n - k
        BY <1>0, <2>0, <2>2, <3>1
      <4>3. \A m \in 1 .. n : m <= h + 1 => s[m] < v
        <5> TAKE m \in 1 .. n
        <5> HAVE m <= h + 1
        <5>1. s[m] <= s[h + 1]
          BY <3>4 DEF Rising
        <5> QED BY <1>0, <3>4, <3>5, <5>1
      <4>4. Inv(k)
        BY <2>0, <4>1, <4>2, <4>3
      <4> HIDE DEF Inv
      <4> QED BY <2>0, <4>4
    <3>6. CASE ~ (s[h + 1] < v)
      <4>1. f[k].i = i /\ f[k].j = h
        BY <3>3, <3>6
      <4>2. i <= h /\ h - i <= n - k
        BY <1>0, <2>0, <2>2, <3>1
      <4>3. \A m \in 1 .. n : m > h => ~ (s[m] < v)
        <5> TAKE m \in 1 .. n
        <5> HAVE m > h
        <5>1. h + 1 <= m
          BY <1>0, <3>1
        <5>2. s[h + 1] <= s[m]
          BY <3>4, <5>1 DEF Rising
        <5> QED BY <1>0, <3>4, <3>6, <5>2
      <4>4. Inv(k)
        BY <2>0, <4>1, <4>2, <4>3
      <4> HIDE DEF Inv
      <4> QED BY <2>0, <4>4
    <3> QED BY <3>5, <3>6, Zenon
  <2>3. i >= j \/ i < j
    <3>1. i \in Nat /\ j \in Nat
      BY <2>0
    <3> HIDE DEF i, j
    <3> QED BY <3>1
  <2> HIDE DEF S, i, j
  <2> QED BY <2>1, <2>2, <2>3
<1>6. Inv(n)
  <2>1. \A k \in 0 .. n : k \in S
    <3> HIDE DEF S
    <3> QED BY <1>0, <1>4, <1>5, RoundByRound, Zenon
  <2> HIDE DEF Inv, n
  <2> QED BY <1>0, <2>1
<1>7. f[n].i \in 0 .. n /\ f[n].j \in 0 .. n
  BY <1>0, <1>3
<1>8. f[n].i = f[n].j
  BY <1>0, <1>6, <1>7
<1>9. \A m \in 1 .. n : m <= f[n].i <=> s[m] < v
  <2> TAKE m \in 1 .. n
  <2>1. m <= f[n].i \/ m > f[n].i
    BY <1>0, <1>7
  <2> QED BY <1>6, <1>7, <1>8, <2>1
<1> QED BY <1>2, <1>7, <1>9

LEMMA SortedIndexRight ==
  ASSUME NEW s \in Seq(Int), Sort(s) = s, NEW v \in Int, NEW ret, ret = SortedIndex(s, v)
  PROVE  IF v \in ToSet(s) THEN s[ret + 1] = v ELSE ret = -1
<1> DEFINE idx == Search(s, v)   n == Len(s)
<1>1. Rising(s) /\ ToSet(s) = {s[m] : m \in 1 .. n} /\ n \in Nat /\ \A m \in 1 .. n : s[m] \in Int
  BY SortIs, LenProperties, ElementOfSeq DEF ToSet
<1>2. idx \in 0 .. n /\ \A m \in 1 .. n : m <= idx <=> s[m] < v
  BY <1>1, SearchIs, Zenon
<1>3. ret = IF idx < n /\ s[idx + 1] = v THEN idx ELSE -1
  BY DEF SortedIndex
<1> HIDE DEF idx
<1>4. ASSUME v \in ToSet(s) PROVE idx < n /\ s[idx + 1] = v
  <2>1. PICK m \in 1 .. n : s[m] = v
    BY <1>1, <1>4
  <2>2. ~ (m <= idx)
    BY <1>2, <2>1
  <2>3. idx + 1 \in 1 .. n /\ idx + 1 <= m /\ ~ (idx + 1 <= idx)
    BY <1>1, <1>2, <2>2
  <2>4. s[idx + 1] <= s[m] /\ ~ (s[idx + 1] < v) /\ s[idx + 1] \in Int
    BY <1>1, <1>2, <2>3 DEF Rising
  <2> QED BY <1>1, <1>2, <2>1, <2>3, <2>4
<1>5. ASSUME v \notin ToSet(s) PROVE ~ (idx < n /\ s[idx + 1] = v)
  <2>1. idx < n => idx + 1 \in 1 .. n
    BY <1>1, <1>2
  <2> QED BY <1>1, <1>5, <2>1
<1> QED BY <1>3, <1>4, <1>5

-----------------------------------------------------------------------------
(* Remove.                                                                 *)

\* The k-th index but p.
Past(p, k) == IF k < p THEN k ELSE k + 1

AllBut(r, s, p, E) ==
  /\ r \in Seq(E)
  /\ Len(r) = IF p <= Len(s) THEN Len(s) - 1 ELSE Len(s)
  /\ \A k \in 1 .. Len(r) : r[k] = s[Past(p, k)]

\* The elements but the p-th.
LEMMA KeepAllBut ==
  ASSUME NEW E, NEW s \in Seq(E), NEW p \in 1 .. Len(s) + 1, NEW r, r = Keep(s, (1 .. Len(s)) \ {p})
  PROVE  AllBut(r, s, p, E)
<1> USE DEF Past
<1> DEFINE n == Len(s)   I == (1 .. Len(s)) \ {p}
<1>0. n \in Nat /\ p \in Nat /\ p > 0 /\ p <= n + 1 /\ \A i \in 1 .. n : s[i] \in E
  <2>1. n \in Nat
    BY LenProperties
  <2> HIDE DEF n
  <2> QED BY <2>1, ElementOfSeq DEF n
<1>1. PICK f : KeepRounds(f, s, I) /\ f \in [0 .. Len(s) -> Seq(E)]
  <2> HIDE DEF I
  <2> QED BY KeepRuns
<1>2. /\ r = f[n] /\ f[0] = <<>>
      /\ \A i \in 1 .. n : f[i] = IF i # p THEN Append(f[i - 1], s[i]) ELSE f[i - 1]
  BY <1>1 DEF KeepRounds
<1>3. \A i \in 0 .. n : f[i] \in Seq(E)
  BY <1>1
<1> HIDE DEF I
<1> DEFINE Inv(i) == /\ Len(f[i]) = IF p <= i THEN i - 1 ELSE i
                     /\ \A k \in 1 .. Len(f[i]) : f[i][k] = s[Past(p, k)]
           S == {i \in 0 .. n : Inv(i)}
<1>4. 0 \in S
  <2>1. Len(f[0]) = 0
    BY <1>2
  <2>2. Inv(0)
    BY <1>0, <2>1
  <2> HIDE DEF Inv
  <2> QED BY <1>0, <2>2
<1>5. ASSUME NEW i \in 1 .. n, i - 1 \in S PROVE i \in S
  <2> DEFINE o == f[i - 1]
  <2>0. /\ i \in Nat /\ i > 0 /\ i \in 0 .. n /\ s[i] \in E /\ o \in Seq(E) /\ Len(o) \in Nat
        /\ Len(o) = (IF p <= i - 1 THEN i - 2 ELSE i - 1)
        /\ \A k \in 1 .. Len(o) : o[k] = s[Past(p, k)]
    <3>1. i \in Nat /\ i > 0 /\ i \in 0 .. n /\ i - 1 \in 0 .. n /\ i - 1 - 1 = i - 2
      BY <1>0
    <3>2. o \in Seq(E) /\ Inv(i - 1)
      BY <1>3, <1>5, <3>1
    <3> QED BY <1>0, <3>1, <3>2, LenProperties
  <2>1. f[i] = IF i # p THEN Append(o, s[i]) ELSE o
    BY <1>2
  <2> HIDE DEF o
  <2>2. CASE i = p
    <3>1. f[i] = o
      BY <2>1, <2>2
    <3>2. Inv(i)
      BY <1>0, <2>0, <2>2, <3>1
    <3> HIDE DEF Inv
    <3> QED BY <2>0, <3>2
  <2>3. CASE i # p
    <3> DEFINE a == Append(o, s[i])
    <3>1. f[i] = a
      BY <2>1, <2>3
    <3>2. Len(a) = Len(o) + 1 /\ (\A k \in 1 .. Len(o) : a[k] = o[k]) /\ a[Len(o) + 1] = s[i]
      BY <2>0, Appended
    <3> HIDE DEF a
    <3>3. Len(a) = IF p <= i THEN i - 1 ELSE i
      BY <1>0, <2>0, <2>3, <3>2
    <3>4. \A k \in 1 .. Len(a) : a[k] = s[Past(p, k)]
      <4> TAKE k \in 1 .. Len(a)
      <4>1. CASE k \in 1 .. Len(o)
        BY <2>0, <3>2, <4>1
      <4>2. CASE k \notin 1 .. Len(o)
        <5>1. k = Len(o) + 1
          BY <2>0, <3>2, <4>2
        <5>2. i = Past(p, k)
          BY <1>0, <2>0, <2>3, <5>1
        <5> QED BY <3>2, <5>1, <5>2
      <4> QED BY <4>1, <4>2
    <3>5. Inv(i)
      BY <3>1, <3>3, <3>4
    <3> HIDE DEF Inv
    <3> QED BY <2>0, <3>5
  <2> QED BY <2>2, <2>3
<1>6. Inv(n)
  <2>1. \A k \in 0 .. n : k \in S
    <3> HIDE DEF S
    <3> QED BY <1>0, <1>4, <1>5, RoundByRound, Zenon
  <2> HIDE DEF Inv, n
  <2> QED BY <1>0, <2>1
<1>7. r \in Seq(E)
  BY <1>0, <1>2, <1>3
<1> HIDE DEF Inv
<1>8. Len(r) = (IF p <= n THEN n - 1 ELSE n) /\ \A k \in 1 .. Len(r) : r[k] = s[Past(p, k)]
  BY <1>2, <1>6, Zenon DEF Inv
<1> QED BY <1>7, <1>8, Zenon DEF AllBut

\* A round of Remove at index i.
Removed(l, i, v) ==
  IF l.panic \/ l.array[i] # v THEN l
  ELSE IF i > l.len THEN [l EXCEPT !.panic = TRUE]
  ELSE [array |-> [k \in DOMAIN l.array |->
                     IF k \in i .. l.len - 1 THEN l.array[k + 1] ELSE l.array[k]],
        len |-> l.len - 1, panic |-> FALSE]

RemoveStates(a, n, E) == [array : [1 .. Len(a) -> E], len : 0 .. n, panic : BOOLEAN]

RemoveRounds(f, a, n, v, E) ==
  /\ RemoveLoop(a, n, v) = f[n] /\ f \in [0 .. n -> RemoveStates(a, n, E)]
  /\ f[0] = [array |-> a, len |-> n, panic |-> FALSE]
  /\ \A i \in 1 .. n : f[i] = Removed(f[i - 1], i, v)

LEMMA RemovedStays ==
  ASSUME NEW E, NEW a \in Seq(E), NEW n \in 0 .. Len(a), NEW v, NEW i \in 1 .. n,
         NEW l \in RemoveStates(a, n, E)
  PROVE  Removed(l, i, v) \in RemoveStates(a, n, E)
<1>1. /\ l.array \in [1 .. Len(a) -> E] /\ l.len \in 0 .. n /\ l.panic \in BOOLEAN
      /\ l = [array |-> l.array, len |-> l.len, panic |-> l.panic]
      /\ Len(a) \in Nat /\ n \in Nat /\ n <= Len(a)
  BY LenProperties DEF RemoveStates
<1>2. CASE l.panic \/ l.array[i] # v
  BY <1>2 DEF Removed
<1>3. CASE ~ (l.panic \/ l.array[i] # v) /\ i > l.len
  <2>1. Removed(l, i, v) = [l EXCEPT !.panic = TRUE]
    BY <1>3 DEF Removed
  <2>2. [l EXCEPT !.panic = TRUE] \in RemoveStates(a, n, E)
    BY Zenon DEF RemoveStates
  <2> QED BY <2>1, <2>2
<1>4. CASE ~ (l.panic \/ l.array[i] # v) /\ ~ (i > l.len)
  <2> DEFINE b == [k \in DOMAIN l.array |->
                     IF k \in i .. l.len - 1 THEN l.array[k + 1] ELSE l.array[k]]
  <2>1. Removed(l, i, v) = [array |-> b, len |-> l.len - 1, panic |-> FALSE]
    BY <1>4 DEF Removed
  <2>2. l.len - 1 \in 0 .. n
    BY <1>1, <1>4
  <2>3. \A k \in 1 .. Len(a) : k \in i .. l.len - 1 => k + 1 \in 1 .. Len(a)
    BY <1>1
  <2>4. b \in [1 .. Len(a) -> E]
    BY <1>1, <2>3
  <2> HIDE DEF b
  <2> QED BY <2>1, <2>2, <2>4 DEF RemoveStates
<1> QED BY <1>2, <1>3, <1>4

LEMMA RemoveRuns ==
  ASSUME NEW E, NEW a \in Seq(E), NEW n \in 0 .. Len(a), NEW v
  PROVE  \E f : RemoveRounds(f, a, n, v, E)
<1> DEFINE N == 0 .. n
           D == RemoveStates(a, n, E)
           base == [array |-> a, len |-> n, panic |-> FALSE]
           Step(l, i) == IF l.panic \/ l.array[i] # v THEN l
                         ELSE IF i > l.len THEN [l EXCEPT !.panic = TRUE]
                         ELSE [array |-> [k \in DOMAIN l.array |->
                                  IF k \in i .. l.len - 1 THEN l.array[k + 1] ELSE l.array[k]],
                               len |-> l.len - 1, panic |-> FALSE]
           step == [i \in 1 .. n |-> [l \in D |-> Removed(l, i, v)]]
           Is(f) == f = [i \in N |->
                          IF i = 0 THEN [array |-> a, len |-> n, panic |-> FALSE]
                          ELSE LET l == f[i - 1] IN
                            IF l.panic \/ l.array[i] # v THEN l
                            ELSE IF i > l.len THEN [l EXCEPT !.panic = TRUE]
                            ELSE [array |-> [k \in DOMAIN l.array |->
                                     IF k \in i .. l.len - 1 THEN l.array[k + 1] ELSE l.array[k]],
                                  len |-> l.len - 1, panic |-> FALSE]]
           g == CHOOSE f : Is(f)
<1>1. RemoveLoop(a, n, v) = g[n]
  BY DEF RemoveLoop
<1>m. \A l, i : Step(l, i) = Removed(l, i, v)
  BY DEF Removed
<1>2. n \in Nat /\ base \in D
  <2>1. n \in Nat /\ n \in 0 .. n /\ a \in [1 .. Len(a) -> E]
    BY LenProperties
  <2> QED BY <2>1 DEF RemoveStates
<1>3. \A i \in 1 .. n, l \in D : Removed(l, i, v) \in D /\ step[i][l] = Removed(l, i, v)
  <2> TAKE i \in 1 .. n, l \in D
  <2>1. Removed(l, i, v) \in D
    BY RemovedStays
  <2> HIDE DEF D
  <2> QED BY <2>1
<1>4. StaysIn(n, D, step)
  <2> HIDE DEF D, step
  <2> QED BY <1>3 DEF StaysIn
<1>5. PICK f : f \in [N -> D] /\ LoopOf(f, n, base, step)
  <2> HIDE DEF step, D, base
  <2> QED BY <1>2, <1>4, LoopExists
<1>6. \A i \in 1 .. n : f[i] = Removed(f[i - 1], i, v)
  <2> HIDE DEF step, D, base
  <2>1. \A i \in 1 .. n : i - 1 \in N
    BY <1>2
  <2>2. \A i \in 1 .. n : f[i - 1] \in D
    BY <1>5, <2>1
  <2>3. \A i \in 1 .. n : f[i] = step[i][f[i - 1]]
    BY <1>5, Zenon DEF LoopOf
  <2> QED BY <1>3, <2>2, <2>3
<1>7. Is(f)
  <2>1. \A i \in N : i # 0 => i \in 1 .. n
    BY <1>2
  <2>2. f = [i \in N |-> f[i]]
    BY <1>5
  <2>3. \A i \in N : f[i] = IF i = 0 THEN base ELSE Step(f[i - 1], i)
    <3> HIDE DEF D, N, base, Step
    <3> QED BY <1>5, <1>6, <1>m, <2>1 DEF LoopOf
  <2>4. f = [i \in N |-> IF i = 0 THEN base ELSE Step(f[i - 1], i)]
    <3> HIDE DEF D, N, base, Step
    <3> QED BY <2>2, <2>3, Zenon
  <2> QED BY <2>4, Zenon
<1>8. Is(g)
  <2> HIDE DEF Is
  <2> QED BY <1>7
<1>8a. g = [i \in N |-> IF i = 0 THEN base ELSE Step(g[i - 1], i)]
  BY <1>8, Zenon
<1>9. g[0] = base /\ \A i \in 1 .. n : g[i] = Removed(g[i - 1], i, v)
  <2>1. \A i \in 1 .. n : i # 0 /\ i \in N
    BY <1>2
  <2> HIDE DEF g, Step, base, Is
  <2> DEFINE r == [i \in N |-> IF i = 0 THEN base ELSE Step(g[i - 1], i)]
  <2>2. (\A i \in 1 .. n : r[i] = Step(g[i - 1], i)) /\ r[0] = base
    BY <1>2, <2>1
  <2> HIDE DEF r
  <2>3. g = r
    BY <1>8a DEF r
  <2> QED BY <1>m, <2>2, <2>3
<1>10. \A i \in N : g[i] \in D
  <2> HIDE DEF g, base, Is, D
  <2>1. \A i \in 1 .. n : g[i - 1] \in D => g[i] \in D
    BY <1>3, <1>9
  <2> QED BY <1>2, <1>9, <2>1, LoopStays, Zenon
<1>11. g \in [N -> D]
  <2> HIDE DEF g, Step, base, Is, D
  <2> QED BY <1>8a, <1>10
<1> HIDE DEF g, Is, D
<1> QED BY <1>1, <1>9, <1>11, Zenon DEF D, RemoveRounds

\* However often it removes, the array keeps its length and the slice stays in it.
LEMMA RemoveFits ==
  ASSUME NEW E, NEW a \in Seq(E), NEW n \in 0 .. Len(a), NEW v, NEW done, done = RemoveLoop(a, n, v)
  PROVE  /\ done.array \in Seq(E) /\ Len(done.array) = Len(a) /\ done.len \in 0 .. n
         /\ done.panic \in BOOLEAN
<1>1. PICK f : RemoveRounds(f, a, n, v, E)
  BY RemoveRuns, Zenon
<1>2. n \in 0 .. n /\ Len(a) \in Nat
  BY LenProperties
<1>3. done \in RemoveStates(a, n, E)
  BY <1>1, <1>2 DEF RemoveRounds
<1>4. done.array \in [1 .. Len(a) -> E] /\ done.len \in 0 .. n /\ done.panic \in BOOLEAN
  BY <1>3 DEF RemoveStates
<1> QED BY <1>2, <1>4

\* v is the p-th of the n elements, and no other; none if p is n + 1.
OnlyAt(a, n, v, p) == \A j \in 1 .. n : a[j] = v <=> j = p

\* The elements after the p-th have moved down.
Closes(done, a, n, p) ==
  /\ ~done.panic
  /\ done.len = IF p <= n THEN n - 1 ELSE n
  /\ \A k \in 1 .. done.len : done.array[k] = a[Past(p, k)]

\* s is what a begins with, n elements long.
Begins(s, a, n) == s = SubSeq(a, 1, n)

\* If v is the p-th element of the slice and no other, Remove leaves the rest.
LEMMA RemoveLoopOne ==
  ASSUME NEW E, NEW a \in Seq(E), NEW n \in 0 .. Len(a), NEW v, NEW done, done = RemoveLoop(a, n, v),
         NEW p \in 1 .. n + 1, OnlyAt(a, n, v, p)
  PROVE  Closes(done, a, n, p)
<1> USE DEF OnlyAt, Past, Closes
<1>0. n \in Nat /\ Len(a) \in Nat /\ n <= Len(a) /\ DOMAIN a = 1 .. Len(a) /\ p \in Nat /\ p > 0
  BY LenProperties
<1>1. PICK f : RemoveRounds(f, a, n, v, E)
  BY RemoveRuns, Zenon
<1> DEFINE base == [array |-> a, len |-> n, panic |-> FALSE]
           b == [k \in DOMAIN a |-> IF k \in p .. n - 1 THEN a[k + 1] ELSE a[k]]
           moved == [array |-> b, len |-> n - 1, panic |-> FALSE]
           S == {i \in 0 .. n : f[i] = IF i < p THEN base ELSE moved}
<1>2. done = f[n] /\ f[0] = base /\ \A i \in 1 .. n : f[i] = Removed(f[i - 1], i, v)
  BY <1>1 DEF RemoveRounds
<1>3. 0 \in S
  BY <1>0, <1>2
<1>4. ASSUME NEW i \in 1 .. n, i - 1 \in S PROVE i \in S
  <2>0. i \in Nat /\ i > 0 /\ i <= n /\ i \in 0 .. n /\ i \in DOMAIN a
    BY <1>0
  <2>1. CASE i < p
    <3>1. f[i - 1] = base /\ a[i] # v
      BY <1>0, <1>4, <2>0, <2>1
    <3>2. Removed(base, i, v) = base
      BY <3>1 DEF Removed
    <3> HIDE DEF base, moved
    <3> QED BY <1>2, <2>0, <2>1, <3>1, <3>2
  <2>2. CASE i = p
    <3>1. f[i - 1] = base /\ a[i] = v /\ ~ (i < p)
      BY <1>0, <1>4, <2>0, <2>2
    <3>2. ~ (i > n)
      BY <1>0, <2>0
    <3>3. Removed(base, i, v) = moved
      BY <2>2, <3>1, <3>2 DEF Removed
    <3> HIDE DEF base, moved
    <3> QED BY <1>2, <2>0, <3>1, <3>3
  <2>3. CASE i > p
    <3>1. f[i - 1] = moved /\ ~ (i < p)
      BY <1>0, <1>4, <2>0, <2>3
    <3>2. b[i] # v
      <4>1. CASE i <= n - 1
        <5>1. b[i] = a[i + 1] /\ i + 1 \in 1 .. n /\ i + 1 # p
          BY <1>0, <2>0, <2>3, <4>1
        <5> QED BY <5>1
      <4>2. CASE ~ (i <= n - 1)
        <5>1. b[i] = a[i] /\ i # p
          BY <1>0, <2>0, <2>3, <4>2
        <5> QED BY <5>1
      <4> QED BY <4>1, <4>2
    <3> HIDE DEF b
    <3>3. Removed(moved, i, v) = moved
      BY <3>2 DEF Removed
    <3> HIDE DEF base, moved
    <3> QED BY <1>2, <2>0, <3>1, <3>3
  <2> QED BY <1>0, <2>0, <2>1, <2>2, <2>3
<1>5. n \in S
  <2>1. \A i \in 0 .. n : i \in S
    <3> HIDE DEF S
    <3> QED BY <1>0, <1>3, <1>4, RoundByRound, Zenon
  <2>2. n \in 0 .. n
    BY <1>0
  <2> HIDE DEF S
  <2> QED BY <2>1, <2>2
<1>6. CASE p <= n
  <2>1. done = moved
    BY <1>0, <1>2, <1>5, <1>6
  <2>2. done.array = b /\ done.len = n - 1 /\ ~done.panic
    BY <2>1
  <2>3. \A k \in 1 .. n - 1 : b[k] = a[Past(p, k)]
    BY <1>0
  <2> HIDE DEF b
  <2> QED BY <1>6, <2>2, <2>3
<1>7. CASE ~ (p <= n)
  <2>1. done = base
    BY <1>0, <1>2, <1>5, <1>7
  <2>2. done.array = a /\ done.len = n /\ ~done.panic
    BY <2>1
  <2>3. \A k \in 1 .. n : k < p
    BY <1>0, <1>7
  <2> QED BY <1>7, <2>2, <2>3
<1> QED BY <1>6, <1>7, Zenon

\* Remove of an element that is in the slice at most once.
LEMMA RemoveRight ==
  ASSUME NEW E, NEW a \in Seq(E), NEW n \in 0 .. Len(a), NEW v, NEW s, Begins(s, a, n),
         Count(s, v) <= 1, NEW done, done = RemoveLoop(a, n, v)
  PROVE  ~done.panic /\ Begins(Without(s, v), done.array, done.len)
<1>0. /\ n \in Nat /\ Len(a) \in Nat /\ n <= Len(a) /\ 1 \in Int /\ n \in Int
      /\ \A i \in 1 .. Len(a) : a[i] \in E
  BY LenProperties, ElementOfSeq
<1>1. s \in Seq(E) /\ Len(s) = n /\ \A i \in 1 .. n : s[i] = a[i]
  <2>1. \A i \in 1 .. n : a[i] \in E
    BY <1>0
  <2>2. /\ s \in Seq(E) /\ Len(s) = (IF 1 <= n THEN n - 1 + 1 ELSE 0)
        /\ \A i \in 1 .. n - 1 + 1 : s[i] = a[1 + i - 1]
    BY <1>0, <2>1, SubSeqProperties DEF Begins
  <2>3. n - 1 + 1 = n /\ \A i \in 1 .. n : 1 + i - 1 = i
    BY <1>0
  <2> QED BY <1>0, <2>2, <2>3
<1> DEFINE I == {i \in 1 .. n : s[i] = v}
<1>2. IsFiniteSet(I) /\ Cardinality(I) \in Nat /\ Cardinality(I) <= 1
  <2>1. DOMAIN s = 1 .. n
    BY <1>1, LenProperties
  <2>2. Count(s, v) = Cardinality(I)
    BY <2>1 DEF Count
  <2>3. IsFiniteSet(1 .. n)
    BY <1>0, FS_Interval
  <2>4. I \in SUBSET (1 .. n)
    OBVIOUS
  <2>5. IsFiniteSet(I)
    BY <2>3, <2>4, FS_Subset
  <2> QED BY <2>2, <2>5, FS_CardinalityType
<1>3. PICK p \in 1 .. n + 1 : \A j \in 1 .. n : s[j] = v <=> j = p
  <2>1. CASE Cardinality(I) = 0
    <3>1. I = {}
      BY <1>2, <2>1, FS_EmptySet, Zenon
    <3>2. n + 1 \in 1 .. n + 1 /\ \A j \in 1 .. n : j # n + 1
      BY <1>0
    <3> QED BY <3>1, <3>2
  <2>2. CASE Cardinality(I) = 1
    <3>1. PICK x : I = {x}
      BY <1>2, <2>2, FS_Singleton, Zenon
    <3>2. x \in 1 .. n + 1 /\ \A j \in 1 .. n : s[j] = v <=> j = x
      <4>1. x \in I
        BY <3>1
      <4>2. \A j \in 1 .. n : s[j] = v <=> j \in I
        OBVIOUS
      <4>3. x \in 1 .. n
        BY <4>1
      <4> HIDE DEF I
      <4> QED BY <1>0, <3>1, <4>2, <4>3
    <3> QED BY <3>2, Zenon
  <2>3. Cardinality(I) = 0 \/ Cardinality(I) = 1
    <3> HIDE DEF I
    <3> QED BY <1>2
  <2> QED BY <2>1, <2>2, <2>3
<1> HIDE DEF I
<1>4. /\ ~done.panic
      /\ done.len = IF p <= n THEN n - 1 ELSE n
      /\ \A k \in 1 .. done.len : done.array[k] = a[Past(p, k)]
  <2>1. OnlyAt(a, n, v, p)
    BY <1>1, <1>3 DEF OnlyAt
  <2>2. Closes(done, a, n, p)
    BY <2>1, RemoveLoopOne
  <2> QED BY <2>2 DEF Closes
<1> DEFINE m == IF p <= n THEN n - 1 ELSE n
           r == SubSeq(done.array, 1, m)
           q == Keep(s, (1 .. Len(s)) \ {p})
<1>5. done.array \in Seq(E) /\ Len(done.array) = Len(a)
  BY RemoveFits
<1>6. m \in Nat /\ m <= n /\ p \in Nat /\ p > 0 /\ \A k \in 1 .. m : k \in 1 .. n /\ Past(p, k) \in 1 .. n
  BY <1>0 DEF Past
<1>7. q = Without(s, v)
  <2>1. (1 .. Len(s)) \ {p} = {i \in 1 .. Len(s) : s[i] # v}
    BY <1>1, <1>3
  <2> QED BY <2>1, Zenon DEF Without
<1>8. /\ q \in Seq(E) /\ Len(q) = m
      /\ \A k \in 1 .. m : q[k] = s[Past(p, k)]
  <2>1. p \in 1 .. Len(s) + 1
    BY <1>1
  <2>2. /\ q \in Seq(E) /\ Len(q) = IF p <= Len(s) THEN Len(s) - 1 ELSE Len(s)
        /\ \A k \in 1 .. Len(q) : q[k] = s[Past(p, k)]
    <3>1. q = Keep(s, (1 .. Len(s)) \ {p}) /\ s \in Seq(E)
      BY <1>1
    <3> HIDE DEF q
    <3>2. AllBut(q, s, p, E)
      BY <2>1, <3>1, KeepAllBut
    <3> QED BY <3>2, Zenon DEF AllBut
  <2> HIDE DEF q
  <2> QED BY <1>1, <2>2
<1>9. /\ r \in Seq(E) /\ Len(r) = m
      /\ \A k \in 1 .. m : r[k] = done.array[k]
  <2> HIDE DEF m
  <2>1. \A k \in 1 .. m : done.array[k] \in E
    BY <1>0, <1>5, <1>6, ElementOfSeq
  <2>2. m \in Int
    BY <1>6
  <2>3. /\ r \in Seq(E) /\ Len(r) = (IF 1 <= m THEN m - 1 + 1 ELSE 0)
        /\ \A i \in 1 .. m - 1 + 1 : r[i] = done.array[1 + i - 1]
    BY <1>0, <2>1, <2>2, SubSeqProperties
  <2>4. m - 1 + 1 = m /\ \A i \in 1 .. m : 1 + i - 1 = i
    BY <1>6
  <2> HIDE DEF r
  <2> QED BY <1>6, <2>3, <2>4
<1> HIDE DEF q, r
<1>10. \A k \in 1 .. m : r[k] = q[k]
  <2> SUFFICES ASSUME NEW k \in 1 .. m PROVE r[k] = q[k]
    OBVIOUS
  <2>1. r[k] = a[Past(p, k)]
    BY <1>4, <1>9
  <2>2. q[k] = s[Past(p, k)]
    BY <1>8
  <2> HIDE DEF m
  <2> QED BY <1>1, <1>6, <2>1, <2>2
<1>11. r = q
  <2> HIDE DEF m
  <2> QED BY <1>8, <1>9, <1>10, SeqEqual
<1> QED BY <1>4, <1>7, <1>11 DEF r, Begins

-----------------------------------------------------------------------------
(* The invariant.                                                          *)

Handles == [array : Nat, off : Nat, len : Nat, cap : Nat]

\* The slice h lies within its array.
Within(h, hp) ==
  h = nil \/ /\ h.array \in 1 .. Len(hp) /\ h.len <= h.cap
             /\ h.off + h.cap = Len(hp[h.array])

WithinInv ==
  /\ heap \in Seq(Seq(Elems)) /\ slices \in Seq(Handles)
  /\ \A i \in 1 .. Len(slices) : Within(slices[i], heap)

LEMMA InvIsTyped ==
  ASSUME WithinInv
  PROVE  TypeOK
<1>1. DOMAIN slices = 1 .. Len(slices) /\ DOMAIN heap = 1 .. Len(heap)
  BY LenProperties DEF WithinInv
<1> SUFFICES ASSUME NEW i \in 1 .. Len(slices), slices[i] # nil
             PROVE  /\ slices[i].array \in DOMAIN heap
                    /\ slices[i].len \in 0 .. slices[i].cap
                    /\ slices[i].off \in 0 .. Len(heap[slices[i].array])
                    /\ slices[i].off + slices[i].cap = Len(heap[slices[i].array])
  BY <1>1 DEF TypeOK
<1> DEFINE h == slices[i]
<1>2. h \in Handles /\ Within(h, heap) /\ h # nil
  BY ElementOfSeq DEF WithinInv
<1> HIDE DEF h
<1>3. h.off \in Nat /\ h.len \in Nat /\ h.cap \in Nat
  BY <1>2 DEF Handles
<1>4. h.array \in 1 .. Len(heap) /\ h.len <= h.cap /\ h.off + h.cap = Len(heap[h.array])
  BY <1>2 DEF Within
<1>5. h.len \in 0 .. h.cap /\ h.off \in 0 .. h.off + h.cap
  BY <1>3, <1>4
<1> QED BY <1>1, <1>4, <1>5 DEF h

LEMMA ReadIs ==
  ASSUME heap \in Seq(Seq(Elems)), NEW h \in Handles, Within(h, heap)
  PROVE  /\ Read(h) \in Seq(Elems) /\ Len(Read(h)) = h.len
         /\ \A k \in 1 .. h.len : Read(h)[k] = heap[h.array][h.off + k]
<1>1. CASE h = nil
  <2>1. Read(h) = <<>> /\ h.len = 0
    BY <1>1 DEF Read, nil
  <2> QED BY <2>1
<1>2. CASE h # nil
  <2> DEFINE a == heap[h.array]
  <2>1. h.array \in 1 .. Len(heap) /\ h.len <= h.cap /\ h.off + h.cap = Len(a)
    BY <1>2 DEF Within
  <2>2. h.off \in Nat /\ h.len \in Nat /\ h.cap \in Nat /\ a \in Seq(Elems)
    BY <2>1, ElementOfSeq DEF Handles
  <2> HIDE DEF a
  <2>3. \A i \in h.off + 1 .. h.off + h.len : a[i] \in Elems
    <3> DEFINE o == h.off   l == h.len   c == h.cap
    <3>1. o \in Nat /\ l \in Nat /\ c \in Nat /\ l <= c /\ o + c = Len(a)
      BY <2>1, <2>2
    <3> HIDE DEF o, l, c
    <3>2. \A i \in o + 1 .. o + l : i \in 1 .. Len(a)
      BY <3>1
    <3>3. \A i \in o + 1 .. o + l : a[i] \in Elems
      BY <2>2, <3>2, ElementOfSeq
    <3> QED BY <3>3 DEF o, l
  <2>4. h.off + 1 \in Int /\ h.off + h.len \in Int
    BY <2>2
  <2> DEFINE r == SubSeq(a, h.off + 1, h.off + h.len)   m == h.off + 1   n == h.off + h.len
  <2>5. /\ r \in Seq(Elems) /\ Len(r) = (IF m <= n THEN n - m + 1 ELSE 0)
        /\ \A i \in 1 .. n - m + 1 : r[i] = a[m + i - 1]
    BY <2>3, <2>4, SubSeqProperties
  <2>6. n - m + 1 = h.len /\ (m <= n <=> h.len > 0) /\ \A i \in 1 .. h.len : m + i - 1 = h.off + i
    <3> DEFINE o == h.off   l == h.len
    <3>1. o \in Nat /\ l \in Nat /\ m = o + 1 /\ n = o + l
      BY <2>2
    <3> HIDE DEF o, l, m, n
    <3>2. n - m + 1 = l /\ (m <= n <=> l > 0) /\ \A i \in 1 .. l : m + i - 1 = o + i
      BY <3>1
    <3> QED BY <3>2 DEF o, l
  <2>7. Read(h) = r
    <3>1. h.array # 0
      BY <2>1
    <3> QED BY <3>1, Zenon DEF Read, a
  <2> HIDE DEF r, m, n
  <2>8. Len(r) = h.len
    BY <2>2, <2>5, <2>6
  <2> QED BY <2>5, <2>6, <2>7, <2>8 DEF a
<1> QED BY <1>1, <1>2

LEMMA InvKept ==
  ASSUME WithinInv, heap' \in Seq(Seq(Elems)), Len(heap) <= Len(heap'),
         \A a \in 1 .. Len(heap) : Len(heap'[a]) = Len(heap[a]),
         slices' = slices \/ \E k \in Handles : Within(k, heap') /\ slices' = Append(slices, k)
  PROVE  WithinInv'
<1>1. Len(heap) \in Nat /\ Len(heap') \in Nat /\ slices \in Seq(Handles) /\ Len(slices) \in Nat
  BY LenProperties DEF WithinInv
<1>2. \A h : Within(h, heap) => Within(h, heap')
  <2> SUFFICES ASSUME NEW h, h.array \in 1 .. Len(heap), h.len <= h.cap,
                      h.off + h.cap = Len(heap[h.array])
               PROVE  h.array \in 1 .. Len(heap') /\ h.off + h.cap = Len(heap'[h.array])
    BY DEF Within
  <2>1. Len(heap'[h.array]) = Len(heap[h.array])
    BY Zenon
  <2>2. h.array \in 1 .. Len(heap')
    BY <1>1
  <2> QED BY <2>1, <2>2
<1>3. CASE slices' = slices
  BY <1>2, <1>3 DEF WithinInv
<1>4. CASE \E k \in Handles : Within(k, heap') /\ slices' = Append(slices, k)
  <2>1. PICK k \in Handles : Within(k, heap') /\ slices' = Append(slices, k)
    BY <1>4
  <2>2. /\ slices' \in Seq(Handles) /\ Len(slices') = Len(slices) + 1
        /\ (\A i \in 1 .. Len(slices) : slices'[i] = slices[i]) /\ slices'[Len(slices) + 1] = k
    BY <1>1, <2>1, Appended
  <2>3. ASSUME NEW i \in 1 .. Len(slices') PROVE Within(slices'[i], heap')
    <3>1. i \in 1 .. Len(slices) \/ i = Len(slices) + 1
      BY <1>1, <2>2
    <3>2. ASSUME i \in 1 .. Len(slices) PROVE Within(slices'[i], heap')
      <4>1. Within(slices[i], heap) /\ slices'[i] = slices[i]
        BY <2>2, <3>2 DEF WithinInv
      <4> QED BY <1>2, <4>1
    <3> QED BY <2>1, <2>2, <3>1, <3>2
  <2> QED BY <2>2, <2>3 DEF WithinInv
<1> QED BY <1>3, <1>4

\* A call that returns a slice of its own, of elements of the type.
LEMMA ReturnsKeeps ==
  ASSUME WithinInv, NEW fn, NEW s, NEW t, NEW v, NEW r, NEW none \in BOOLEAN,
         none \/ r \in Seq(Elems), Returns(fn, s, t, v, r, none)
  PROVE  WithinInv'
<1>1. heap \in Seq(Seq(Elems)) /\ Len(heap) \in Nat
  BY LenProperties DEF WithinInv
<1>2. CASE none
  <2>1. heap' = heap /\ slices' = Append(slices, nil)
    BY <1>2 DEF Returns
  <2>2. nil \in Handles /\ Within(nil, heap')
    BY DEF nil, Handles, Within
  <2> QED BY <1>1, <2>1, <2>2, InvKept
<1>3. CASE ~none
  <2> DEFINE k == Whole(Len(heap) + 1, r)
  <2>1. heap' = Append(heap, r) /\ slices' = Append(slices, k) /\ r \in Seq(Elems)
    BY <1>3 DEF Returns
  <2>2. /\ heap' \in Seq(Seq(Elems)) /\ Len(heap') = Len(heap) + 1
        /\ (\A i \in 1 .. Len(heap) : heap'[i] = heap[i]) /\ heap'[Len(heap) + 1] = r
    <3> DEFINE E == Seq(Elems)
    <3>1. heap \in Seq(E) /\ r \in E
      BY <1>1, <2>1
    <3> HIDE DEF E
    <3>2. /\ Append(heap, r) \in Seq(E) /\ Len(Append(heap, r)) = Len(heap) + 1
          /\ (\A i \in 1 .. Len(heap) : Append(heap, r)[i] = heap[i]) /\ Append(heap, r)[Len(heap) + 1] = r
      BY <3>1, Appended
    <3> QED BY <2>1, <3>2 DEF E
  <2>3. k \in Handles /\ Within(k, heap')
    <3>1. Len(r) \in Nat
      BY <2>1, LenProperties
    <3>2. k = [array |-> Len(heap) + 1, off |-> 0, len |-> Len(r), cap |-> Len(r)]
      BY DEF Whole
    <3>3. k \in Handles
      BY <1>1, <3>1, <3>2 DEF Handles
    <3>4. k.array = Len(heap) + 1 /\ k.off = 0 /\ k.len = Len(r) /\ k.cap = Len(r)
      BY <3>2
    <3> HIDE DEF k
    <3>5. k.array \in 1 .. Len(heap') /\ k.len <= k.cap /\ k.off + k.cap = Len(heap'[k.array])
      BY <1>1, <2>2, <3>1, <3>4
    <3> QED BY <3>3, <3>5 DEF Within
  <2> HIDE DEF k
  <2>4. Len(heap) <= Len(heap') /\ \A a \in 1 .. Len(heap) : Len(heap'[a]) = Len(heap[a])
    BY <1>1, <2>2
  <2> QED BY <2>1, <2>2, <2>3, <2>4, InvKept
<1> QED BY <1>2, <1>3

-----------------------------------------------------------------------------
(* The calls.                                                              *)

\* What is claimed of the last call.
CallRight == SetsAgree /\ SearchFinds /\ EndsRejoin /\ RemovesOne

LEMMA IntsOfElems ==
  ASSUME NEW s \in Seq(Elems)
  PROVE  s \in Seq(Int) /\ ToSet(s) \subseteq Elems
<1>1. s \in Seq(Int)
  BY ElemsAssumption, SeqMonotonic, Zenon
<1>2. ToSet(s) \subseteq Elems
  BY ElementOfSeq, LenProperties DEF ToSet
<1> QED BY <1>1, <1>2

LEMMA Others ==
  ASSUME NEW fn, NEW s, NEW t, NEW v, NEW r, Called(fn, s, t, v, r),
         fn \notin {"Unique", "Subtract", "RemoveAll", "Compare", "SortedIndex", "Pop", "Shift", "Remove"}
  PROVE  CallRight'
<1>1. last'.fn = fn
  BY DEF Called
<1>2. SetsAgree'
  BY <1>1 DEF SetsAgree
<1> QED BY <1>1, <1>2 DEF CallRight, SearchFinds, EndsRejoin, RemovesOne

LEMMA CopyingStep ==
  ASSUME WithinInv, NEW h \in Handles, Within(h, heap), Copying(h)
  PROVE  WithinInv' /\ CallRight'
<1> DEFINE s == Read(h)
<1>0. heap \in Seq(Seq(Elems)) /\ 0 \in Elems
  BY ElemsAssumption DEF WithinInv
<1>1. s \in Seq(Elems) /\ s \in Seq(Int) /\ ToSet(s) \subseteq Elems
  BY <1>0, ReadIs, IntsOfElems
<1>2. \A b \in {h = nil, FALSE} : b \in BOOLEAN
  BY Zenon
<1> HIDE DEF s
<1>3. CASE Returns("Sort", s, <<>>, 0, Sort(s), h = nil)
  <2>1. Sort(s) \in Seq(Elems)
    BY <1>1, SortIs, SeqWithin
  <2>2. Called("Sort", s, <<>>, 0, Sort(s))
    BY <1>3 DEF Returns
  <2> QED BY <1>2, <1>3, <2>1, <2>2, ReturnsKeeps, Others, Zenon
<1>4. CASE Returns("SortedUnique", s, <<>>, 0, SortedUnique(s), h = nil)
  <2>1. SortedUnique(s) \in Seq(Elems)
    <3>1. PICK f : UniqueRounds(f, s) /\ f \in [0 .. Len(s) -> [out : Seq(Elems), last : Elems]]
      BY <1>0, <1>1, SortedUniqueRuns
    <3>2. Len(s) \in 0 .. Len(s)
      BY <1>1, LenProperties
    <3>3. f[Len(s)] \in [out : Seq(Elems), last : Elems]
      BY <3>1, <3>2
    <3> QED BY <3>1, <3>3 DEF UniqueRounds
  <2>2. Called("SortedUnique", s, <<>>, 0, SortedUnique(s))
    BY <1>4 DEF Returns
  <2> QED BY <1>2, <1>4, <2>1, <2>2, ReturnsKeeps, Others, Zenon
<1>5. CASE Returns("Unique", s, <<>>, 0, Unique(s), h = nil)
  <2>1. Unique(s) \in Seq(Elems)
    BY <1>1, UniqueIs, SeqWithin
  <2>2. last' = [fn |-> "Unique", s |-> s, t |-> <<>>, v |-> 0, ret |-> Unique(s)]
    BY <1>5 DEF Returns, Called
  <2>3. CallRight'
    <3>1. IsSetSeq(Unique(s), ToSet(s))
      BY <1>1, UniqueRight
    <3> QED BY <2>2, <3>1 DEF CallRight, SetsAgree, SearchFinds, EndsRejoin, RemovesOne
  <2> QED BY <1>2, <1>5, <2>1, <2>3, ReturnsKeeps, Zenon
<1>6. CASE \E v \in Elems : Returns("Unshift", s, <<>>, v, <<v>> \o s, FALSE)
  <2>1. PICK v \in Elems : Returns("Unshift", s, <<>>, v, <<v>> \o s, FALSE)
    BY <1>6, Zenon
  <2>2. <<v>> \o s \in Seq(Elems)
    BY <1>1, ConcatProperties
  <2>3. Called("Unshift", s, <<>>, v, <<v>> \o s)
    BY <2>1 DEF Returns
  <2> QED BY <2>1, <2>2, <2>3, ReturnsKeeps, Others, Zenon
<1>7. CASE \E P \in SUBSET Elems : Returns("Select", s, <<>>, P, Select(s, P), FALSE)
  <2>1. PICK P \in SUBSET Elems : Returns("Select", s, <<>>, P, Select(s, P), FALSE)
    BY <1>7, Zenon
  <2>2. Select(s, P) \in Seq(Elems)
    <3> DEFINE I == {i \in 1 .. Len(s) : s[i] \in P}
    <3>1. I \in SUBSET (1 .. Len(s)) /\ Select(s, P) = Keep(s, I)
      BY DEF Select
    <3> HIDE DEF I
    <3> QED BY <1>1, <3>1, KeepIs, ZenonT(30)
  <2>3. Called("Select", s, <<>>, P, Select(s, P))
    BY <2>1 DEF Returns
  <2> QED BY <2>1, <2>2, <2>3, ReturnsKeeps, Others, Zenon
<1> QED BY <1>3, <1>4, <1>5, <1>6, <1>7, Zenon DEF Copying, s

LEMMA SubtractStep ==
  ASSUME WithinInv, NEW h \in Handles, Within(h, heap), NEW g \in Handles, Within(g, heap),
         SubtractCall(h, g)
  PROVE  WithinInv' /\ CallRight'
<1> DEFINE s == Read(h)   t == Read(g)   r == Subtract(s, t)
<1>0. heap \in Seq(Seq(Elems))
  BY DEF WithinInv
<1>1. s \in Seq(Elems) /\ s \in Seq(Int) /\ ToSet(s) \subseteq Elems /\ t \in Seq(Int)
  BY <1>0, ReadIs, IntsOfElems
<1>2. Returns("Subtract", s, t, 0, r, FALSE)
  BY Zenon DEF SubtractCall
<1> HIDE DEF s, t
<1>3. r \in Seq(Int) /\ IsSetSeq(r, ToSet(s) \ ToSet(t))
  BY <1>1, SubtractRight
<1> HIDE DEF r
<1>4. r \in Seq(Elems)
  BY <1>1, <1>3, SeqWithin DEF IsSetSeq
<1>5. last' = [fn |-> "Subtract", s |-> s, t |-> t, v |-> 0, ret |-> r]
  BY <1>2 DEF Returns, Called
<1>6. CallRight'
  BY <1>3, <1>5 DEF CallRight, SetsAgree, SearchFinds, EndsRejoin, RemovesOne
<1> QED BY <1>2, <1>4, <1>6, ReturnsKeeps, Zenon

LEMMA RemoveAllStep ==
  ASSUME WithinInv, NEW h \in Handles, Within(h, heap), NEW g \in Handles, Within(g, heap),
         RemoveAllCall(h, g)
  PROVE  WithinInv' /\ CallRight'
<1> DEFINE s == Read(h)   t == Read(g)   r == RemoveAll(s, t)
<1>0. heap \in Seq(Seq(Elems))
  BY DEF WithinInv
<1>1. s \in Seq(Elems) /\ s \in Seq(Int) /\ ToSet(s) \subseteq Elems /\ t \in Seq(Int)
  BY <1>0, ReadIs, IntsOfElems
<1>2. Returns("RemoveAll", s, t, 0, r, r = <<>>) /\ (r = <<>>) \in BOOLEAN
  BY DEF RemoveAllCall
<1> HIDE DEF s, t
<1>3. r \in Seq(Int) /\ ToSet(r) = ToSet(s) \ ToSet(t) /\ IsSetSeq(Unique(r), ToSet(s) \ ToSet(t))
  BY <1>1, RemoveAllRight, Zenon
<1> HIDE DEF r
<1>4. r \in Seq(Elems)
  BY <1>1, <1>3, SeqWithin
<1>5. last' = [fn |-> "RemoveAll", s |-> s, t |-> t, v |-> 0, ret |-> r]
  BY <1>2 DEF Returns, Called
<1>6. CallRight'
  BY <1>3, <1>5 DEF CallRight, SetsAgree, SearchFinds, EndsRejoin, RemovesOne
<1> QED BY <1>2, <1>4, <1>6, ReturnsKeeps, Zenon

LEMMA QueryStep ==
  ASSUME WithinInv, NEW h \in Handles, Within(h, heap), NEW g \in Handles, Within(g, heap),
         Query(h, g)
  PROVE  WithinInv' /\ CallRight'
<1> DEFINE s == Read(h)   t == Read(g)
<1>0. heap \in Seq(Seq(Elems))
  BY DEF WithinInv
<1>1. s \in Seq(Int) /\ t \in Seq(Int)
  BY <1>0, ReadIs, IntsOfElems
<1>2. WithinInv'
  BY DEF Query, WithinInv
<1> HIDE DEF s, t
<1>3. CASE \E v \in Elems : Called("Index", s, <<>>, v, Index(s, v))
  <2>1. PICK v \in Elems : Called("Index", s, <<>>, v, Index(s, v))
    BY <1>3
  <2> DEFINE r == Index(s, v)
  <2>2. Called("Index", s, <<>>, v, r)
    BY <2>1
  <2> HIDE DEF r
  <2> QED BY <1>2, <2>2, Others
<1>4. CASE \E v \in Elems : Sort(s) = s /\ Called("SortedIndex", s, <<>>, v, SortedIndex(s, v))
  <2>1. PICK v \in Elems : Sort(s) = s /\ Called("SortedIndex", s, <<>>, v, SortedIndex(s, v))
    BY <1>4
  <2> DEFINE r == SortedIndex(s, v)
  <2>2. last' = [fn |-> "SortedIndex", s |-> s, t |-> <<>>, v |-> v, ret |-> r]
    BY <2>1 DEF Called
  <2>3. IF v \in ToSet(s) THEN s[r + 1] = v ELSE r = -1
    BY <1>1, <2>1, ElemsAssumption, SortedIndexRight
  <2> HIDE DEF r
  <2>4. last'.fn = "SortedIndex" /\ last'.s = s /\ last'.v = v /\ last'.ret = r
    BY <2>2
  <2>5. SetsAgree' /\ EndsRejoin' /\ RemovesOne'
    BY <2>4 DEF SetsAgree, EndsRejoin, RemovesOne
  <2>6. SearchFinds'
    BY <2>3, <2>4 DEF SearchFinds
  <2> QED BY <1>2, <2>5, <2>6 DEF CallRight
<1>5. CASE \E P \in SUBSET Elems : Called("Find", s, <<>>, P, Find(s, P))
  <2>1. PICK P \in SUBSET Elems : Called("Find", s, <<>>, P, Find(s, P))
    BY <1>5
  <2> DEFINE r == Find(s, P)
  <2>2. Called("Find", s, <<>>, P, r)
    BY <2>1
  <2> HIDE DEF r
  <2> QED BY <1>2, <2>2, Others
<1>6. CASE Called("Compare", s, t, 0, Compare(s, t))
  <2> DEFINE r == Compare(s, t)
  <2>1. last' = [fn |-> "Compare", s |-> s, t |-> t, v |-> 0, ret |-> r]
    BY <1>6 DEF Called
  <2>2. /\ IsSetSeq([i \in DOMAIN r |-> r[i][2]], ToSet(s) \cup ToSet(t))
        /\ ToSet(Side(r, "left")) = ToSet(s) \ ToSet(t)
        /\ ToSet(Side(r, "equal")) = ToSet(s) \cap ToSet(t)
        /\ ToSet(Side(r, "right")) = ToSet(t) \ ToSet(s)
    BY <1>1, CompareRight, Zenon
  <2> HIDE DEF r
  <2>3. last'.fn = "Compare" /\ last'.s = s /\ last'.t = t /\ last'.ret = r
    BY <2>1
  <2>4. SearchFinds' /\ EndsRejoin' /\ RemovesOne'
    BY <2>3 DEF SearchFinds, EndsRejoin, RemovesOne
  <2>5. SetsAgree'
    BY <2>2, <2>3 DEF SetsAgree
  <2> QED BY <1>2, <2>4, <2>5 DEF CallRight
<1>7. CASE Called("Map", s, <<>>, 0, Calls(s)) \/ Called("Reduce", s, <<>>, 0, Reduce(s))
  <2> DEFINE m == Calls(s)   r == Reduce(s)
  <2>1. Called("Map", s, <<>>, 0, m) \/ Called("Reduce", s, <<>>, 0, r)
    BY <1>7
  <2> HIDE DEF m, r
  <2> QED BY <1>2, <2>1, Others
<1>8. CallRight'
  BY <1>3, <1>4, <1>5, <1>6, <1>7, Zenon DEF Query, s, t
<1> QED BY <1>2, <1>8

\* A part of a slice is added to what the caller holds, and the arrays are as before.
LEMMA PartAdded ==
  ASSUME WithinInv, NEW k \in Handles, Within(k, heap), UNCHANGED heap, slices' = Append(slices, k)
  PROVE  WithinInv' /\ Read(slices[Len(slices)])' = Read(k)
<1>1. heap \in Seq(Seq(Elems)) /\ slices \in Seq(Handles) /\ Len(slices) \in Nat /\ Len(heap) \in Nat
  BY LenProperties DEF WithinInv
<1>2. slices'[Len(slices')] = k
  <2>1. Len(slices') = Len(slices) + 1 /\ slices'[Len(slices) + 1] = k
    BY <1>1, Appended
  <2> QED BY <2>1
<1>3. Read(slices[Len(slices)])' = Read(k)
  BY <1>2 DEF Read
<1>4. heap' \in Seq(Seq(Elems)) /\ Len(heap) <= Len(heap') /\ \A a \in 1 .. Len(heap) : Len(heap'[a]) = Len(heap[a])
  BY <1>1
<1>5. \E j \in Handles : Within(j, heap') /\ slices' = Append(slices, j)
  OBVIOUS
<1> QED BY <1>3, <1>4, <1>5, InvKept

\* What Pop and Shift make of a slice that is not empty, part by part.
LEMMA Parts ==
  ASSUME NEW h \in Handles, Within(h, heap), h.len > 0, NEW f, f = [h EXCEPT !.len = @ - 1],
         NEW g, g = [h EXCEPT !.off = @ + 1, !.len = @ - 1, !.cap = @ - 1]
  PROVE  /\ f \in Handles /\ Within(f, heap) /\ g \in Handles /\ Within(g, heap)
         /\ f.array = h.array /\ f.off = h.off /\ f.len = h.len - 1
         /\ g.array = h.array /\ g.off = h.off + 1 /\ g.len = h.len - 1
<1> DEFINE a == h.array  o == h.off  l == h.len  c == h.cap
<1>1. /\ h = [array |-> a, off |-> o, len |-> l, cap |-> c]
      /\ a \in Nat /\ o \in Nat /\ l \in Nat /\ c \in Nat
  BY DEF Handles
<1>2. f = [h EXCEPT !.len = l - 1] /\ g = [h EXCEPT !.off = o + 1, !.len = l - 1, !.cap = c - 1]
  OBVIOUS
<1>3. a \in 1 .. Len(heap) /\ l <= c /\ o + c = Len(heap[a])
  BY <1>1 DEF Within, nil
<1>4. l > 0
  OBVIOUS
<1> HIDE DEF a, o, l, c
<1>5. /\ f = [array |-> a, off |-> o, len |-> l - 1, cap |-> c]
      /\ g = [array |-> a, off |-> o + 1, len |-> l - 1, cap |-> c - 1]
  BY <1>1, <1>2, RecordExcept, Zenon
<1>6. l - 1 \in Nat /\ o + 1 \in Nat /\ c - 1 \in Nat /\ l - 1 <= c /\ l - 1 <= c - 1
      /\ o + 1 + (c - 1) = Len(heap[a])
  <2> DEFINE n == Len(heap[a])
  <2>1. o \in Nat /\ l \in Nat /\ c \in Nat /\ l > 0 /\ l <= c /\ o + c = n
    BY <1>1, <1>3, <1>4
  <2> HIDE DEF n
  <2>2. l - 1 \in Nat /\ o + 1 \in Nat /\ c - 1 \in Nat /\ l - 1 <= c /\ l - 1 <= c - 1
        /\ o + 1 + (c - 1) = n
    BY <2>1
  <2> QED BY <2>2 DEF n
<1>7. f \in Handles /\ g \in Handles
  BY <1>1, <1>5, <1>6, Zenon DEF Handles
<1>8. Within(f, heap) /\ Within(g, heap)
  <2>1. /\ f.array = a /\ f.off = o /\ f.len = l - 1 /\ f.cap = c
        /\ g.array = a /\ g.off = o + 1 /\ g.len = l - 1 /\ g.cap = c - 1
    BY <1>5
  <2> QED BY <1>3, <1>6, <2>1 DEF Within
<1> QED BY <1>5, <1>7, <1>8 DEF a, o, l, c

LEMMA EmptyStep ==
  ASSUME WithinInv, UNCHANGED heap, slices' = Append(slices, nil), NEW fn \in {"Pop", "Shift"},
         last'.fn = fn, last'.s = <<>>
  PROVE  WithinInv' /\ CallRight'
<1>1. nil \in Handles /\ Within(nil, heap)
  BY DEF nil, Handles, Within
<1>2. WithinInv'
  BY <1>1, PartAdded
<1>3. SetsAgree' /\ SearchFinds' /\ RemovesOne'
  BY DEF SetsAgree, SearchFinds, RemovesOne
<1>4. EndsRejoin'
  BY DEF EndsRejoin
<1> QED BY <1>2, <1>3, <1>4 DEF CallRight

LEMMA PopStep ==
  ASSUME WithinInv, NEW h \in Handles, Within(h, heap), Pop(h)
  PROVE  WithinInv' /\ CallRight'
<1> DEFINE s == Read(h)
<1>0. heap \in Seq(Seq(Elems)) /\ UNCHANGED heap /\ h.len \in Nat
  BY DEF WithinInv, Pop, Handles
<1>1. /\ s \in Seq(Elems) /\ Len(s) = h.len
      /\ \A k \in 1 .. h.len : s[k] = heap[h.array][h.off + k]
  BY <1>0, ReadIs
<1>2. last'.fn = "Pop" /\ last'.s = s /\ last'.ret = Last1(s)[1]
  BY DEF Pop, Called
<1>3. CASE h.len = 0
  <2>1. s = <<>>
    BY <1>1, <1>3, EmptySeq
  <2>2. slices' = Append(slices, nil)
    BY <1>3 DEF Pop
  <2> QED BY <1>0, <1>2, <2>1, <2>2, EmptyStep
<1>4. CASE h.len > 0
  <2> DEFINE f == [h EXCEPT !.len = @ - 1]
  <2>1. slices' = Append(slices, f)
    BY <1>4 DEF Pop
  <2>2. f \in Handles /\ Within(f, heap) /\ f.array = h.array /\ f.off = h.off /\ f.len = h.len - 1
    BY <1>4, Parts, Zenon
  <2> HIDE DEF f, s
  <2>3. WithinInv' /\ Read(slices[Len(slices)])' = Read(f)
    BY <1>0, <2>1, <2>2, PartAdded
  <2> DEFINE r == Read(f)
  <2>4. /\ r \in Seq(Elems) /\ Len(r) = h.len - 1
        /\ \A k \in 1 .. h.len - 1 : r[k] = heap[h.array][h.off + k]
    BY <1>0, <2>2, ReadIs, Zenon
  <2> HIDE DEF r
  <2> DEFINE e == s[h.len]
  <2>5. e \in Elems /\ last'.ret = e
    <3>1. s # <<>> /\ h.len \in 1 .. Len(s)
      BY <1>0, <1>1, <1>4
    <3>2. last'.ret = s[Len(s)]
      BY <1>2, <3>1 DEF Last1
    <3> QED BY <1>1, <3>1, <3>2, ElementOfSeq
  <2>6. Append(r, e) = s
    <3>1. e \in Elems
      BY <2>5
    <3> HIDE DEF e
    <3>2. Append(r, e) \in Seq(Elems) /\ Len(Append(r, e)) = h.len - 1 + 1
          /\ (\A k \in 1 .. h.len - 1 : Append(r, e)[k] = r[k]) /\ Append(r, e)[h.len - 1 + 1] = e
      BY <2>4, <3>1, Appended
    <3> DEFINE q == Append(r, e)
    <3> HIDE DEF q
    <3>3. q \in Seq(Elems) /\ Len(q) = h.len /\ (\A k \in 1 .. h.len - 1 : q[k] = s[k]) /\ q[h.len] = s[h.len]
      BY <1>0, <1>1, <2>4, <3>2 DEF q, e
    <3>4. \A k \in 1 .. h.len : q[k] = s[k]
      BY <1>0, <3>3
    <3>5. q = s
      BY <1>1, <3>3, <3>4, SeqEqual
    <3> QED BY <3>5 DEF q
  <2>7. EndsRejoin'
    BY <1>2, <2>3, <2>5, <2>6 DEF EndsRejoin, r
  <2>8. SetsAgree' /\ SearchFinds' /\ RemovesOne'
    BY <1>2 DEF SetsAgree, SearchFinds, RemovesOne
  <2> QED BY <2>3, <2>7, <2>8 DEF CallRight
<1> QED BY <1>0, <1>3, <1>4

LEMMA ShiftStep ==
  ASSUME WithinInv, NEW h \in Handles, Within(h, heap), Shift(h)
  PROVE  WithinInv' /\ CallRight'
<1> DEFINE s == Read(h)
<1>0. heap \in Seq(Seq(Elems)) /\ UNCHANGED heap /\ h.len \in Nat
  BY DEF WithinInv, Shift, Handles
<1>1. /\ s \in Seq(Elems) /\ Len(s) = h.len
      /\ \A k \in 1 .. h.len : s[k] = heap[h.array][h.off + k]
  BY <1>0, ReadIs
<1>2. last'.fn = "Shift" /\ last'.s = s /\ last'.ret = First(s)[1]
  BY DEF Shift, Called
<1>3. CASE h.len = 0
  <2>1. s = <<>>
    BY <1>1, <1>3, EmptySeq
  <2>2. slices' = Append(slices, nil)
    BY <1>3 DEF Shift
  <2> QED BY <1>0, <1>2, <2>1, <2>2, EmptyStep
<1>4. CASE h.len > 0
  <2> DEFINE g == [h EXCEPT !.off = @ + 1, !.len = @ - 1, !.cap = @ - 1]
  <2>1. slices' = Append(slices, g)
    BY <1>4 DEF Shift
  <2>2. g \in Handles /\ Within(g, heap) /\ g.array = h.array /\ g.off = h.off + 1 /\ g.len = h.len - 1
    BY <1>4, Parts, Zenon
  <2> HIDE DEF g, s
  <2>3. WithinInv' /\ Read(slices[Len(slices)])' = Read(g)
    BY <1>0, <2>1, <2>2, PartAdded
  <2> DEFINE r == Read(g)
  <2>4. /\ r \in Seq(Elems) /\ Len(r) = h.len - 1
        /\ \A k \in 1 .. h.len - 1 : r[k] = heap[h.array][h.off + 1 + k]
    BY <1>0, <2>2, ReadIs, Zenon
  <2> HIDE DEF r
  <2> DEFINE e == s[1]
  <2>5. e \in Elems /\ last'.ret = e
    <3>1. s # <<>> /\ 1 \in 1 .. Len(s)
      BY <1>0, <1>1, <1>4
    <3>2. last'.ret = s[1]
      BY <1>2, <3>1 DEF First
    <3> QED BY <1>1, <3>1, <3>2, ElementOfSeq
  <2>6. <<e>> \o r = s
    <3>1. <<e>> \in Seq(Elems) /\ Len(<<e>>) = 1 /\ <<e>>[1] = e
      BY <2>5
    <3> HIDE DEF e
    <3> DEFINE q == <<e>> \o r
    <3>2. q \in Seq(Elems) /\ Len(q) = 1 + Len(r)
          /\ \A i \in 1 .. 1 + Len(r) : q[i] = IF i <= 1 THEN <<e>>[i] ELSE r[i - 1]
      BY <2>4, <3>1, ConcatProperties
    <3> HIDE DEF q
    <3>3. Len(q) = h.len /\ h.len - 1 \in Nat /\ 1 + (h.len - 1) = h.len
      BY <1>0, <1>4, <2>4, <3>2
    <3>4. ASSUME NEW i \in 1 .. h.len PROVE q[i] = s[i]
      <4>1. CASE i = 1
        <5>1. q[1] = e
          BY <3>1, <3>2, <4>1, <3>3, <2>4
        <5> QED BY <4>1, <5>1 DEF e
      <4>2. CASE i # 1
        <5>1. i - 1 \in 1 .. h.len - 1 /\ i \in 1 .. 1 + Len(r) /\ ~ (i <= 1)
          BY <1>0, <2>4, <3>3, <4>2
        <5>2. q[i] = r[i - 1] /\ r[i - 1] = heap[h.array][h.off + 1 + (i - 1)]
          BY <2>4, <3>2, <5>1
        <5>3. h.off + 1 + (i - 1) = h.off + i
          BY DEF Handles
        <5> QED BY <1>1, <5>2, <5>3
      <4> QED BY <4>1, <4>2
    <3>5. q = s
      BY <1>1, <3>2, <3>3, <3>4, SeqEqual, Zenon
    <3> QED BY <3>5 DEF q
  <2>7. EndsRejoin'
    BY <1>2, <2>3, <2>5, <2>6 DEF EndsRejoin, r
  <2>8. SetsAgree' /\ SearchFinds' /\ RemovesOne'
    BY <1>2 DEF SetsAgree, SearchFinds, RemovesOne
  <2> QED BY <2>3, <2>7, <2>8 DEF CallRight
<1> QED BY <1>0, <1>3, <1>4

\* The rest of the array from where the slice begins, which is what Remove works in.
Room(h) == IF h = nil THEN <<>> ELSE SubSeq(heap[h.array], h.off + 1, h.off + h.cap)

LEMMA RoomIs ==
  ASSUME heap \in Seq(Seq(Elems)), NEW h \in Handles, Within(h, heap), h # nil,
         NEW b, b = Room(h)
  PROVE  /\ b \in Seq(Elems) /\ Len(b) = h.cap
         /\ \A k \in 1 .. h.cap : b[k] = heap[h.array][h.off + k]
<1> DEFINE a == heap[h.array]  o == h.off  l == h.cap
<1>1. h.array \in 1 .. Len(heap) /\ o + l = Len(a)
  BY DEF Within
<1>2. o \in Nat /\ l \in Nat /\ a \in Seq(Elems)
  BY <1>1, ElementOfSeq DEF Handles
<1>3. b = SubSeq(a, o + 1, o + l)
  BY Zenon DEF Room
<1> HIDE DEF a, o, l
<1>4. \A i \in o + 1 .. o + l : a[i] \in Elems
  <2>1. \A i \in o + 1 .. o + l : i \in 1 .. Len(a)
    BY <1>1, <1>2
  <2> QED BY <1>2, <2>1, ElementOfSeq
<1> DEFINE m == o + 1   n == o + l
<1>5. m \in Int /\ n \in Int
  BY <1>2
<1>4a. \A i \in m .. n : a[i] \in Elems
  BY <1>4
<1> DEFINE r == SubSeq(a, m, n)
<1>4b. b = r
  BY <1>3
<1>6. n - m + 1 = l /\ (m <= n <=> l > 0) /\ \A i \in 1 .. l : m + i - 1 = o + i
  BY <1>2
<1> HIDE DEF m, n
<1>7. /\ r \in Seq(Elems) /\ Len(r) = (IF m <= n THEN n - m + 1 ELSE 0)
      /\ \A i \in 1 .. n - m + 1 : r[i] = a[m + i - 1]
  BY <1>4a, <1>5, SubSeqProperties
<1> HIDE DEF r
<1>8. Len(r) = l
  BY <1>2, <1>6, <1>7
<1> QED BY <1>4b, <1>6, <1>7, <1>8 DEF a, o, l

\* A slice reads as the beginning of that room.
LEMMA RoomBegins ==
  ASSUME heap \in Seq(Seq(Elems)), NEW h \in Handles, Within(h, heap), h # nil,
         NEW b, b = Room(h)
  PROVE  Begins(Read(h), b, h.len) /\ h.len \in 0 .. Len(b)
<1>1. /\ b \in Seq(Elems) /\ Len(b) = h.cap
      /\ \A k \in 1 .. h.cap : b[k] = heap[h.array][h.off + k]
  BY RoomIs
<1> DEFINE s == Read(h)   l == h.len
<1>2. /\ s \in Seq(Elems) /\ Len(s) = l
      /\ \A k \in 1 .. l : s[k] = heap[h.array][h.off + k]
  BY ReadIs
<1>3. l \in Nat /\ l <= Len(b) /\ Len(b) \in Nat /\ 1 \in Int /\ l \in Int
  BY <1>1 DEF Within, Handles
<1> HIDE DEF s, l
<1>4. ASSUME NEW i \in 1 .. l PROVE b[i] = s[i]
  <2>1. i \in 1 .. h.cap
    BY <1>1, <1>3
  <2>2. b[i] = heap[h.array][h.off + i]
    BY <1>1, <2>1
  <2>3. s[i] = heap[h.array][h.off + i]
    BY <1>2
  <2> QED BY <2>2, <2>3
<1>4a. \A i \in 1 .. l : b[i] \in Elems
  <2>1. \A i \in 1 .. l : i \in 1 .. Len(b)
    BY <1>3
  <2> QED BY <1>1, <2>1, ElementOfSeq
<1> DEFINE r == SubSeq(b, 1, l)
<1>5. /\ r \in Seq(Elems) /\ Len(r) = (IF 1 <= l THEN l - 1 + 1 ELSE 0)
      /\ \A i \in 1 .. l - 1 + 1 : r[i] = b[1 + i - 1]
  BY <1>3, <1>4a, SubSeqProperties
<1> HIDE DEF r
<1>6. Len(r) = l /\ \A i \in 1 .. l : r[i] = s[i]
  <2>1. l - 1 + 1 = l /\ \A i \in 1 .. l : 1 + i - 1 = i
    BY <1>3
  <2> QED BY <1>3, <1>4, <1>5, <2>1
<1>7. r = s
  BY <1>2, <1>5, <1>6, SeqEqual
<1> QED BY <1>3, <1>7 DEF r, s, l, Begins

\* What Remove leaves of the operand, and of its array.
LEMMA RemoveSteps ==
  ASSUME WithinInv, NEW h \in Handles, Within(h, heap), NEW v, RemoveCall(h, v),
         NEW b \in Seq(Elems), h.len \in 0 .. Len(b),
         b = Room(h),
         Begins(Read(h), b, h.len)
  PROVE  CallRight'
<1> DEFINE done == RemoveLoop(b, h.len, v)   s == Read(h)
<1>1. /\ last'.fn = "Remove" /\ last'.s = s /\ last'.v = v
      /\ last'.ret = IF done.panic THEN Panic ELSE SubSeq(done.array, 1, done.len)
  BY DEF RemoveCall, Called, Room
<1>2. SetsAgree' /\ SearchFinds' /\ EndsRejoin'
  BY <1>1 DEF SetsAgree, SearchFinds, EndsRejoin
<1>3. ASSUME Count(s, v) <= 1 PROVE last'.ret = Without(s, v)
  <2> DEFINE n == h.len
  <2>1. Begins(s, b, n) /\ done = RemoveLoop(b, n, v) /\ n \in 0 .. Len(b)
    OBVIOUS
  <2> HIDE DEF done, s, n
  <2>2. ~done.panic /\ Begins(Without(s, v), done.array, done.len)
    BY <1>3, <2>1, RemoveRight
  <2> QED BY <1>1, <2>2, Zenon DEF Begins
<1>4. RemovesOne'
  BY <1>1, <1>3 DEF RemovesOne, Count, Without
<1> QED BY <1>2, <1>4 DEF CallRight

\* The array that Remove leaves: it begins as before, and it is as long.
LEMMA Rejoined ==
  ASSUME NEW a \in Seq(Elems), NEW o \in 0 .. Len(a), NEW d \in Seq(Elems), o + Len(d) = Len(a)
  PROVE  SubSeq(a, 1, o) \o d \in Seq(Elems) /\ Len(SubSeq(a, 1, o) \o d) = Len(a)
<1>0. Len(a) \in Nat /\ Len(d) \in Nat /\ o \in Nat /\ 1 \in Int /\ o \in Int
  BY LenProperties
<1>1. \A i \in 1 .. o : a[i] \in Elems
  <2>1. \A i \in 1 .. o : i \in 1 .. Len(a)
    BY <1>0
  <2> QED BY <2>1, ElementOfSeq
<1> DEFINE b == SubSeq(a, 1, o)
<1>2. b \in Seq(Elems) /\ Len(b) = IF 1 <= o THEN o - 1 + 1 ELSE 0
  BY <1>0, <1>1, SubSeqProperties
<1> HIDE DEF b
<1>3. Len(b) = o
  BY <1>0, <1>2
<1>4. b \o d \in Seq(Elems) /\ Len(b \o d) = Len(b) + Len(d)
  BY <1>2, ConcatProperties, Zenon
<1> QED BY <1>3, <1>4 DEF b

LEMMA RemoveStep ==
  ASSUME WithinInv, NEW h \in Handles, Within(h, heap), NEW v, RemoveCall(h, v)
  PROVE  WithinInv' /\ CallRight'
<1>0. heap \in Seq(Seq(Elems)) /\ Len(heap) \in Nat /\ h.len \in Nat /\ h.cap \in Nat /\ h.off \in Nat
  BY LenProperties DEF WithinInv, Handles
<1> DEFINE b == Room(h)
<1>1. b \in Seq(Elems) /\ h.len \in 0 .. Len(b) /\ Begins(Read(h), b, h.len) /\ (h # nil => Len(b) = h.cap)
  <2>1. CASE h = nil
    <3>1. b = <<>> /\ h.len = 0 /\ Read(h) = <<>>
      BY <2>1 DEF Room, Read, nil
    <3>2. SubSeq(<<>>, 1, 0) = <<>>
      BY SubSeqEmpty
    <3>3. <<>> \in Seq(Elems) /\ Len(<<>>) = 0
      BY EmptySeq
    <3> QED BY <2>1, <3>1, <3>2, <3>3 DEF Begins
  <2>2. CASE h # nil
    <3> HIDE DEF b
    <3>1. b = Room(h)
      BY DEF b
    <3>2. b \in Seq(Elems) /\ Len(b) = h.cap
      BY <1>0, <2>2, <3>1, RoomIs
    <3>3. Begins(Read(h), b, h.len) /\ h.len \in 0 .. Len(b)
      BY <1>0, <2>2, <3>1, RoomBegins
    <3> QED BY <3>2, <3>3
  <2> QED BY <2>1, <2>2
<1> DEFINE done == RemoveLoop(b, h.len, v)   k == [h EXCEPT !.len = done.len]
<1>2. /\ heap' = IF h = nil THEN heap ELSE [heap EXCEPT ![h.array] = SubSeq(@, 1, h.off) \o done.array]
      /\ slices' = IF done.panic THEN slices ELSE Append(slices, k)
  BY DEF RemoveCall, Room
<1>3. CallRight'
  <2>1. b = Room(h)
    OBVIOUS
  <2> HIDE DEF b
  <2> QED BY <1>1, <2>1, RemoveSteps
<1> HIDE DEF b
<1>4. /\ done.array \in Seq(Elems) /\ Len(done.array) = Len(b) /\ done.len \in 0 .. h.len
      /\ done.panic \in BOOLEAN
  <2> DEFINE n == h.len
  <2>1. n \in 0 .. Len(b) /\ done = RemoveLoop(b, n, v)
    BY <1>1
  <2> HIDE DEF done, n
  <2>2. /\ done.array \in Seq(Elems) /\ Len(done.array) = Len(b) /\ done.len \in 0 .. n
        /\ done.panic \in BOOLEAN
    BY <1>1, <2>1, RemoveFits
  <2> QED BY <2>2 DEF n
<1> HIDE DEF done
<1>5. /\ heap' \in Seq(Seq(Elems)) /\ Len(heap') = Len(heap)
      /\ \A a \in 1 .. Len(heap) : Len(heap'[a]) = Len(heap[a])
  <2>1. CASE h = nil
    BY <1>0, <1>2, <2>1
  <2>2. CASE h # nil
    <3>1. h.array \in 1 .. Len(heap) /\ h.off + h.cap = Len(heap[h.array])
      BY <2>2 DEF Within
    <3> DEFINE a == heap[h.array]   n == SubSeq(a, 1, h.off) \o done.array
    <3>2. a \in Seq(Elems)
      BY <1>0, <3>1, ElementOfSeq
    <3>3. heap' = [heap EXCEPT ![h.array] = n]
      BY <1>2, <2>2
    <3>4. n \in Seq(Elems) /\ Len(n) = Len(a)
      <4> DEFINE o == h.off   d == done.array
      <4> HIDE DEF a
      <4>1. o \in 0 .. Len(a) /\ d \in Seq(Elems) /\ o + Len(d) = Len(a)
        BY <1>0, <1>1, <1>4, <2>2, <3>1 DEF a
      <4> HIDE DEF o, d
      <4>2. SubSeq(a, 1, o) \o d \in Seq(Elems) /\ Len(SubSeq(a, 1, o) \o d) = Len(a)
        BY <3>2, <4>1, Rejoined
      <4> QED BY <4>2 DEF o, d
    <3> HIDE DEF n
    <3>5. /\ heap' \in Seq(Seq(Elems)) /\ Len(heap') = Len(heap)
          /\ \A i \in 1 .. Len(heap) : heap'[i] = IF i = h.array THEN n ELSE heap[i]
      <4> DEFINE S == Seq(Elems)   i == h.array
      <4>1. heap \in Seq(S) /\ i \in 1 .. Len(heap) /\ n \in S /\ heap' = [heap EXCEPT ![i] = n]
        BY <1>0, <3>1, <3>3, <3>4
      <4> HIDE DEF S, i
      <4>2. heap' \in Seq(S) /\ Len(heap') = Len(heap)
            /\ \A j \in 1 .. Len(heap) : heap'[j] = IF j = i THEN n ELSE heap[j]
        BY <4>1, ExceptSeq
      <4> QED BY <4>2 DEF S, i
    <3>6. ASSUME NEW i \in 1 .. Len(heap) PROVE Len(heap'[i]) = Len(heap[i])
      BY <3>4, <3>5, Zenon
    <3> QED BY <3>5, <3>6
  <2> QED BY <2>1, <2>2
<1>6. k \in Handles /\ Within(k, heap')
  <2>1. k = [array |-> h.array, off |-> h.off, len |-> done.len, cap |-> h.cap]
    BY DEF Handles
  <2> HIDE DEF k
  <2>2. done.len \in Nat /\ done.len <= h.len
    BY <1>0, <1>4
  <2>3. k \in Handles
    BY <2>1, <2>2 DEF Handles
  <2>4. CASE h = nil
    <3>1. done.len = 0
      BY <2>2, <2>4 DEF nil
    <3>2. k = nil
      BY <2>1, <2>4, <3>1 DEF nil
    <3> QED BY <2>3, <3>2 DEF Within
  <2>5. CASE h # nil
    <3>1. h.array \in 1 .. Len(heap) /\ h.len <= h.cap /\ h.off + h.cap = Len(heap[h.array])
      BY <2>5 DEF Within
    <3>2. k.array = h.array /\ k.off = h.off /\ k.len = done.len /\ k.cap = h.cap
      BY <2>1
    <3>3. Len(heap') = Len(heap) /\ Len(heap'[h.array]) = Len(heap[h.array])
      BY <1>5, <3>1
    <3>4. k.array \in 1 .. Len(heap') /\ k.off + k.cap = Len(heap'[k.array])
      BY <3>1, <3>2, <3>3
    <3>5. k.len <= k.cap
      BY <1>0, <2>2, <3>1, <3>2
    <3> QED BY <2>3, <3>4, <3>5 DEF Within
  <2> QED BY <2>4, <2>5
<1> HIDE DEF k
<1>7. slices' = slices \/ \E j \in Handles : Within(j, heap') /\ slices' = Append(slices, j)
  BY <1>2, <1>6
<1>8. Len(heap) <= Len(heap')
  BY <1>0, <1>5
<1> QED BY <1>3, <1>5, <1>7, <1>8, InvKept

-----------------------------------------------------------------------------

LEMMA InitIs ==
  ASSUME Init
  PROVE  WithinInv /\ CallRight
<1>1. CallRight
  <2>1. last.fn = "none"
    BY DEF Init
  <2> QED BY <2>1 DEF CallRight, SetsAgree, SearchFinds, EndsRejoin, RemovesOne
<1>2. CASE heap = <<>> /\ slices = <<nil>>
  <2>1. nil \in Handles /\ Within(nil, heap)
    BY DEF nil, Handles, Within
  <2>2. heap \in Seq(Seq(Elems))
    BY <1>2, EmptySeq
  <2>3. slices \in Seq(Handles) /\ \A i \in 1 .. Len(slices) : slices[i] = nil
    BY <1>2, <2>1
  <2>4. \A i \in 1 .. Len(slices) : Within(slices[i], heap)
    BY <2>1, <2>3
  <2> QED BY <1>1, <2>2, <2>3, <2>4 DEF WithinInv
<1>3. ASSUME NEW s \in BoundedSeq(Elems, MaxLen), NEW z \in 0 .. 1,
             heap = <<s \o [i \in 1 .. z |-> 0]>>,
             slices = <<[array |-> 1, off |-> 0, len |-> Len(s), cap |-> Len(s) + z]>>
      PROVE  WithinInv
  <2>1. s \in Seq(Elems) /\ Len(s) \in Nat
    <3>1. PICK m \in 0 .. MaxLen : s \in [1 .. m -> Elems]
      BY DEF BoundedSeq, SeqOf
    <3>2. m \in Nat
      BY <3>1, MaxLenAssumption
    <3> QED BY <3>1, <3>2, LenProperties
  <2> DEFINE c == [i \in 1 .. z |-> 0]   a == s \o c   k == [array |-> 1, off |-> 0, len |-> Len(s), cap |-> Len(s) + z]
  <2>2. c \in Seq(Elems) /\ Len(c) = z
    <3>1. z \in Nat /\ \A i \in 1 .. z : 0 \in Elems
      BY ElemsAssumption
    <3> QED BY <3>1
  <2> HIDE DEF c
  <2>3. a \in Seq(Elems) /\ Len(a) = Len(s) + z
    BY <2>1, <2>2, ConcatProperties
  <2>4. heap = <<a>> /\ slices = <<k>>
    BY <1>3 DEF c
  <2> HIDE DEF a
  <2>5. k \in Handles /\ k.array = 1 /\ k.off = 0 /\ k.len = Len(s) /\ k.cap = Len(s) + z
    BY <2>1 DEF Handles
  <2> HIDE DEF k
  <2> DEFINE S == Seq(Elems)
  <2>6. a \in S
    BY <2>3
  <2> HIDE DEF S
  <2>7. heap \in Seq(S) /\ Len(heap) = 1 /\ heap[1] = a
    BY <2>4, <2>6
  <2>8. slices \in Seq(Handles) /\ Len(slices) = 1 /\ slices[1] = k
    BY <2>4, <2>5
  <2>9. Within(k, heap)
    BY <2>1, <2>3, <2>5, <2>7 DEF Within
  <2>10. \A i \in 1 .. Len(slices) : Within(slices[i], heap)
    BY <2>8, <2>9
  <2> QED BY <2>7, <2>8, <2>10 DEF WithinInv, S
<1> QED BY <1>1, <1>2, <1>3, Zenon DEF Init

LEMMA NextIs ==
  ASSUME WithinInv /\ CallRight, [Next]_vars
  PROVE  (WithinInv /\ CallRight)'
<1>1. DOMAIN slices = 1 .. Len(slices)
  BY LenProperties DEF WithinInv
<1>2. CASE Next
  <2>1. PICK i \in DOMAIN slices, j \in DOMAIN slices :
          \/ Copying(slices[i]) \/ SubtractCall(slices[i], slices[j]) \/ RemoveAllCall(slices[i], slices[j])
          \/ Pop(slices[i]) \/ Shift(slices[i])
          \/ \E v \in Elems : RemoveCall(slices[i], v)
          \/ Query(slices[i], slices[j])
    BY <1>2, Zenon DEF Next
  <2> DEFINE h == slices[i]   g == slices[j]
  <2>2. h \in Handles /\ g \in Handles /\ Within(h, heap) /\ Within(g, heap)
    BY <1>1, ElementOfSeq DEF WithinInv
  <2> HIDE DEF h, g
  <2>3. \/ Copying(h) \/ SubtractCall(h, g) \/ RemoveAllCall(h, g) \/ Pop(h) \/ Shift(h)
        \/ (\E v \in Elems : RemoveCall(h, v)) \/ Query(h, g)
    BY <2>1, Zenon DEF h, g
  <2>4. CASE Copying(h)
    BY <2>2, <2>4, CopyingStep
  <2>5. CASE SubtractCall(h, g)
    BY <2>2, <2>5, SubtractStep
  <2>6. CASE RemoveAllCall(h, g)
    BY <2>2, <2>6, RemoveAllStep
  <2>7. CASE Pop(h)
    BY <2>2, <2>7, PopStep
  <2>8. CASE Shift(h)
    BY <2>2, <2>8, ShiftStep
  <2>9. CASE \E v \in Elems : RemoveCall(h, v)
    <3>1. PICK v \in Elems : RemoveCall(h, v)
      BY <2>9
    <3> QED BY <2>2, <3>1, RemoveStep
  <2>10. CASE Query(h, g)
    BY <2>2, <2>10, QueryStep
  <2> QED BY <2>3, <2>4, <2>5, <2>6, <2>7, <2>8, <2>9, <2>10
<1>3. CASE UNCHANGED vars
  BY <1>3, Zenon DEF vars, WithinInv, CallRight, SetsAgree, SearchFinds, EndsRejoin, RemovesOne, Read
<1> QED BY <1>2, <1>3

\* Whatever calls are made one after the other, on slices that share arrays, every
\* function returns what it is for and every slice lies within its array.
THEOREM ResultsRightTheorem == Spec => []ResultsRight
<1>1. Init => WithinInv /\ CallRight
  BY InitIs
<1>2. WithinInv /\ CallRight /\ [Next]_vars => (WithinInv /\ CallRight)'
  BY NextIs
<1>3. WithinInv /\ CallRight => ResultsRight
  BY InvIsTyped DEF ResultsRight, CallRight
<1> QED BY <1>1, <1>2, <1>3, PTL DEF Spec

-----------------------------------------------------------------------------
(* What Remove changes of the slices that share its operand's array.        *)

\* b differs from a only from the first v of a's first n places to the last of them,
\* and has there every element of a but v.
MovesFrom(b, a, n, v) ==
  /\ \A k \in 1 .. Len(a) : b[k] # a[k] => k <= n /\ \E j \in 1 .. k : a[j] = v
  /\ \A k \in 1 .. n : a[k] # v => \E m \in 1 .. n : b[m] = a[k]

LEMMA RemovedMoves ==
  ASSUME NEW E, NEW a \in Seq(E), NEW n \in 0 .. Len(a), NEW v, NEW i \in 1 .. n,
         NEW l \in RemoveStates(a, n, E), MovesFrom(l.array, a, n, v)
  PROVE  MovesFrom(Removed(l, i, v).array, a, n, v)
<1>1. /\ l.array \in [1 .. Len(a) -> E] /\ l.len \in 0 .. n
      /\ Len(a) \in Nat /\ n \in Nat /\ n <= Len(a) /\ i \in Nat /\ i > 0 /\ i <= n
  BY LenProperties DEF RemoveStates
<1>2. CASE l.panic \/ l.array[i] # v
  BY <1>2 DEF Removed
<1>3. CASE ~ (l.panic \/ l.array[i] # v) /\ i > l.len
  <2>1. Removed(l, i, v) = [l EXCEPT !.panic = TRUE]
    BY <1>3 DEF Removed
  <2>2. [l EXCEPT !.panic = TRUE].array = l.array
    BY DEF RemoveStates
  <2> QED BY <2>1, <2>2
<1>4. CASE ~ (l.panic \/ l.array[i] # v) /\ ~ (i > l.len)
  <2> DEFINE c == l.array   m == l.len
             b == [k \in DOMAIN c |-> IF k \in i .. m - 1 THEN c[k + 1] ELSE c[k]]
  <2>1. Removed(l, i, v) = [array |-> b, len |-> m - 1, panic |-> FALSE]
    BY <1>4 DEF Removed
  <2>2. Removed(l, i, v).array = b
    <3> HIDE DEF b, m, c
    <3> QED BY <2>1
  <2>3. /\ c[i] = v /\ i <= m /\ m \in Nat /\ m <= n
        /\ \A k \in 1 .. Len(a) : b[k] = IF k \in i .. m - 1 THEN c[k + 1] ELSE c[k]
    BY <1>1, <1>4
  <2>4. /\ \A k \in 1 .. Len(a) : c[k] # a[k] => k <= n /\ \E j \in 1 .. k : a[j] = v
        /\ \A k \in 1 .. n : a[k] # v => \E j \in 1 .. n : c[j] = a[k]
    BY DEF MovesFrom
  <2> HIDE DEF b, c, m
  <2>5. \E j \in 1 .. i : a[j] = v
    <3>1. i \in 1 .. Len(a) /\ i \in 1 .. i
      BY <1>1
    <3> QED BY <2>3, <2>4, <3>1
  <2>6. ASSUME NEW k \in 1 .. Len(a), b[k] # a[k] PROVE k <= n /\ \E j \in 1 .. k : a[j] = v
    <3>1. CASE k \in i .. m - 1
      <4>1. k <= n /\ \A j \in 1 .. i : j \in 1 .. k
        BY <1>1, <2>3, <3>1
      <4> QED BY <2>5, <4>1
    <3>2. CASE k \notin i .. m - 1
      BY <2>3, <2>4, <2>6, <3>2
    <3> QED BY <3>1, <3>2
  <2>7. ASSUME NEW k \in 1 .. n, a[k] # v PROVE \E j \in 1 .. n : b[j] = a[k]
    <3>1. PICK j \in 1 .. n : c[j] = a[k]
      BY <2>4, <2>7
    <3>2. CASE j \in i + 1 .. m
      <4>1. j - 1 \in i .. m - 1 /\ j - 1 \in 1 .. n /\ j - 1 \in 1 .. Len(a) /\ (j - 1) + 1 = j
        BY <1>1, <2>3, <3>2
      <4>2. b[j - 1] = c[j]
        BY <2>3, <4>1
      <4> QED BY <3>1, <4>1, <4>2
    <3>3. CASE j \notin i + 1 .. m
      <4>1. j # i
        BY <2>3, <2>7, <3>1
      <4>2. j \notin i .. m - 1 /\ j \in 1 .. Len(a)
        BY <1>1, <2>3, <3>3, <4>1
      <4> QED BY <2>3, <3>1, <4>2
    <3> QED BY <3>2, <3>3
  <2> QED BY <2>2, <2>6, <2>7 DEF MovesFrom
<1> QED BY <1>2, <1>3, <1>4

LEMMA RemoveMoves ==
  ASSUME NEW E, NEW a \in Seq(E), NEW n \in 0 .. Len(a), NEW v
  PROVE  MovesFrom(RemoveLoop(a, n, v).array, a, n, v)
<1>1. PICK f : RemoveRounds(f, a, n, v, E)
  BY RemoveRuns, Zenon
<1> DEFINE S == RemoveStates(a, n, E)
           D == {l \in S : MovesFrom(l.array, a, n, v)}
<1>2. n \in Nat /\ n \in 0 .. n /\ 0 \in 0 .. n
  BY LenProperties
<1>3. \A i \in 0 .. n : f[i] \in S
  BY <1>1 DEF RemoveRounds
<1>4. f[0].array = a
  BY <1>1 DEF RemoveRounds
<1>5. MovesFrom(a, a, n, v)
  BY DEF MovesFrom
<1>6. f[0] \in D
  <2> HIDE DEF S
  <2> QED BY <1>2, <1>3, <1>4, <1>5
<1>7. ASSUME NEW i \in 1 .. n, f[i - 1] \in D PROVE f[i] \in D
  <2>1. f[i] = Removed(f[i - 1], i, v)
    BY <1>1 DEF RemoveRounds
  <2>2. i \in 0 .. n
    BY <1>2
  <2>3. f[i] \in S
    BY <1>3, <2>2
  <2>4. f[i - 1] \in S /\ MovesFrom(f[i - 1].array, a, n, v)
    BY <1>7
  <2>5. MovesFrom(f[i].array, a, n, v)
    BY <2>1, <2>4, RemovedMoves
  <2> HIDE DEF S
  <2> QED BY <2>3, <2>5
<1> HIDE DEF D
<1>8. f[n] \in D
  BY <1>2, <1>6, <1>7, LoopStays
<1>9. RemoveLoop(a, n, v) = f[n]
  BY <1>1 DEF RemoveRounds
<1> QED BY <1>8, <1>9 DEF D

\* The elements of a part of an array.
LEMMA PartIs ==
  ASSUME NEW a \in Seq(Elems), NEW o \in Nat, NEW l \in Nat, o + l <= Len(a),
         NEW r, r = SubSeq(a, o + 1, o + l)
  PROVE  r \in Seq(Elems) /\ Len(r) = l /\ \A k \in 1 .. l : r[k] = a[o + k]
<1> DEFINE m == o + 1   n == o + l
<1>1. Len(a) \in Nat /\ m \in Int /\ n \in Int
  BY LenProperties
<1>2. \A i \in m .. n : i \in 1 .. Len(a)
  BY <1>1
<1>3. \A i \in m .. n : a[i] \in Elems
  BY <1>2, ElementOfSeq
<1>4. n - m + 1 = l /\ (m <= n <=> l > 0) /\ \A k \in 1 .. l : m + k - 1 = o + k
  OBVIOUS
<1> DEFINE q == SubSeq(a, m, n)
<1>5. r = q
  OBVIOUS
<1> HIDE DEF m, n
<1>6. /\ q \in Seq(Elems) /\ Len(q) = (IF m <= n THEN n - m + 1 ELSE 0)
      /\ \A i \in 1 .. n - m + 1 : q[i] = a[m + i - 1]
  BY <1>1, <1>3, SubSeqProperties
<1> HIDE DEF q
<1> QED BY <1>4, <1>5, <1>6

\* The array B after Remove of v from the n places of A that follow the o-th.
Moved(A, B, o, n, v) ==
  /\ Len(B) = Len(A)
  /\ \A p \in 1 .. Len(A) : B[p] # A[p] => /\ p \in o + 1 .. o + n
                                           /\ \E j \in 1 .. p - o : A[o + j] = v
  /\ \A p \in o + 1 .. o + n : A[p] # v => \E q \in o + 1 .. o + n : B[q] = A[p]

LEMMA Joined ==
  ASSUME NEW E, NEW c \in Seq(E), NEW d \in Seq(E)
  PROVE  /\ Len(c \o d) = Len(c) + Len(d)
         /\ \A p \in 1 .. Len(c) + Len(d) : (c \o d)[p] = IF p <= Len(c) THEN c[p] ELSE d[p - Len(c)]
BY ConcatProperties

\* Remove moves elements of the first n places of the room b, which follows the o-th
\* place of A.
LEMMA MovedIs ==
  ASSUME NEW A \in Seq(Elems), NEW o \in 0 .. Len(A), NEW b \in Seq(Elems), o + Len(b) = Len(A),
         \A k \in 1 .. Len(b) : b[k] = A[o + k],
         NEW n \in 0 .. Len(b), NEW v, NEW d \in Seq(Elems), Len(d) = Len(b), MovesFrom(d, b, n, v)
  PROVE  Moved(A, SubSeq(A, 1, o) \o d, o, n, v)
<1>0. Len(A) \in Nat /\ Len(b) \in Nat /\ o \in Nat /\ n \in Nat /\ n <= Len(b)
  BY LenProperties
<1> DEFINE c == SubSeq(A, 1, o)   B == c \o d
<1>1. c \in Seq(Elems) /\ Len(c) = o /\ \A k \in 1 .. o : c[k] = A[k]
  <2>1. 0 \in Nat /\ 0 + o <= Len(A) /\ c = SubSeq(A, 0 + 1, 0 + o) /\ \A k \in 1 .. o : 0 + k = k
    BY <1>0
  <2> HIDE DEF c
  <2>2. c \in Seq(Elems) /\ Len(c) = o /\ \A k \in 1 .. o : c[k] = A[0 + k]
    BY <1>0, <2>1, PartIs
  <2> QED BY <2>1, <2>2
<1> HIDE DEF c
<1>2. /\ Len(B) = Len(A)
      /\ \A p \in 1 .. Len(A) : B[p] = IF p <= o THEN A[p] ELSE d[p - o]
  <2>1. /\ Len(c \o d) = Len(c) + Len(d)
        /\ \A p \in 1 .. Len(c) + Len(d) : (c \o d)[p] = IF p <= Len(c) THEN c[p] ELSE d[p - Len(c)]
    BY <1>1, Joined
  <2> HIDE DEF B
  <2>2. \A p \in 1 .. Len(A) : p <= o => c[p] = A[p]
    BY <1>0, <1>1
  <2> QED BY <1>0, <1>1, <2>1, <2>2 DEF B
<1> HIDE DEF B
<1>3. /\ \A k \in 1 .. Len(b) : d[k] # b[k] => k <= n /\ \E j \in 1 .. k : b[j] = v
      /\ \A k \in 1 .. n : b[k] # v => \E m \in 1 .. n : d[m] = b[k]
  BY DEF MovesFrom
<1>4. ASSUME NEW p \in 1 .. Len(A), B[p] # A[p]
      PROVE  p \in o + 1 .. o + n /\ \E j \in 1 .. p - o : A[o + j] = v
  <2> DEFINE k == p - o
  <2>1. ~ (p <= o)
    BY <1>2, <1>4
  <2>2. k \in 1 .. Len(b) /\ p = o + k
    BY <1>0, <2>1
  <2>3. B[p] = d[k] /\ A[p] = b[k]
    BY <1>2, <2>1, <2>2
  <2> HIDE DEF k
  <2>4. k <= n /\ \E j \in 1 .. k : b[j] = v
    BY <1>3, <1>4, <2>2, <2>3
  <2>5. PICK j \in 1 .. k : b[j] = v
    BY <2>4
  <2>6. j \in 1 .. Len(b)
    BY <1>0, <2>2
  <2>7. A[o + j] = v
    BY <2>5, <2>6
  <2>8. p \in o + 1 .. o + n
    <3>1. k \in Int /\ 1 <= k /\ k <= n
      BY <2>2, <2>4
    <3> QED BY <1>0, <2>2, <3>1
  <2> QED BY <2>7, <2>8 DEF k
<1>5. ASSUME NEW p \in o + 1 .. o + n, A[p] # v PROVE \E q \in o + 1 .. o + n : B[q] = A[p]
  <2> DEFINE k == p - o
  <2>1. k \in 1 .. n /\ k \in 1 .. Len(b) /\ p = o + k
    BY <1>0
  <2> HIDE DEF k
  <2>2. b[k] = A[p]
    BY <2>1
  <2>3. PICK m \in 1 .. n : d[m] = b[k]
    BY <1>3, <1>5, <2>1, <2>2
  <2>4. o + m \in o + 1 .. o + n /\ o + m \in 1 .. Len(A) /\ ~ (o + m <= o) /\ (o + m) - o = m
    <3>1. m \in Int /\ 1 <= m /\ m <= n /\ n <= Len(b) /\ o + Len(b) = Len(A)
      BY <1>0
    <3> QED BY <1>0, <3>1
  <2>5. B[o + m] = d[m]
    BY <1>2, <2>4
  <2> QED BY <2>2, <2>3, <2>4, <2>5
<1>6. Moved(A, B, o, n, v)
  <2>1. Len(B) = Len(A)
    BY <1>2
  <2> QED BY <1>4, <1>5, <2>1, Zenon DEF Moved
<1> QED BY <1>6 DEF B, c

\* What Remove leaves in the array of its operand, and in the others.
LEMMA RemoveCallMoves ==
  ASSUME WithinInv, NEW h \in Handles, Within(h, heap), NEW v, RemoveCall(h, v), h # nil
  PROVE  /\ \A i \in 1 .. Len(heap) : i # h.array => heap'[i] = heap[i]
         /\ heap'[h.array] \in Seq(Elems)
         /\ Moved(heap[h.array], heap'[h.array], h.off, h.len, v)
<1> DEFINE b == Room(h)   A == heap[h.array]   o == h.off   n == h.len
           done == RemoveLoop(b, n, v)   B == SubSeq(A, 1, o) \o done.array
<1>1. heap' = [heap EXCEPT ![h.array] = B]
  BY Zenon DEF RemoveCall, Room
<1>2. /\ heap \in Seq(Seq(Elems)) /\ h.array \in 1 .. Len(heap) /\ o + h.cap = Len(A)
      /\ o \in Nat /\ n \in Nat /\ h.cap \in Nat
  BY DEF WithinInv, Within, Handles
<1>3. A \in Seq(Elems)
  BY <1>2, ElementOfSeq
<1> HIDE DEF b
<1>4. b \in Seq(Elems) /\ Len(b) = h.cap /\ \A k \in 1 .. h.cap : b[k] = heap[h.array][h.off + k]
  BY <1>2, RoomIs DEF b
<1>5. h.len \in 0 .. Len(b)
  BY <1>2, RoomBegins DEF b
<1> HIDE DEF A, o, n
<1>6. n \in 0 .. Len(b) /\ (\A k \in 1 .. Len(b) : b[k] = A[o + k]) /\ o + Len(b) = Len(A)
  BY <1>2, <1>4, <1>5 DEF A, o, n
<1>7. o \in 0 .. Len(A)
  BY <1>2, <1>3, LenProperties
<1>8. done.array \in Seq(Elems) /\ Len(done.array) = Len(b) /\ MovesFrom(done.array, b, n, v)
  <2>1. MovesFrom(RemoveLoop(b, n, v).array, b, n, v)
    BY <1>4, <1>6, RemoveMoves
  <2>2. done = RemoveLoop(b, n, v)
    OBVIOUS
  <2> HIDE DEF done
  <2>3. done.array \in Seq(Elems) /\ Len(done.array) = Len(b)
    BY <1>4, <1>6, <2>2, RemoveFits
  <2> QED BY <2>1, <2>2, <2>3
<1> HIDE DEF done
<1>9. Moved(A, B, o, n, v)
  BY <1>3, <1>4, <1>6, <1>7, <1>8, MovedIs
<1>10. B \in Seq(Elems)
  <2> DEFINE d == done.array
  <2>1. d \in Seq(Elems) /\ o + Len(d) = Len(A)
    BY <1>6, <1>8
  <2> HIDE DEF d
  <2>2. SubSeq(A, 1, o) \o d \in Seq(Elems)
    BY <1>3, <1>7, <2>1, Rejoined
  <2> QED BY <2>2 DEF d
<1> HIDE DEF B
<1>11. heap'[h.array] = B /\ \A i \in 1 .. Len(heap) : i # h.array => heap'[i] = heap[i]
  BY <1>1, <1>2, LenProperties
<1> QED BY <1>9, <1>10, <1>11 DEF A, o, n

\* What a slice of the array A reads in the array B.
ReadsInside(r, t, x, l, s, o, n, v) ==
  /\ \A k \in 1 .. l : t[k] # r[k] =>
       x + k \in {o + j : j \in {j \in 1 .. n : \E i \in 1 .. j : s[i] = v}}
  /\ x <= o /\ o + n <= x + l => ToSet(r) \ {v} \subseteq ToSet(t)

LEMMA ReadsMoved ==
  ASSUME NEW A \in Seq(Elems), NEW B \in Seq(Elems), NEW o \in Nat, NEW n \in Nat, NEW v,
         Moved(A, B, o, n, v), NEW s, \A j \in 1 .. n : s[j] = A[o + j],
         NEW x \in Nat, NEW l \in Nat, x + l <= Len(A),
         NEW r \in Seq(Elems), Len(r) = l, \A k \in 1 .. l : r[k] = A[x + k],
         NEW t \in Seq(Elems), Len(t) = l, \A k \in 1 .. l : t[k] = B[x + k]
  PROVE  ReadsInside(r, t, x, l, s, o, n, v)
<1>0. Len(A) \in Nat /\ \A k \in 1 .. l : x + k \in 1 .. Len(A)
  BY LenProperties
<1>1. /\ \A p \in 1 .. Len(A) : B[p] # A[p] => /\ p \in o + 1 .. o + n
                                               /\ \E j \in 1 .. p - o : A[o + j] = v
      /\ \A p \in o + 1 .. o + n : A[p] # v => \E q \in o + 1 .. o + n : B[q] = A[p]
  BY DEF Moved
<1>2. ASSUME NEW k \in 1 .. l, t[k] # r[k]
      PROVE  x + k \in {o + j : j \in {j \in 1 .. n : \E i \in 1 .. j : s[i] = v}}
  <2> DEFINE p == x + k   j == p - o
  <2>1. p \in 1 .. Len(A) /\ B[p] # A[p]
    BY <1>0, <1>2
  <2> HIDE DEF p
  <2>2. p \in o + 1 .. o + n /\ \E i \in 1 .. j : A[o + i] = v
    BY <1>1, <2>1
  <2>3. j \in 1 .. n /\ p = o + j
    BY <2>2
  <2> HIDE DEF j
  <2>4. PICK i \in 1 .. j : A[o + i] = v
    BY <2>2
  <2>5. i \in 1 .. n
    BY <2>3
  <2>6. s[i] = v
    BY <2>4, <2>5
  <2> QED BY <2>3, <2>6 DEF p
<1>3. ASSUME x <= o, o + n <= x + l, NEW e \in ToSet(r) \ {v} PROVE e \in ToSet(t)
  <2>1. (DOMAIN r) = 1 .. l /\ (DOMAIN t) = 1 .. l
    BY LenProperties
  <2>2. PICK k \in 1 .. l : e = r[k]
    BY <1>3, <2>1 DEF ToSet
  <2> DEFINE p == x + k
  <2>3. p \in 1 .. Len(A) /\ A[p] = e
    BY <1>0, <2>2
  <2>4. t[k] = B[p]
    OBVIOUS
  <2> HIDE DEF p
  <2>5. CASE p \in o + 1 .. o + n
    <3>1. PICK q \in o + 1 .. o + n : B[q] = A[p]
      BY <1>1, <1>3, <2>3, <2>5
    <3>2. q - x \in 1 .. l /\ x + (q - x) = q
      BY <1>3
    <3>3. t[q - x] = e
      BY <2>3, <3>1, <3>2
    <3> QED BY <2>1, <3>2, <3>3 DEF ToSet
  <2>6. CASE p \notin o + 1 .. o + n
    <3>1. B[p] = A[p]
      BY <1>1, <2>3, <2>6
    <3>2. t[k] = e
      BY <2>3, <2>4, <3>1
    <3> QED BY <2>1, <3>2 DEF ToSet
  <2> QED BY <2>5, <2>6
<1> QED BY <1>2, <1>3 DEF ReadsInside

LEMMA RemoveChanges ==
  ASSUME WithinInv, NEW h \in Handles, Within(h, heap), NEW v, RemoveCall(h, v),
         NEW g \in Handles, Within(g, heap), Read(g)' # Read(g)
  PROVE  InsideOnly(g, h, v)
<1>1. h # nil /\ g # nil
  <2>1. ASSUME h = nil PROVE heap' = heap
    BY <2>1, Zenon DEF RemoveCall
  <2>2. heap' # heap
    BY Zenon DEF Read
  <2>3. ASSUME g = nil PROVE g.array = 0
    BY <2>3 DEF nil
  <2>4. ASSUME g.array = 0 PROVE Read(g)' = <<>> /\ Read(g) = <<>>
    BY <2>4, Zenon DEF Read
  <2> QED BY <2>1, <2>2, <2>3, <2>4
<1>2. /\ g.array \in 1 .. Len(heap) /\ g.len <= g.cap /\ g.off + g.cap = Len(heap[g.array])
      /\ g.off \in Nat /\ g.len \in Nat /\ g.cap \in Nat /\ h.off \in Nat /\ h.len \in Nat
      /\ heap \in Seq(Seq(Elems))
  BY <1>1 DEF Within, WithinInv, Handles
<1>3. /\ \A i \in 1 .. Len(heap) : i # h.array => heap'[i] = heap[i]
      /\ heap'[h.array] \in Seq(Elems)
      /\ Moved(heap[h.array], heap'[h.array], h.off, h.len, v)
  BY <1>1, RemoveCallMoves
<1>4. g.array = h.array
  <2>1. ASSUME heap'[g.array] = heap[g.array] PROVE Read(g)' = Read(g)
    BY <2>1, Zenon DEF Read
  <2> QED BY <1>2, <1>3, <2>1
<1> DEFINE A == heap[h.array]   B == heap'[h.array]   x == g.off   l == g.len   o == h.off   n == h.len
           s == Read(h)   r == Read(g)   t == SubSeq(B, x + 1, x + l)
<1>5. t = Read(g)'
  <2>1. g.array # 0
    BY <1>2
  <2> QED BY <1>4, <2>1, Zenon DEF Read
<1>6. A \in Seq(Elems) /\ Len(B) = Len(A)
  <2>1. A \in Seq(Elems)
    BY <1>2, <1>4, ElementOfSeq
  <2> QED BY <1>3, <2>1 DEF Moved
<1>7. r \in Seq(Elems) /\ Len(r) = l /\ \A k \in 1 .. l : r[k] = A[x + k]
  BY <1>2, <1>4, ReadIs
<1>8. \A j \in 1 .. n : s[j] = A[o + j]
  BY <1>2, ReadIs
<1>9. x + l <= Len(A) /\ x \in Nat /\ l \in Nat /\ o \in Nat /\ n \in Nat /\ B \in Seq(Elems)
  <2>1. x + l <= x + g.cap
    <3> DEFINE c == g.cap
    <3>1. x \in Nat /\ l \in Nat /\ c \in Nat /\ l <= c
      BY <1>2
    <3> HIDE DEF x, l, c
    <3>2. x + l <= x + c
      BY <3>1
    <3> QED BY <3>2 DEF c
  <2> QED BY <1>2, <1>3, <1>4, <2>1
<1>m. Moved(A, B, o, n, v)
  BY <1>3
<1> HIDE DEF A, B, x, l, o, n, s, r
<1>10. t \in Seq(Elems) /\ Len(t) = l /\ \A k \in 1 .. l : t[k] = B[x + k]
  BY <1>6, <1>9, PartIs
<1> HIDE DEF t
<1>11. ReadsInside(r, t, x, l, s, o, n, v)
  BY <1>m, <1>6, <1>7, <1>8, <1>9, <1>10, ReadsMoved
<1>12. /\ \A k \in 1 .. g.len : Read(g)'[k] # Read(g)[k] => g.off + k \in FromFirst(h, v)
       /\ Covers(g, h) => ToSet(Read(g)) \ {v} \subseteq ToSet(Read(g)')
  BY <1>5, <1>11, Zenon DEF x, l, o, n, s, r, FromFirst, Covers, ReadsInside
<1> QED BY <1>4, <1>12, Zenon DEF InsideOnly

\* The slices the caller holds stay as they are; calls add one.
LEMMA HandlesStay ==
  ASSUME SlicesInv, Next, NEW x \in 1 .. Len(slices)
  PROVE  slices'[x] = slices[x]
<1>1. slices' = slices \/ \E k : slices' = Append(slices, k)
  <2>1. PICK i \in DOMAIN slices, j \in DOMAIN slices :
          \/ Copying(slices[i]) \/ SubtractCall(slices[i], slices[j]) \/ RemoveAllCall(slices[i], slices[j])
          \/ Pop(slices[i]) \/ Shift(slices[i])
          \/ \E v \in Elems : RemoveCall(slices[i], v)
          \/ Query(slices[i], slices[j])
    BY Zenon DEF Next
  <2> DEFINE h == slices[i]   g == slices[j]
  <2> HIDE DEF h, g
  <2>2. CASE Copying(h)
    <3>1. \E fn, s, t, v, r : \E none \in BOOLEAN : Returns(fn, s, t, v, r, none)
      BY <2>2, Zenon DEF Copying
    <3> QED BY <3>1, Zenon DEF Returns
  <2>3. CASE SubtractCall(h, g)
    BY <2>3, Zenon DEF SubtractCall, Returns
  <2>4. CASE RemoveAllCall(h, g)
    BY <2>4, Zenon DEF RemoveAllCall, Returns
  <2>5. CASE Pop(h) \/ Shift(h)
    BY <2>5, Zenon DEF Pop, Shift
  <2>6. CASE \E v \in Elems : RemoveCall(h, v)
    <3>1. PICK v : RemoveCall(h, v)
      BY <2>6
    <3>2. \E c, k : slices' = IF c THEN slices ELSE Append(slices, k)
      BY <3>1, Zenon DEF RemoveCall
    <3> QED BY <3>2, Zenon
  <2>7. CASE Query(h, g)
    BY <2>7, Zenon DEF Query
  <2> QED BY <2>1, <2>2, <2>3, <2>4, <2>5, <2>6, <2>7, Zenon DEF h, g
<1>2. ASSUME NEW k PROVE Append(slices, k)[x] = slices[x]
  BY AppendAny DEF SlicesInv
<1> QED BY <1>1, <1>2

LEMMA ChangedStep ==
  ASSUME SlicesInv, WithinInv, Next, NEW g \in ToSet(slices), Read(g)' # Read(g)
  PROVE  /\ last'.fn = "Remove"
         /\ \E h \in ToSet(slices) : last'.s = Read(h) /\ InsideOnly(g, h, last'.v)
<1>1. DOMAIN slices = 1 .. Len(slices)
  BY LenProperties DEF WithinInv
<1>2. \A h \in ToSet(slices) : h \in Handles /\ Within(h, heap)
  BY <1>1, ElementOfSeq DEF WithinInv, ToSet
<1>3. PICK x \in DOMAIN slices : g = slices[x]
  BY DEF ToSet
<1>4. slices'[x] = slices[x]
  BY <1>1, <1>3, HandlesStay
<1>5. Read(slices[x])' # Read(slices[x])
  BY <1>3, <1>4 DEF Read
<1>6. PICK i \in DOMAIN slices : \E v \in Elems : RemoveCall(slices[i], v)
  BY <1>5, SlicesStep
<1> DEFINE h == slices[i]
<1>7. h \in ToSet(slices)
  BY DEF ToSet
<1> HIDE DEF h
<1>8. PICK v \in Elems : RemoveCall(h, v)
  BY <1>6 DEF h
<1>9. last'.fn = "Remove" /\ last'.s = Read(h) /\ last'.v = v
  BY <1>8 DEF RemoveCall, Called
<1>10. InsideOnly(g, h, v)
  BY <1>2, <1>7, <1>8, RemoveChanges
<1> QED BY <1>7, <1>9, <1>10

\* ChangedInside: for any elements, lengths and number of calls, a slice of the caller
\* changes by nothing but Remove, and then only where Remove moved elements of an
\* operand in the same array.
THEOREM ChangedInsideTheorem == Spec => ChangedInside
<1>1. Init => SlicesInv /\ WithinInv /\ CallRight
  BY SlicesInit, InitIs
<1>2. SlicesInv /\ WithinInv /\ CallRight /\ [Next]_vars => (SlicesInv /\ WithinInv /\ CallRight)'
  BY SlicesStep, NextIs
<1>3. SlicesInv /\ WithinInv /\ CallRight /\ [Next]_vars
        => [\A g \in ToSet(slices) : Read(g)' # Read(g) =>
              /\ last'.fn = "Remove"
              /\ \E h \in ToSet(slices) : last'.s = Read(h) /\ InsideOnly(g, h, last'.v)]_vars
  BY ChangedStep
<1> QED BY <1>1, <1>2, <1>3, PTL DEF Spec, ChangedInside

-----------------------------------------------------------------------------
(* Times.                                                                  *)

LEMMA SecondsIs ==
  /\ DOMAIN Seconds = {"s", "m", "h", "d", "M"}
  /\ \A u \in DOMAIN Seconds : Seconds[u] \in Nat \ {0}
<1>1. DOMAIN Seconds = {"s", "m", "h", "d", "M"}
  BY DEF Seconds
<1>2. /\ Seconds["s"] = 1 /\ Seconds["m"] = 60 /\ Seconds["h"] = 3600
      /\ Seconds["d"] = 86400 /\ Seconds["M"] = 2629746
  BY DEF Seconds
<1> QED BY <1>1, <1>2

\* What fits the word of a count is stored as it is.
LEMMA StoredIs ==
  ASSUME NEW n \in Nat, NEW unit, unit \in {"d", "M"} => n < RepMax
  PROVE  Stored(n, unit) = n
<1>1. CASE unit \notin {"d", "M"}
  BY <1>1 DEF Stored
<1>2. CASE unit \in {"d", "M"}
  <2> DEFINE m == 2 * RepMax  k == n + RepMax
  <2>1. RepMax \in Nat /\ m \in Nat \ {0} /\ k \in 0 .. m - 1
    BY <1>2, UnitAssumption
  <2>2. k % m = k
    <3> HIDE DEF m, k
    <3> QED BY <2>1, ModOfSmall
  <2>3. Stored(n, unit) = (k % m) - RepMax
    BY <1>2 DEF Stored
  <2> QED BY <2>1, <2>2, <2>3
<1> QED BY <1>1, <1>2

LEMMA ConvertIs ==
  ASSUME NEW n \in Nat, NEW from \in DOMAIN Seconds, NEW to \in DOMAIN Seconds,
         from \in {"d", "M"} => n < RepMax,
         to \in {"d", "M"} => n * Seconds[from] < RepMax * Seconds[to]
  PROVE  /\ duration_convert(n, from, to) * Seconds[to] <= n * Seconds[from]
         /\ n * Seconds[from] < (duration_convert(n, from, to) + 1) * Seconds[to]
<1> DEFINE b == Seconds[to]  length == n * Seconds[from]  q == length \div b
<1>1. b \in Nat \ {0} /\ Seconds[from] \in Nat /\ length \in Nat
  BY SecondsIs
<1>2. Stored(n, from) = n
  BY StoredIs
<1>3. duration_convert(n, from, to) = Stored(Quot(length, b), to)
  BY <1>2 DEF duration_convert
<1> HIDE DEF b, length
<1>4. Quot(length, b) = q
  BY <1>1 DEF Quot
<1>5. q \in Nat /\ q * b <= length /\ length < (q + 1) * b
  <2>1. q \in Nat
    BY <1>1, Division
  <2> HIDE DEF q
  <2>2. q * b <= length /\ length < q * b + b
    BY <1>1, <2>1, OnPage DEF q
  <2>3. (q + 1) * b = q * b + b
    BY <1>1, <2>1, Product
  <2> QED BY <2>1, <2>2, <2>3
<1> HIDE DEF q
<1>6. ASSUME to \in {"d", "M"} PROVE q < RepMax
  <2>1. RepMax \in Nat /\ length < RepMax * b
    BY <1>6, UnitAssumption DEF b, length
  <2>2. CASE RepMax <= q
    <3>1. RepMax * b <= q * b /\ RepMax * b \in Nat /\ q * b \in Nat
      BY <1>1, <1>5, <2>1, <2>2, Product
    <3> QED BY <1>1, <1>5, <2>1, <3>1
  <2> QED BY <1>5, <2>1, <2>2
<1>7. Stored(q, to) = q
  BY <1>5, <1>6, StoredIs
<1> QED BY <1>3, <1>4, <1>5, <1>7 DEF b, length

LEMMA AmountIs ==
  ASSUME NEW n \in Nat, NEW unit \in DOMAIN Seconds \cup {"ms", "other"}, NEW to \in DOMAIN Seconds,
         call = [fn |-> "unit", n |-> n, unit |-> unit, to |-> to, result |-> ParseTimeUnitTo(n, unit, to)]
  PROVE  AmountKept
<1>1. /\ call.fn = "unit" /\ call.n = n /\ call.unit = unit /\ call.to = to
      /\ call.result = ParseTimeUnitTo(n, unit, to)
  OBVIOUS
<1> DEFINE Fits(length) == /\ unit \in {"d", "M"} => n < RepMax
                           /\ to \in {"d", "M"} => length < RepMax * Seconds[to]
           Kept(length) == /\ call.result * Seconds[to] <= length
                           /\ length < (call.result + 1) * Seconds[to]
           length == CASE unit = "ms" -> n \div 1000
                       [] unit = "other" -> 0
                       [] OTHER -> n * Seconds[unit]
<1>2. AmountKept <=> (Fits(length) => Kept(length))
  BY <1>1 DEF AmountKept
<1>3. "ms" \notin DOMAIN Seconds /\ "other" \notin DOMAIN Seconds /\ "s" \in DOMAIN Seconds /\ Seconds["s"] = 1
  BY SecondsIs DEF Seconds
<1>4. CASE unit \in DOMAIN Seconds
  <2>1. length = n * Seconds[unit] /\ call.result = duration_convert(n, unit, to)
    BY <1>1, <1>3, <1>4 DEF ParseTimeUnitTo
  <2> QED BY <1>2, <1>4, <2>1, ConvertIs
<1>5. CASE unit = "ms"
  <2> DEFINE k == n \div 1000
  <2>1. k \in Nat /\ k * 1 = k
    OBVIOUS
  <2>2. length = k /\ call.result = duration_convert(k, "s", to)
    BY <1>1, <1>3, <1>5 DEF ParseTimeUnitTo
  <2> HIDE DEF k
  <2>3. "s" \notin {"d", "M"}
    OBVIOUS
  <2> QED BY <1>2, <1>3, <2>1, <2>2, <2>3, ConvertIs
<1>6. CASE unit = "other"
  <2>1. length = 0 /\ call.result = 0
    BY <1>1, <1>3, <1>6 DEF ParseTimeUnitTo
  <2>2. Seconds[to] \in Nat \ {0}
    BY SecondsIs
  <2>3. Kept(0)
    BY <2>1, <2>2
  <2> QED BY <1>2, <2>1, <2>3
<1> QED BY <1>4, <1>5, <1>6

-----------------------------------------------------------------------------
LEMMA QuotRem ==
  ASSUME NEW t \in Int, NEW b \in Nat \ {0}
  PROVE  /\ Quot(t, b) \in Int /\ Rem(t, b) \in Int /\ t = Quot(t, b) * b + Rem(t, b)
         /\ t >= 0 => Quot(t, b) \in Nat /\ Rem(t, b) \in 0 .. b - 1
         /\ t < 0 => /\ -Rem(t, b) \in 0 .. b - 1
                     /\ t % b = 0 <=> Rem(t, b) = 0
<1>1. CASE t >= 0
  <2> DEFINE q == t \div b
  <2>0. t \in Nat
    BY <1>1
  <2>1. q \in Nat /\ t % b \in 0 .. b - 1 /\ t = (q * b) + (t % b)
    BY <2>0, Division, Zenon
  <2>2. Quot(t, b) = q /\ Rem(t, b) = t - b * q
    BY <1>1 DEF Quot, Rem
  <2> HIDE DEF q
  <2>3. b * q = q * b /\ q * b \in Nat
    BY <2>1
  <2> QED BY <1>1, <2>1, <2>2, <2>3
<1>2. CASE t < 0
  <2> DEFINE k == -t  q == k \div b  r == k % b  p == t \div b  m == t % b
  <2>1. k \in Nat /\ t = -k
    BY <1>2
  <2>2. q \in Nat /\ r \in 0 .. b - 1 /\ k = (q * b) + r
    <3> HIDE DEF k
    <3> QED BY <2>1, Division, Zenon
  <2>3. Quot(t, b) = -q /\ Rem(t, b) = t - b * (-q)
    BY <1>2 DEF Quot, Rem
  <2>4. p \in Int /\ m \in 0 .. b - 1 /\ t = (p * b) + m
    OBVIOUS
  <2> HIDE DEF k, q, r, p, m
  <2>5. b * (-q) = -(q * b) /\ (-q) * b = -(q * b) /\ q * b \in Nat
    BY <2>2
  <2>6. Rem(t, b) = -r
    BY <2>1, <2>2, <2>3, <2>5
  <2>7. m = 0 <=> r = 0
    <3> DEFINE d == p + q
    <3>1. d \in Int /\ d * b = p * b + q * b /\ p * b \in Int
      BY <2>2, <2>4
    <3> HIDE DEF d
    <3>2. d * b + m + r = 0
      BY <2>1, <2>2, <2>4, <2>5, <3>1
    <3>3. d >= 1 => d * b >= b
      BY <3>1
    <3>4. d <= -1 => d * b <= -b
      BY <3>1
    <3>5. d = 0 => d * b = 0
      BY <3>1
    <3>6. d <= -2 => d * b <= -2 * b
      BY <3>1
    <3>7. d = -1 => d * b = -b
      BY <3>1
    <3> QED BY <2>2, <2>4, <3>1, <3>2, <3>3, <3>4, <3>5, <3>6, <3>7
  <2> QED BY <1>2, <2>1, <2>2, <2>3, <2>5, <2>6, <2>7 DEF m
<1> QED BY <1>1, <1>2

LEMMA InstantIs ==
  ASSUME NEW t \in Int, call = [fn |-> "instant", t |-> t, result |-> instantText(t)]
  PROVE  InstantReadsBack
<1>1. call.fn = "instant" /\ call.t = t /\ call.result = instantText(t)
  OBVIOUS
<1> DEFINE M == MsPerSec  q == Quot(t, M)  r == Rem(t, M)  ms == SecondLater(r)
           late == IF t < 0 /\ t % M # 0 THEN M ELSE 0
<1>2. M \in Nat \ {0}
  BY UnitAssumption
<1>3. /\ q \in Int /\ r \in Int /\ t = q * M + r
      /\ t >= 0 => r \in 0 .. M - 1
      /\ t < 0 => -r \in 0 .. M - 1 /\ (t % M = 0 <=> r = 0)
  <2> HIDE DEF M
  <2> QED BY <1>2, QuotRem
<1>4. instantText(t) = to_string(q, ms)
  BY DEF instantText
<1>5. ms = IF r < 0 THEN M + r ELSE r
  BY DEF SecondLater
<1>6. to_string(q, ms) = IF ms < 0 \/ ms >= M THEN {} ELSE {[sec |-> q, ms |-> ms]}
  BY DEF to_string
<1>7. InstantReadsBack <=> \E x \in instantText(t) : x.sec * M + x.ms = t + late
  BY <1>1 DEF InstantReadsBack
<1> DEFINE z == t % M
<1>8. late = (IF t < 0 /\ z # 0 THEN M ELSE 0) /\ (t < 0 => (z = 0 <=> r = 0))
  BY <1>3
<1>9. q * M \in Int
  BY <1>2, <1>3
<1> HIDE DEF M, q, r, ms, late, z
<1>10. ms >= 0 /\ ms < M /\ q * M + ms = t + late
  BY <1>2, <1>3, <1>5, <1>8, <1>9
<1>11. instantText(t) = {[sec |-> q, ms |-> ms]}
  BY <1>2, <1>3, <1>4, <1>5, <1>6, <1>10
<1> QED BY <1>7, <1>10, <1>11

-----------------------------------------------------------------------------
(* The text of a duration is read from its left end.                       *)

Marks == {"D", ":", "s", "ms", "ns"}
Unit  == [D |-> NsPerDay, s |-> NsPerSec, ms |-> NsPerMs, ns |-> 1]
Reads == [clock : Nat, minutes : Int, rest : Int]
NothingRead == [clock |-> 0, minutes |-> 0, rest |-> 0]

\* What is read after one field more.
WithField(before, n, mark) ==
  IF mark = ":"
  THEN [clock |-> before.clock + 1, minutes |-> MinPerHour * before.minutes + n, rest |-> before.rest]
  ELSE [before EXCEPT !.rest = @ + n * Unit[mark]]

ReadRounds(f, text) ==
  /\ ReadFields(text) = f[Len(text)] /\ f \in [0 .. Len(text) -> Reads]
  /\ f[0] = NothingRead
  /\ \A i \in 1 .. Len(text) : f[i] = WithField(f[i - 1], text[i][1], text[i][2])

LEMMA UnitsAre ==
  /\ {NsPerMs, NsPerSec, NsPerMin, NsPerHour, NsPerDay, MinPerHour} \subseteq Nat \ {0}
  /\ \A mark \in Marks \ {":"} : Unit[mark] \in Int
  /\ Unit["D"] = NsPerDay /\ Unit["s"] = NsPerSec /\ Unit["ms"] = NsPerMs /\ Unit["ns"] = 1
<1>0. \A a, b \in Nat \ {0} : a * b \in Nat \ {0}
  OBVIOUS
<1>1. {NsPerMs, NsPerSec, NsPerMin, NsPerHour, NsPerDay, MinPerHour} \subseteq Nat \ {0}
  <2>1. {MsPerSec, NsPerMs, SecPerMin, MinPerHour, HoursPerDay} \subseteq Nat \ {0}
    BY UnitAssumption
  <2>2. NsPerSec \in Nat \ {0}
    BY <1>0, <2>1 DEF NsPerSec
  <2>3. NsPerMin \in Nat \ {0}
    BY <1>0, <2>1, <2>2 DEF NsPerMin
  <2>4. NsPerHour \in Nat \ {0}
    BY <1>0, <2>1, <2>3 DEF NsPerHour
  <2>5. NsPerDay \in Nat \ {0}
    BY <1>0, <2>1, <2>4 DEF NsPerDay
  <2> QED BY <2>1, <2>2, <2>3, <2>4, <2>5
<1>2. Unit["D"] = NsPerDay /\ Unit["s"] = NsPerSec /\ Unit["ms"] = NsPerMs /\ Unit["ns"] = 1
  BY DEF Unit
<1>3. \A mark \in Marks \ {":"} : Unit[mark] \in Int
  BY <1>1, <1>2 DEF Marks
<1> QED BY <1>1, <1>2, <1>3

LEMMA WithFieldStays ==
  ASSUME NEW before \in Reads, NEW n \in Int, NEW mark \in Marks
  PROVE  WithField(before, n, mark) \in Reads
<1>1. /\ before.clock \in Nat /\ before.minutes \in Int /\ before.rest \in Int
      /\ before = [clock |-> before.clock, minutes |-> before.minutes, rest |-> before.rest]
  BY DEF Reads
<1>2. CASE mark = ":"
  <2>1. MinPerHour * before.minutes + n \in Int
    BY <1>1, UnitsAre
  <2> QED BY <1>1, <1>2, <2>1 DEF WithField, Reads
<1>3. CASE mark # ":"
  <2>1. before.rest + n * Unit[mark] \in Int
    BY <1>1, <1>3, UnitsAre
  <2>2. WithField(before, n, mark) = [before EXCEPT !.rest = before.rest + n * Unit[mark]]
    BY <1>3 DEF WithField
  <2> QED BY <1>1, <2>1, <2>2 DEF Reads
<1> QED BY <1>2, <1>3

LEMMA ReadRuns ==
  ASSUME NEW text \in Seq(Int \X Marks)
  PROVE  \E f : ReadRounds(f, text)
<1> DEFINE n == Len(text)
           N == 0 .. n
           Next1(i, l) == WithField(l, text[i][1], text[i][2])
           step == [i \in 1 .. n |-> [l \in Reads |-> Next1(i, l)]]
           Step(i, before) == LET k == text[i][1]  mark == text[i][2]
                              IN  IF mark = ":"
                                  THEN [clock |-> before.clock + 1,
                                        minutes |-> MinPerHour * before.minutes + k, rest |-> before.rest]
                                  ELSE [before EXCEPT !.rest = @ + k * Unit[mark]]
           Is(f) == f = [i \in N |-> IF i = 0 THEN NothingRead ELSE Step(i, f[i - 1])]
           v == CHOOSE f : Is(f)
<1>1. ReadFields(text) = v[n]
  BY DEF ReadFields, Unit, NothingRead
<1>m. \A i, l : Step(i, l) = Next1(i, l)
  BY DEF WithField
<1>2. n \in Nat /\ NothingRead \in Reads /\ text \in [1 .. n -> Int \X Marks]
  BY DEF NothingRead, Reads
<1>3. \A i \in 1 .. n, l \in Reads : Next1(i, l) \in Reads /\ step[i][l] = Next1(i, l)
  <2> TAKE i \in 1 .. n, l \in Reads
  <2>1. text[i][1] \in Int /\ text[i][2] \in Marks
    BY <1>2
  <2>2. Next1(i, l) \in Reads
    BY <2>1, WithFieldStays
  <2> HIDE DEF Next1
  <2> QED BY <2>2
<1>4. StaysIn(n, Reads, step)
  <2> HIDE DEF Next1, step
  <2> QED BY <1>3 DEF StaysIn
<1>5. PICK f : f \in [N -> Reads] /\ LoopOf(f, n, NothingRead, step)
  <2> HIDE DEF step, n
  <2> QED BY <1>2, <1>4, LoopExists
<1>6. \A i \in 1 .. n : f[i] = Next1(i, f[i - 1])
  <2> HIDE DEF step, Next1
  <2>1. \A i \in 1 .. n : i - 1 \in N
    BY <1>2
  <2>2. \A i \in 1 .. n : f[i - 1] \in Reads
    BY <1>5, <2>1, Zenon
  <2>3. \A i \in 1 .. n : f[i] = step[i][f[i - 1]]
    BY <1>5, Zenon DEF LoopOf
  <2> QED BY <1>3, <2>2, <2>3, Zenon
<1>7. Is(f)
  <2>1. \A i \in N : i # 0 => i \in 1 .. n
    BY <1>2
  <2>2. f = [i \in N |-> f[i]]
    BY <1>5
  <2>3. \A i \in N : f[i] = IF i = 0 THEN NothingRead ELSE Step(i, f[i - 1])
    <3> HIDE DEF N, Step, Next1
    <3> QED BY <1>5, <1>6, <1>m, <2>1 DEF LoopOf
  <2> HIDE DEF N, Step
  <2> QED BY <2>2, <2>3, Zenon
<1>8. Is(v)
  <2> HIDE DEF Is
  <2> QED BY <1>7, Zenon
<1>8a. v = [i \in N |-> IF i = 0 THEN NothingRead ELSE Step(i, v[i - 1])]
  BY <1>8, Zenon
<1>9. v[0] = NothingRead /\ \A i \in 1 .. n : v[i] = Next1(i, v[i - 1])
  <2>1. \A i \in 1 .. n : i # 0 /\ i \in N
    BY <1>2
  <2> HIDE DEF v, Step, Next1, Is
  <2> DEFINE g == [i \in N |-> IF i = 0 THEN NothingRead ELSE Step(i, v[i - 1])]
  <2>2. (\A i \in 1 .. n : g[i] = Step(i, v[i - 1])) /\ g[0] = NothingRead
    BY <1>2, <2>1
  <2> HIDE DEF g
  <2>3. v = g
    BY <1>8a, Zenon DEF g
  <2> QED BY <1>m, <2>2, <2>3
<1>10. \A i \in N : v[i] \in Reads
  <2> HIDE DEF v, Next1, Is
  <2>1. \A i \in 1 .. n : v[i - 1] \in Reads => v[i] \in Reads
    BY <1>3, <1>9
  <2> HIDE DEF n
  <2> QED BY <1>2, <1>9, <2>1, LoopStays, Zenon
<1>11. v \in [N -> Reads]
  <2> HIDE DEF v, Step, Is
  <2> QED BY <1>8a, <1>10, Zenon
<1> HIDE DEF v, Is
<1> QED BY <1>1, <1>9, <1>11, Zenon DEF ReadRounds

LEMMA ReadNothing == ReadFields(<<>>) = NothingRead
<1>1. <<>> \in Seq(Int \X Marks) /\ Len(<<>>) = 0
  OBVIOUS
<1> QED BY <1>1, ReadRuns, Zenon DEF ReadRounds

\* A field more is read after those before it.
LEMMA ReadMore ==
  ASSUME NEW text \in Seq(Int \X Marks), NEW n \in Int, NEW mark \in Marks
  PROVE  /\ Append(text, <<n, mark>>) \in Seq(Int \X Marks) /\ ReadFields(text) \in Reads
         /\ ReadFields(Append(text, <<n, mark>>)) = WithField(ReadFields(text), n, mark)
<1> DEFINE more == Append(text, <<n, mark>>)  k == Len(text)
<1>1. <<n, mark>> \in Int \X Marks
  OBVIOUS
<1>2. /\ more \in Seq(Int \X Marks) /\ Len(more) = k + 1 /\ k \in Nat
      /\ \A i \in 1 .. k : more[i] = text[i]
      /\ more[k + 1] = <<n, mark>>
  BY <1>1, Appended, LenProperties
<1> HIDE DEF more
<1>3. PICK f : ReadRounds(f, text)
  BY ReadRuns, Zenon
<1>4. PICK g : ReadRounds(g, more)
  BY <1>2, ReadRuns, Zenon
<1>5. /\ f[0] = NothingRead /\ g[0] = NothingRead
      /\ \A i \in 1 .. k : f[i] = WithField(f[i - 1], text[i][1], text[i][2])
      /\ \A i \in 1 .. k + 1 : g[i] = WithField(g[i - 1], more[i][1], more[i][2])
      /\ f \in [0 .. k -> Reads] /\ ReadFields(text) = f[k] /\ ReadFields(more) = g[k + 1]
  BY <1>2, <1>3, <1>4 DEF ReadRounds
<1> DEFINE S == {i \in 0 .. k : f[i] = g[i]}
<1> HIDE DEF k
<1>6. 0 \in S
  BY <1>2, <1>5
<1>7. \A i \in 1 .. k : i - 1 \in S => i \in S
  <2> SUFFICES ASSUME NEW i \in 1 .. k, f[i - 1] = g[i - 1] PROVE i \in S
    OBVIOUS
  <2>1. i \in 1 .. k + 1 /\ i \in 0 .. k /\ more[i] = text[i]
    BY <1>2
  <2>2. f[i] = WithField(f[i - 1], text[i][1], text[i][2])
    BY <1>5
  <2>3. g[i] = WithField(g[i - 1], more[i][1], more[i][2])
    BY <1>5, <2>1
  <2> QED BY <2>1, <2>2, <2>3
<1>8. k \in S
  <2>1. \A i \in 0 .. k : i \in S
    <3> HIDE DEF S
    <3> QED BY <1>2, <1>6, <1>7, RoundByRound, Zenon
  <2> QED BY <1>2, <2>1
<1>9. g[k + 1] = WithField(g[k], n, mark)
  <2>1. k + 1 \in 1 .. k + 1 /\ k + 1 - 1 = k /\ <<n, mark>>[1] = n /\ <<n, mark>>[2] = mark
    BY <1>2
  <2> QED BY <1>2, <1>5, <2>1
<1>10. f[k] \in Reads
  BY <1>2, <1>5
<1> QED BY <1>2, <1>5, <1>8, <1>9, <1>10 DEF more

-----------------------------------------------------------------------------
\* The remainder by a part of b is the remainder by it of the remainder by b.
LEMMA RemOfRem ==
  ASSUME NEW n \in Nat, NEW b \in Nat \ {0}, NEW c \in Nat \ {0}
  PROVE  Rem(Rem(n, b * c), b) = Rem(n, b)
<1> DEFINE e == b * c  q == Quot(n, e)  r == Rem(n, e)  p == Quot(r, b)  t == Rem(r, b)
           u == Quot(n, b)  w == Rem(n, b)
<1>1. e \in Nat \ {0}
  OBVIOUS
<1>2. q \in Nat /\ r \in Nat /\ n = q * e + r
  <2> HIDE DEF e
  <2> QED BY <1>1, QuotRem
<1> HIDE DEF r, q
<1>3. p \in Nat /\ t \in 0 .. b - 1 /\ r = p * b + t
  BY <1>2, QuotRem
<1>4. u \in Nat /\ w \in 0 .. b - 1 /\ n = u * b + w
  BY QuotRem
<1> HIDE DEF p, t, u, w
<1> DEFINE x == q * c + p
<1>5. x \in Nat /\ n = x * b + t
  <2>1. q * e = (q * c) * b /\ q * c \in Nat
    BY <1>2
  <2>2. (q * c + p) * b = (q * c) * b + p * b /\ p * b \in Nat /\ (q * c) * b \in Nat
    BY <1>2, <1>3, <2>1
  <2> QED BY <1>2, <1>3, <2>1, <2>2
<1> HIDE DEF x
<1>6. x = u
  <2>1. x * b \in Nat /\ u * b \in Nat
    BY <1>4, <1>5
  <2>2. n \div b = x
    BY <1>3, <1>5, <2>1, OnPage
  <2>3. n \div b = u
    BY <1>4, <2>1, OnPage
  <2> QED BY <2>2, <2>3
<1>7. x * b \in Nat
  BY <1>5
<1>8. t = w
  BY <1>3, <1>4, <1>5, <1>6, <1>7
<1> QED BY <1>8 DEF t, w, r, e

\* The fields of a duration make it up.
LEMMA FieldsMakeUp ==
  ASSUME NEW dur \in Nat, NEW d, NEW h, NEW m, NEW s, NEW ms, NEW ns,
         d = Quot(dur, NsPerDay), h = Quot(Rem(dur, NsPerDay), NsPerHour),
         m = Quot(Rem(dur, NsPerHour), NsPerMin), s = Quot(Rem(dur, NsPerMin), NsPerSec),
         ms = Quot(Rem(dur, NsPerSec), NsPerMs), ns = Rem(dur, NsPerMs)
  PROVE  /\ {d, h, m, s, ms, ns} \subseteq Nat /\ Rem(dur, NsPerDay) \in Nat
         /\ dur = d * NsPerDay + Rem(dur, NsPerDay)
         /\ Rem(dur, NsPerDay) = (MinPerHour * h + m) * NsPerMin + s * NsPerSec + ms * NsPerMs + ns
<1>1. /\ NsPerMs \in Nat \ {0} /\ NsPerSec \in Nat \ {0} /\ NsPerMin \in Nat \ {0}
      /\ NsPerHour \in Nat \ {0} /\ NsPerDay \in Nat \ {0} /\ MinPerHour \in Nat \ {0}
  BY UnitsAre
<1>2. {MsPerSec, SecPerMin, HoursPerDay} \subseteq Nat \ {0}
  BY UnitAssumption
<1>3. ASSUME NEW b \in Nat \ {0}, NEW c \in Nat \ {0}
      PROVE  LET q == Quot(Rem(dur, b * c), b) IN
             q \in Nat /\ Rem(dur, b) \in Nat /\ Rem(dur, b * c) = q * b + Rem(dur, b)
  <2> DEFINE e == b * c  r == Rem(dur, e)
  <2>1. e \in Nat \ {0}
    OBVIOUS
  <2>2. r \in Nat
    <3> HIDE DEF e
    <3> QED BY <2>1, QuotRem
  <2>3. Rem(r, b) = Rem(dur, b)
    BY RemOfRem
  <2>4. Rem(dur, b) \in Nat
    BY QuotRem
  <2> HIDE DEF r, e
  <2>5. Quot(r, b) \in Nat /\ r = Quot(r, b) * b + Rem(r, b)
    BY <2>2, QuotRem
  <2> QED BY <2>3, <2>4, <2>5 DEF r, e
<1>4. d \in Nat /\ Rem(dur, NsPerDay) \in Nat /\ dur = d * NsPerDay + Rem(dur, NsPerDay)
  BY <1>1, QuotRem
<1>5. h \in Nat /\ Rem(dur, NsPerHour) \in Nat /\ Rem(dur, NsPerDay) = h * NsPerHour + Rem(dur, NsPerHour)
  BY <1>1, <1>2, <1>3 DEF NsPerDay
<1>6. m \in Nat /\ Rem(dur, NsPerMin) \in Nat /\ Rem(dur, NsPerHour) = m * NsPerMin + Rem(dur, NsPerMin)
  BY <1>1, <1>2, <1>3, Zenon DEF NsPerHour
<1>7. s \in Nat /\ Rem(dur, NsPerSec) \in Nat /\ Rem(dur, NsPerMin) = s * NsPerSec + Rem(dur, NsPerSec)
  BY <1>1, <1>2, <1>3, Zenon DEF NsPerMin
<1>8. ms \in Nat /\ ns \in Nat /\ Rem(dur, NsPerSec) = ms * NsPerMs + ns
  BY <1>1, <1>2, <1>3, Zenon DEF NsPerSec
<1>9. (MinPerHour * h + m) * NsPerMin = h * NsPerHour + m * NsPerMin
  <2>1. \A a, b, x, y \in Nat : (a * x + y) * b = x * (b * a) + y * b
    OBVIOUS
  <2> QED BY <1>1, <1>5, <1>6, <2>1 DEF NsPerHour
<1>10. /\ d * NsPerDay \in Nat /\ h * NsPerHour \in Nat /\ m * NsPerMin \in Nat
       /\ s * NsPerSec \in Nat /\ ms * NsPerMs \in Nat
  BY <1>1, <1>4, <1>5, <1>6, <1>7, <1>8
<1> QED BY <1>4, <1>5, <1>6, <1>7, <1>8, <1>9, <1>10

\* What a field that is there, or not, adds to what is read.
LEMMA ReadOneMore ==
  ASSUME NEW text \in Seq(Int \X Marks), NEW n \in Int, NEW mark \in Marks
  PROVE  /\ text \o << <<n, mark>> >> \in Seq(Int \X Marks) /\ text \o <<>> = text
         /\ text \o << <<n, mark>> >> # <<>>
         /\ ReadFields(text \o << <<n, mark>> >>) = WithField(ReadFields(text), n, mark)
<1> DEFINE E == Int \X Marks  x == <<n, mark>>
<1>1. x \in E
  OBVIOUS
<1>2. Append(text, x) # <<>> /\ text \o <<x>> = Append(text, x) /\ text \o <<>> = text
  <2> HIDE DEF x, E
  <2>1. Len(Append(text, x)) # 0 /\ Len(<<>>) = 0
    BY <1>1, LenProperties, AppendProperties
  <2>2. text \o <<x>> = Append(text, x) /\ text \o <<>> = text
    BY <1>1, AppendIsConcat, ConcatEmptySeq
  <2> QED BY <2>1, <2>2, Zenon
<1> QED BY <1>2, ReadMore, Zenon

ReadOf(clock, minutes, rest) == [clock |-> clock, minutes |-> minutes, rest |-> rest]

LEMMA WithClockIs ==
  ASSUME NEW c \in Nat, NEW minutes \in Int, NEW rest \in Int, NEW n \in Int
  PROVE  WithField(ReadOf(c, minutes, rest), n, ":") = ReadOf(c + 1, MinPerHour * minutes + n, rest)
<1> DEFINE before == ReadOf(c, minutes, rest)
<1>1. before.clock = c /\ before.minutes = minutes /\ before.rest = rest
  BY DEF ReadOf
<1> QED BY <1>1 DEF WithField, ReadOf

LEMMA WithCountIs ==
  ASSUME NEW c \in Nat, NEW minutes \in Int, NEW rest \in Int, NEW n \in Int, NEW mark \in Marks \ {":"}
  PROVE  WithField(ReadOf(c, minutes, rest), n, mark) = ReadOf(c, minutes, rest + n * Unit[mark])
<1> DEFINE before == ReadOf(c, minutes, rest)
<1>1. before.clock = c /\ before.minutes = minutes /\ before.rest = rest
  BY DEF ReadOf
<1> QED BY <1>1 DEF WithField, ReadOf

\* What a text is read as.
AsRead(text, c, minutes, rest) ==
  /\ text \in Seq(Int \X Marks) /\ c \in Nat /\ minutes \in Int /\ rest \in Int
  /\ ReadFields(text) = ReadOf(c, minutes, rest)

LEMMA AddCount ==
  ASSUME NEW text, NEW c, NEW minutes, NEW rest, AsRead(text, c, minutes, rest),
         NEW n \in Int, NEW mark \in Marks \ {":"}
  PROVE  /\ AsRead(text \o << <<n, mark>> >>, c, minutes, rest + n * Unit[mark])
         /\ text \o << <<n, mark>> >> # <<>>
<1> DEFINE more == text \o << <<n, mark>> >>
<1>1. /\ text \in Seq(Int \X Marks) /\ c \in Nat /\ minutes \in Int /\ rest \in Int /\ mark \in Marks
      /\ ReadFields(text) = ReadOf(c, minutes, rest)
  BY DEF AsRead
<1>2. more \in Seq(Int \X Marks) /\ more # <<>> /\ ReadFields(more) = WithField(ReadFields(text), n, mark)
  BY <1>1, ReadOneMore
<1>3. WithField(ReadOf(c, minutes, rest), n, mark) = ReadOf(c, minutes, rest + n * Unit[mark])
  BY <1>1, WithCountIs, ZenonT(30)
<1>4. rest + n * Unit[mark] \in Int
  BY <1>1, UnitsAre
<1> HIDE DEF more
<1> QED BY <1>1, <1>2, <1>3, <1>4 DEF AsRead, more

LEMMA AddClock ==
  ASSUME NEW text, NEW c, NEW minutes, NEW rest, AsRead(text, c, minutes, rest), NEW n \in Int
  PROVE  /\ AsRead(text \o << <<n, ":">> >>, c + 1, MinPerHour * minutes + n, rest)
         /\ text \o << <<n, ":">> >> # <<>>
<1> DEFINE more == text \o << <<n, ":">> >>
<1>1. /\ text \in Seq(Int \X Marks) /\ c \in Nat /\ minutes \in Int /\ rest \in Int /\ ":" \in Marks
      /\ ReadFields(text) = ReadOf(c, minutes, rest)
  BY DEF AsRead, Marks
<1>2. more \in Seq(Int \X Marks) /\ more # <<>> /\ ReadFields(more) = WithField(ReadFields(text), n, ":")
  BY <1>1, ReadOneMore, Zenon
<1>3. WithField(ReadOf(c, minutes, rest), n, ":") = ReadOf(c + 1, MinPerHour * minutes + n, rest)
  BY <1>1, WithClockIs, Zenon
<1>4. MinPerHour * minutes + n \in Int /\ c + 1 \in Nat
  BY <1>1, UnitsAre
<1> HIDE DEF more
<1> QED BY <1>1, <1>2, <1>3, <1>4 DEF AsRead, more

\* The texts that durationText makes of its fields, one after the other.
MadeOf(d, h, m, s, ms, ns, days, hours, minutes, seconds, millis, nanos) ==
  /\ d \in Nat /\ h \in Nat /\ m \in Nat /\ s \in Nat /\ ms \in Nat /\ ns \in Nat
  /\ days = IF d # 0 THEN << <<d, "D">> >> ELSE <<>>
  /\ hours = days \o OrZero(h, days)
  /\ minutes = hours \o OrZero(m, hours)
  /\ seconds = Append(minutes, <<s, "s">>)
  /\ millis = seconds \o (IF ms # 0 \/ ns # 0 THEN << <<ms, "ms">> >> ELSE <<>>)
  /\ nanos = millis \o (IF ns # 0 THEN << <<ns, "ns">> >> ELSE <<>>)

LEMMA FieldsRead ==
  ASSUME NEW d, NEW h, NEW m, NEW s, NEW ms, NEW ns, NEW days, NEW hours, NEW minutes, NEW seconds, NEW millis, NEW nanos,
         MadeOf(d, h, m, s, ms, ns, days, hours, minutes, seconds, millis, nanos)
  PROVE  /\ ReadFields(days) = ReadOf(0, 0, d * NsPerDay)
         /\ \E c \in 0 .. 2 :
              ReadFields(nanos) = ReadOf(c, MinPerHour * h + m,
                                         d * NsPerDay + s * NsPerSec + ms * NsPerMs + ns)
<1>n. d \in Nat /\ h \in Nat /\ m \in Nat /\ s \in Nat /\ ms \in Nat /\ ns \in Nat
  BY DEF MadeOf
<1>0. /\ "D" \in Marks \ {":"} /\ "s" \in Marks \ {":"} /\ "ms" \in Marks \ {":"} /\ "ns" \in Marks \ {":"}
      /\ d \in Int /\ h \in Int /\ m \in Int /\ s \in Int /\ ms \in Int /\ ns \in Int
  BY <1>n DEF Marks
<1>e. /\ days = IF d # 0 THEN << <<d, "D">> >> ELSE <<>>
      /\ hours = days \o OrZero(h, days)
      /\ minutes = hours \o OrZero(m, hours)
      /\ seconds = Append(minutes, <<s, "s">>)
      /\ millis = seconds \o (IF ms # 0 \/ ns # 0 THEN << <<ms, "ms">> >> ELSE <<>>)
      /\ nanos = millis \o (IF ns # 0 THEN << <<ns, "ns">> >> ELSE <<>>)
  BY DEF MadeOf
<1>1. PICK p, q, r, k \in Int : p = d * NsPerDay /\ q = s * NsPerSec /\ r = ms * NsPerMs /\ k = MinPerHour * h
  <2>1. /\ NsPerMs \in Nat /\ NsPerSec \in Nat /\ NsPerDay \in Nat /\ MinPerHour \in Nat
    BY <1>n, UnitsAre
  <2> QED BY <1>n, <2>1
<1>2. /\ d = 0 => p = 0
      /\ ms = 0 => r = 0
      /\ h = 0 => k = 0
      /\ MinPerHour * 0 = 0
  <2>1. /\ NsPerMs \in Nat /\ NsPerDay \in Nat /\ MinPerHour \in Nat
    BY <1>n, UnitsAre
  <2> QED BY <1>n, <1>1, <2>1
<1>3. /\ d * Unit["D"] = p /\ s * Unit["s"] = q /\ ms * Unit["ms"] = r /\ ns * Unit["ns"] = ns
  BY <1>n, <1>1, UnitsAre
<1>4. AsRead(<<>>, 0, 0, 0)
  BY <1>n, ReadNothing DEF NothingRead, ReadOf, AsRead
<1>5. \A x, c, mins, left : AsRead(x, c, mins, left) => x \o <<>> = x /\ c \in Nat /\ mins \in Int /\ left \in Int
  BY <1>n DEF AsRead
<1>6. AsRead(days, 0, 0, p) /\ (d = 0 <=> days = <<>>)
  <2>1. CASE d = 0
    BY <1>n, <1>2, <1>4, <1>e, <2>1
  <2>2. CASE d # 0
    <3>1. days = <<>> \o << <<d, "D">> >>
      BY <1>n, <1>e, <2>2
    <3>2. AsRead(days, 0, 0, 0 + d * Unit["D"]) /\ days # <<>>
      BY <1>n, <1>0, <1>4, <3>1, AddCount, Zenon
    <3>3. 0 + d * Unit["D"] = p
      BY <1>n, <1>1, <1>3
    <3> QED BY <1>n, <2>2, <3>2, <3>3
  <2> QED BY <1>n, <2>1, <2>2
<1>7. (hours = <<>> <=> d = 0 /\ h = 0) /\ \E c \in 0 .. 1 : AsRead(hours, c, h, p)
  <2>1. CASE h = 0 /\ days = <<>>
    <3>1. hours = days
      BY <1>n, <1>5, <1>e, <1>6, <2>1 DEF OrZero
    <3>2. 0 \in 0 .. 1
      BY <1>n
    <3> QED BY <1>n, <1>6, <2>1, <3>1, <3>2
  <2>2. CASE h # 0 \/ days # <<>>
    <3>1. hours = days \o << <<h, ":">> >>
      BY <1>n, <1>e, <2>2, Zenon DEF OrZero
    <3>2. AsRead(hours, 0 + 1, MinPerHour * 0 + h, p) /\ hours # <<>>
      BY <1>n, <1>0, <1>6, <3>1, AddClock, Zenon
    <3>3. MinPerHour * 0 + h = h /\ 0 + 1 \in 0 .. 1
      BY <1>n, <1>2
    <3> QED BY <1>n, <1>6, <2>2, <3>2, <3>3
  <2> QED BY <1>n, <2>1, <2>2
<1>8. PICK clock \in Int : clock = k + m
  BY <1>n
<1>9. \E c \in 0 .. 2 : AsRead(minutes, c, clock, p)
  <2>1. PICK c \in 0 .. 1 : AsRead(hours, c, h, p)
    BY <1>n, <1>7
  <2>2. CASE m = 0 /\ hours = <<>>
    <3>1. minutes = hours
      BY <1>n, <1>5, <1>e, <2>1, <2>2, Zenon DEF OrZero
    <3>2. h = 0 /\ k = 0
      BY <1>n, <1>2, <1>7, <2>2
    <3>3. clock = h /\ c \in 0 .. 2
      BY <1>n, <1>8, <2>2, <3>2
    <3> QED BY <1>n, <2>1, <3>1, <3>3
  <2>3. CASE m # 0 \/ hours # <<>>
    <3>1. minutes = hours \o << <<m, ":">> >>
      BY <1>n, <1>e, <2>3, Zenon DEF OrZero
    <3>2. AsRead(minutes, c + 1, MinPerHour * h + m, p)
      BY <1>n, <1>0, <2>1, <3>1, AddClock, Zenon
    <3>3. MinPerHour * h + m = clock /\ c + 1 \in 0 .. 2
      BY <1>n, <1>1, <1>8
    <3> QED BY <1>n, <3>2, <3>3
  <2> QED BY <1>n, <2>2, <2>3
<1>10. PICK c \in 0 .. 2 : AsRead(minutes, c, clock, p)
  BY <1>n, <1>9
<1>11. AsRead(seconds, c, clock, p + q)
  <2>1. seconds = minutes \o << <<s, "s">> >>
    <3>1. <<s, "s">> \in Int \X Marks
      BY <1>n, <1>0
    <3>2. minutes \in Seq(Int \X Marks)
      BY <1>n, <1>10 DEF AsRead
    <3> QED BY <1>n, <1>e, <3>1, <3>2, AppendIsConcat, ZenonT(30)
  <2>2. AsRead(seconds, c, clock, p + s * Unit["s"])
    BY <1>n, <1>0, <1>10, <2>1, AddCount, Zenon
  <2> QED BY <1>n, <1>3, <2>2
<1>12. PICK pq \in Int : pq = p + q
  BY <1>n
<1>13. AsRead(millis, c, clock, pq + r)
  <2>1. CASE ms = 0 /\ ns = 0
    <3>1. millis = seconds
      BY <1>n, <1>5, <1>e, <1>11, <2>1
    <3>2. pq + r = p + q
      BY <1>n, <1>2, <1>12, <2>1
    <3> QED BY <1>n, <1>11, <3>1, <3>2
  <2>2. CASE ms # 0 \/ ns # 0
    <3>1. millis = seconds \o << <<ms, "ms">> >>
      BY <1>n, <1>e, <2>2, Zenon
    <3>2. AsRead(millis, c, clock, pq + ms * Unit["ms"])
      BY <1>n, <1>0, <1>11, <1>12, <3>1, AddCount, Zenon
    <3> QED BY <1>n, <1>3, <3>2
  <2> QED BY <1>n, <2>1, <2>2
<1>14. PICK pqr \in Int : pqr = pq + r
  BY <1>n
<1>15. AsRead(nanos, c, clock, pqr + ns)
  <2>1. CASE ns = 0
    <3>1. nanos = millis
      BY <1>n, <1>5, <1>e, <1>13, <2>1
    <3>2. pqr + ns = pq + r
      BY <1>n, <1>14, <2>1
    <3> QED BY <1>n, <1>13, <3>1, <3>2
  <2>2. CASE ns # 0
    <3>1. nanos = millis \o << <<ns, "ns">> >>
      BY <1>n, <1>e, <2>2, Zenon
    <3>2. AsRead(nanos, c, clock, pqr + ns * Unit["ns"])
      BY <1>n, <1>0, <1>13, <1>14, <3>1, AddCount, Zenon
    <3> QED BY <1>n, <1>3, <3>2
  <2> QED BY <1>n, <2>1, <2>2
<1>16. clock = MinPerHour * h + m /\ pqr + ns = d * NsPerDay + s * NsPerSec + ms * NsPerMs + ns
  BY <1>n, <1>1, <1>8, <1>12, <1>14
<1> QED BY <1>n, <1>1, <1>6, <1>15, <1>16, Zenon DEF AsRead

LEMMA DurationIs ==
  ASSUME NEW dur \in Nat,
         call = [fn |-> "duration", dur |-> dur, result |-> durationText(dur)]
  PROVE  DurationReadsBack
<1>1. PICK d, h, m, s, ms, ns, rest :
        /\ d = Quot(dur, NsPerDay) /\ h = Quot(Rem(dur, NsPerDay), NsPerHour)
        /\ m = Quot(Rem(dur, NsPerHour), NsPerMin) /\ s = Quot(Rem(dur, NsPerMin), NsPerSec)
        /\ ms = Quot(Rem(dur, NsPerSec), NsPerMs) /\ ns = Rem(dur, NsPerMs) /\ rest = Rem(dur, NsPerDay)
  OBVIOUS
<1>2. /\ {d, h, m, s, ms, ns} \subseteq Nat /\ rest \in Nat
      /\ dur = d * NsPerDay + rest
      /\ rest = (MinPerHour * h + m) * NsPerMin + s * NsPerSec + ms * NsPerMs + ns
  BY <1>1, FieldsMakeUp
<1>4a. d \in Nat /\ h \in Nat /\ m \in Nat /\ s \in Nat /\ ms \in Nat /\ ns \in Nat
  BY <1>2
<1>3. PICK days, hours, minutes, seconds, millis, nanos :
        MadeOf(d, h, m, s, ms, ns, days, hours, minutes, seconds, millis, nanos)
  BY <1>4a, Zenon DEF MadeOf
<1>4. durationText(dur) = IF rest = 0 THEN days ELSE nanos
  BY <1>1, <1>3, Zenon DEF durationText, MadeOf
<1>5. /\ ReadFields(days) = ReadOf(0, 0, d * NsPerDay)
      /\ \E c \in 0 .. 2 :
           ReadFields(nanos) = ReadOf(c, MinPerHour * h + m, d * NsPerDay + s * NsPerSec + ms * NsPerMs + ns)
  BY <1>3, FieldsRead
<1>6. PICK c \in 0 .. 2 :
        ReadFields(nanos) = ReadOf(c, MinPerHour * h + m, d * NsPerDay + s * NsPerSec + ms * NsPerMs + ns)
  BY <1>5
<1>7. DurationReadsBack <=> /\ ReadFields(durationText(dur)).clock <= 2
                            /\ dur = ReadFields(durationText(dur)).minutes * NsPerMin
                                       + ReadFields(durationText(dur)).rest
  <2>1. call.fn = "duration" /\ call.dur = dur /\ call.result = durationText(dur)
    OBVIOUS
  <2> QED BY <2>1 DEF DurationReadsBack
<1>8. /\ NsPerMs \in Nat /\ NsPerSec \in Nat /\ NsPerMin \in Nat /\ NsPerDay \in Nat /\ MinPerHour \in Nat
  BY UnitsAre
<1>9. PICK p, q, r, u, clock \in Int :
        /\ p = d * NsPerDay /\ q = s * NsPerSec /\ r = ms * NsPerMs /\ clock = MinPerHour * h + m
        /\ u = clock * NsPerMin
  BY <1>2, <1>8
<1>10. dur = p + rest /\ rest = u + q + r + ns /\ ns \in Int
  BY <1>2, <1>9
<1>11. CASE rest = 0
  <2>1. ReadFields(durationText(dur)) = ReadOf(0, 0, p)
    BY <1>4, <1>5, <1>9, <1>11
  <2>2. dur = 0 * NsPerMin + p /\ 0 <= 2
    BY <1>8, <1>10, <1>11
  <2> QED BY <1>7, <2>1, <2>2 DEF ReadOf
<1>12. CASE rest # 0
  <2>1. ReadFields(durationText(dur)) = ReadOf(c, clock, p + q + r + ns)
    BY <1>4, <1>6, <1>9, <1>12
  <2>2. dur = u + (p + q + r + ns) /\ c <= 2
    BY <1>10
  <2> QED BY <1>7, <1>9, <2>1, <2>2 DEF ReadOf
<1> QED BY <1>11, <1>12

-----------------------------------------------------------------------------
(* Plain texts: the digits of a number, and of several one after the other. *)

\* s comes before t in the order of a dictionary.
Lex(s, t) == \E i \in 1 .. Len(s) : s[i] < t[i] /\ \A k \in 1 .. i - 1 : s[k] = t[k]

\* Two texts of the same length.
Alike(s, t) == s \in Seq(Int) /\ t \in Seq(Int) /\ Len(s) = Len(t)

\* u and w, written behind s and t, decide where those are equal.
Decides(s, t, u, w) ==
  /\ Lex(s \o u, t \o w) <=> Lex(s, t) \/ (s = t /\ Lex(u, w))
  /\ s \o u = t \o w <=> s = t /\ u = w
  /\ Alike(s \o u, t \o w)

LEMMA LexConcat ==
  ASSUME NEW s, NEW t, NEW u, NEW w, Alike(s, t), Alike(u, w)
  PROVE  Decides(s, t, u, w)
<1> USE DEF Alike
<1> DEFINE a == s \o u  b == t \o w  n == Len(s)  m == Len(u)
<1>1. /\ n \in Nat /\ m \in Nat /\ Len(a) = n + m /\ Len(b) = n + m
      /\ \A i \in 1 .. n : a[i] = s[i] /\ b[i] = t[i]
      /\ \A i \in 1 .. m : a[n + i] = u[i] /\ b[n + i] = w[i]
      /\ a \in Seq(Int) /\ b \in Seq(Int)
  <2>1. /\ \A i \in 1 .. Len(s) + Len(u) : a[i] = IF i <= Len(s) THEN s[i] ELSE u[i - Len(s)]
        /\ \A i \in 1 .. Len(t) + Len(w) : b[i] = IF i <= Len(t) THEN t[i] ELSE w[i - Len(t)]
    <3>1. s \in Seq(Int) /\ t \in Seq(Int) /\ u \in Seq(Int) /\ w \in Seq(Int)
      OBVIOUS
    <3> QED BY <3>1, ConcatProperties, Zenon
  <2>2. /\ n \in Nat /\ m \in Nat /\ Len(a) = n + m /\ Len(b) = n + m
        /\ a \in Seq(Int) /\ b \in Seq(Int)
    <3>1. Len(s) \in Nat /\ Len(u) \in Nat
      BY LenProperties
    <3>2. Len(s \o u) = Len(s) + Len(u) /\ s \o u \in Seq(Int)
      BY ConcatProperties, Zenon
    <3>3. Len(t \o w) = Len(t) + Len(w) /\ t \o w \in Seq(Int)
      BY ConcatProperties
    <3> QED BY <3>1, <3>2, <3>3
  <2> HIDE DEF a, b, n, m
  <2>3. \A i \in 1 .. n : i \in 1 .. n + m /\ i <= n
    BY <2>2
  <2>4. \A i \in 1 .. m : n + i \in 1 .. n + m /\ ~(n + i <= n) /\ n + i - n = i
    BY <2>2
  <2>5. \A i \in 1 .. n : a[i] = s[i] /\ b[i] = t[i]
    BY <2>1, <2>3 DEF n, m
  <2>6. ASSUME NEW i \in 1 .. m PROVE a[n + i] = u[i] /\ b[n + i] = w[i]
    <3>1. PICK j \in 1 .. n + m : j = n + i /\ ~(j <= n) /\ j - n = i
      BY <2>2, <2>4
    <3>2. a[j] = u[j - n] /\ b[j] = w[j - n]
      <4>1. /\ a[j] = IF j <= n THEN s[j] ELSE u[j - n]
            /\ b[j] = IF j <= n THEN t[j] ELSE w[j - n]
        BY <2>1, Zenon DEF n, m
      <4> QED BY <3>1, <4>1
    <3> QED BY <3>1, <3>2, Zenon
  <2> QED BY <2>2, <2>5, <2>6
<1>2. (s = t <=> \A i \in 1 .. n : s[i] = t[i]) /\ (u = w <=> \A i \in 1 .. m : u[i] = w[i])
  BY SeqEqual, Zenon
<1>3. a = b <=> \A i \in 1 .. n + m : a[i] = b[i]
  BY <1>1, SeqEqual, Zenon
<1>4. /\ Lex(a, b) <=> \E i \in 1 .. n + m : a[i] < b[i] /\ \A k \in 1 .. i - 1 : a[k] = b[k]
      /\ Lex(s, t) <=> \E i \in 1 .. n : s[i] < t[i] /\ \A k \in 1 .. i - 1 : s[k] = t[k]
      /\ Lex(u, w) <=> \E i \in 1 .. m : u[i] < w[i] /\ \A k \in 1 .. i - 1 : u[k] = w[k]
  BY <1>1 DEF Lex
<1> HIDE DEF a, b, n, m
<1>5. \A i \in 1 .. n + m : i \in 1 .. n \/ \E j \in 1 .. m : i = n + j
  <2> TAKE i \in 1 .. n + m
  <2>1. i > n => i - n \in 1 .. m /\ i = n + (i - n)
    BY <1>1
  <2> QED BY <1>1, <2>1
<1>6. a = b <=> s = t /\ u = w
  <2>1. \A i \in 1 .. n : i \in 1 .. n + m
    BY <1>1
  <2>2. \A i \in 1 .. m : n + i \in 1 .. n + m
    BY <1>1
  <2>3. ASSUME a = b PROVE s = t /\ u = w
    <3>1. \A i \in 1 .. n : s[i] = t[i]
      BY <1>1, <1>3, <2>1, <2>3
    <3>2. \A i \in 1 .. m : u[i] = w[i]
      BY <1>1, <1>3, <2>2, <2>3
    <3> QED BY <1>2, <3>1, <3>2
  <2>4. ASSUME s = t, u = w PROVE a = b
    BY <1>1, <1>3, <1>5, <2>4, Zenon
  <2> QED BY <2>3, <2>4
<1>7. ASSUME Lex(s, t) PROVE Lex(a, b)
  <2>1. PICK i \in 1 .. n : s[i] < t[i] /\ \A k \in 1 .. i - 1 : s[k] = t[k]
    BY <1>4, <1>7
  <2>2. i \in 1 .. n + m /\ \A k \in 1 .. i - 1 : k \in 1 .. n
    BY <1>1
  <2>3. a[i] < b[i] /\ \A k \in 1 .. i - 1 : a[k] = b[k]
    BY <1>1, <2>1, <2>2
  <2> QED BY <1>4, <2>2, <2>3
<1>8. ASSUME s = t, Lex(u, w) PROVE Lex(a, b)
  <2>1. PICK i \in 1 .. m : u[i] < w[i] /\ \A k \in 1 .. i - 1 : u[k] = w[k]
    BY <1>4, <1>8
  <2>2. n + i \in 1 .. n + m /\ a[n + i] < b[n + i]
    BY <1>1, <2>1
  <2>3. ASSUME NEW k \in 1 .. n + i - 1 PROVE a[k] = b[k]
    <3>1. CASE k \in 1 .. n
      BY <1>1, <1>8, <3>1
    <3>2. CASE k \notin 1 .. n
      <4>1. k - n \in 1 .. i - 1 /\ k - n \in 1 .. m /\ n + (k - n) = k
        BY <1>1, <3>2
      <4> QED BY <1>1, <2>1, <4>1, Zenon
    <3> QED BY <3>1, <3>2
  <2>4. \E j \in 1 .. n + m : a[j] < b[j] /\ \A k \in 1 .. j - 1 : a[k] = b[k]
    <3>1. PICK e \in Int : e = n + i
      BY <1>1
    <3>2. e \in 1 .. n + m /\ a[e] < b[e] /\ \A k \in 1 .. e - 1 : k \in 1 .. n + i - 1
      <4>1. e \in 1 .. n + m /\ a[e] < b[e]
        BY <2>2, <3>1
      <4>2. \A k \in 1 .. e - 1 : k \in 1 .. n + i - 1
        BY <1>1, <3>1
      <4> QED BY <4>1, <4>2
    <3>3. \A k \in 1 .. e - 1 : a[k] = b[k]
      BY <2>3, <3>2
    <3> QED BY <3>2, <3>3
  <2> QED BY <1>4, <2>4
<1>9. ASSUME Lex(a, b) PROVE Lex(s, t) \/ (s = t /\ Lex(u, w))
  <2>1. PICK i \in 1 .. n + m : a[i] < b[i] /\ \A k \in 1 .. i - 1 : a[k] = b[k]
    BY <1>4, <1>9
  <2>2. CASE i \in 1 .. n
    <3>1. \A k \in 1 .. i - 1 : k \in 1 .. n
      BY <1>1, <2>2
    <3>2. s[i] < t[i] /\ \A k \in 1 .. i - 1 : s[k] = t[k]
      BY <1>1, <2>1, <2>2, <3>1
    <3> QED BY <1>4, <2>2, <3>2, Zenon
  <2>3. CASE i \notin 1 .. n
    <3>1. PICK j \in 1 .. m : i = n + j
      BY <1>5, <2>3
    <3>2. \A k \in 1 .. n : k \in 1 .. i - 1
      BY <1>1, <3>1
    <3>3. s = t
      BY <1>1, <1>2, <2>1, <3>2, Zenon
    <3>4. \A k \in 1 .. j - 1 : n + k \in 1 .. i - 1 /\ k \in 1 .. m
      BY <1>1, <3>1
    <3>5. u[j] < w[j] /\ \A k \in 1 .. j - 1 : u[k] = w[k]
      BY <1>1, <2>1, <3>1, <3>4, Zenon
    <3> QED BY <1>4, <3>3, <3>5, Zenon
  <2> QED BY <2>2, <2>3
<1> QED BY <1>1, <1>6, <1>7, <1>8, <1>9, Zenon DEF a, b, Decides

\* The texts s and t are in the order of p and q.
Ordered(s, t, p, q) ==
  /\ Alike(s, t) /\ p \in Nat /\ q \in Nat
  /\ Lex(s, t) <=> p < q
  /\ s = t <=> p = q

LEMMA OrderedOne ==
  ASSUME NEW p \in Nat, NEW q \in Nat
  PROVE  Ordered(<<p>>, <<q>>, p, q)
<1>1. Len(<<p>>) = 1 /\ Len(<<q>>) = 1 /\ <<p>>[1] = p /\ <<q>>[1] = q /\ 1 .. 1 = {1} /\ 1 .. 1 - 1 = {}
  OBVIOUS
<1>2. Lex(<<p>>, <<q>>) <=> p < q
  BY <1>1, Zenon DEF Lex
<1> QED BY <1>1, <1>2 DEF Ordered, Alike

LEMMA OrderedMore ==
  ASSUME NEW s, NEW t, NEW p, NEW q, Ordered(s, t, p, q), NEW x \in 0 .. 9, NEW y \in 0 .. 9
  PROVE  Ordered(Append(s, x), Append(t, y), 10 * p + x, 10 * q + y)
<1>1. /\ s \in Seq(Int) /\ t \in Seq(Int) /\ p \in Nat /\ q \in Nat
      /\ Alike(s, t) /\ x \in Nat /\ y \in Nat /\ x \in Int /\ y \in Int
  BY DEF Ordered, Alike
<1>2. Append(s, x) = s \o <<x>> /\ Append(t, y) = t \o <<y>>
  BY <1>1, AppendIsConcat, Zenon
<1>3. (Lex(<<x>>, <<y>>) <=> x < y) /\ Alike(<<x>>, <<y>>)
  BY <1>1, OrderedOne DEF Ordered
<1>4. Decides(s, t, <<x>>, <<y>>)
  BY <1>1, <1>3, LexConcat
<1>5. /\ Lex(s \o <<x>>, t \o <<y>>) <=> Lex(s, t) \/ (s = t /\ Lex(<<x>>, <<y>>))
      /\ s \o <<x>> = t \o <<y>> <=> s = t /\ <<x>> = <<y>>
      /\ Alike(s \o <<x>>, t \o <<y>>)
  BY <1>4, Zenon DEF Decides
<1>6. (Lex(s, t) <=> p < q) /\ (s = t <=> p = q)
  BY DEF Ordered
<1>7. <<x>> = <<y>> <=> x = y
  OBVIOUS
<1>8. /\ p < q \/ (p = q /\ x < y) <=> 10 * p + x < 10 * q + y
      /\ p = q /\ x = y <=> 10 * p + x = 10 * q + y
      /\ 10 * p + x \in Nat /\ 10 * q + y \in Nat
  BY <1>1
<1> QED BY <1>2, <1>3, <1>5, <1>6, <1>7, <1>8, Zenon DEF Ordered

-----------------------------------------------------------------------------
\* The rule of the digits, for the numbers up to n.
DigitsRule(f, n, base) ==
  \A m \in 0 .. n : f[m] = IF m < base THEN <<m>> ELSE Append(f[m \div base], m % base)

LEMMA Lower ==
  ASSUME NEW base \in Nat \ {0, 1}, NEW m \in Nat, m >= base
  PROVE  m \div base \in 0 .. m - 1 /\ m % base \in Nat
<1> DEFINE d == m \div base  r == m % base
<1>1. d \in Nat /\ r \in 0 .. base - 1 /\ m = (d * base) + r
  BY Division, Zenon
<1> HIDE DEF d, r
<1>2. d * 2 <= d * base
  BY <1>1
<1>3. d * base \in Nat
  BY <1>1
<1>4. d < m
  BY <1>1, <1>2, <1>3
<1> QED BY <1>1, <1>4 DEF d, r

\* Functions with that rule agree.
LEMMA OneRule ==
  ASSUME NEW base \in Nat \ {0, 1}, NEW n \in Nat, NEW f, DigitsRule(f, n, base),
         NEW k \in 0 .. n, NEW g, DigitsRule(g, k, base)
  PROVE  f[k] = g[k]
<1> DEFINE S == {i \in 0 .. k : \A j \in 0 .. i : f[j] = g[j]}
<1>1. /\ k \in Nat
      /\ \A m \in 0 .. k : f[m] = IF m < base THEN <<m>> ELSE Append(f[m \div base], m % base)
      /\ \A m \in 0 .. k : g[m] = IF m < base THEN <<m>> ELSE Append(g[m \div base], m % base)
  <2>1. \A m \in 0 .. k : m \in 0 .. n
    OBVIOUS
  <2> QED BY <2>1 DEF DigitsRule
<1>2. 0 \in S
  <2>1. 0 \in 0 .. k /\ 0 < base /\ \A j \in 0 .. 0 : j = 0
    BY <1>1
  <2>2. f[0] = <<0>> /\ g[0] = <<0>>
    BY <1>1, <2>1, Zenon
  <2> QED BY <2>1, <2>2
<1>3. ASSUME NEW i \in 1 .. k, i - 1 \in S PROVE i \in S
  <2>1. i \in 0 .. k /\ i \in Nat /\ \A j \in 0 .. i - 1 : f[j] = g[j]
    BY <1>3
  <2>2. f[i] = g[i]
    <3>1. CASE i < base
      BY <1>1, <2>1, <3>1, Zenon
    <3>2. CASE ~(i < base)
      <4> DEFINE d == i \div base
      <4>0. i >= base
        BY <2>1, <3>2
      <4>1. d \in 0 .. i - 1
        BY <2>1, <4>0, Lower, Zenon
      <4>2. f[i] = Append(f[d], i % base) /\ g[i] = Append(g[d], i % base)
        BY <1>1, <2>1, <3>2, Zenon
      <4> HIDE DEF d
      <4> QED BY <2>1, <4>1, <4>2, Zenon
    <3> QED BY <3>1, <3>2
  <2>3. \A j \in 0 .. i : j = i \/ j \in 0 .. i - 1
    OBVIOUS
  <2> QED BY <2>1, <2>2, <2>3
<1>4. k \in S
  <2> HIDE DEF S
  <2>1. \A i \in 0 .. k : i \in S
    BY <1>1, <1>2, <1>3, RoundByRound
  <2> QED BY <1>1, <2>1
<1> QED BY <1>1, <1>4

LEMMA DigitsRun ==
  ASSUME NEW n \in Nat, NEW base \in Nat \ {0, 1}
  PROVE  \E f : /\ Text!Digits(n, base) = f[n] /\ DigitsRule(f, n, base)
                /\ f[n] \in Seq(Nat)
<1> DEFINE Rule(f, m) == IF m < base THEN <<m>> ELSE Append(f[m \div base], m % base)
           Is(f) == f = [m \in 0 .. n |-> Rule(f, m)]
           v == CHOOSE f : Is(f)
           S == {m \in Nat : \E f : f \in [0 .. m -> Seq(Nat)] /\ \A k \in 0 .. m : f[k] = Rule(f, k)}
<1>1. Text!Digits(n, base) = v[n]
  BY DEF Text!Digits
<1>2. \A m \in Nat : m >= base => m \div base \in 0 .. m - 1 /\ m % base \in Nat
  BY Lower, Zenon
<1>3. 0 \in S
  <2> DEFINE f == [k \in 0 .. 0 |-> <<0>>]
  <2>1. f \in [0 .. 0 -> Seq(Nat)] /\ \A k \in 0 .. 0 : f[k] = <<k>> /\ k < base
    OBVIOUS
  <2> HIDE DEF f
  <2> QED BY <2>1
<1>4. ASSUME NEW m \in S PROVE m + 1 \in S
  <2>1. m \in Nat /\ m + 1 \in Nat
    OBVIOUS
  <2>2. PICK f : f \in [0 .. m -> Seq(Nat)] /\ \A k \in 0 .. m : f[k] = Rule(f, k)
    BY <1>4, Zenon
  <2> DEFINE g == [k \in 0 .. m + 1 |-> IF k = m + 1 THEN Rule(f, m + 1) ELSE f[k]]
  <2>3. Rule(f, m + 1) \in Seq(Nat)
    <3>1. CASE m + 1 < base
      BY <2>1, <3>1
    <3>2. CASE ~(m + 1 < base)
      <4>1. PICK k \in Nat : k = m + 1
        BY <2>1
      <4>2. k \div base \in 0 .. m /\ k % base \in Nat
        <5>1. k >= base /\ k - 1 = m
          BY <2>1, <3>2, <4>1
        <5> QED BY <1>2, <5>1, Zenon
      <4>3. Append(f[k \div base], k % base) \in Seq(Nat)
        <5> DEFINE d == k \div base  r == k % base
        <5>1. d \in 0 .. m /\ r \in Nat
          BY <4>2
        <5> HIDE DEF d, r
        <5>2. f[d] \in Seq(Nat)
          BY <2>2, <5>1
        <5>3. Append(f[d], r) \in Seq(Nat)
          BY <5>1, <5>2, AppendProperties
        <5> QED BY <5>3 DEF d, r
      <4> QED BY <3>2, <4>1, <4>3
    <3> QED BY <3>1, <3>2
  <2>4. g \in [0 .. m + 1 -> Seq(Nat)]
    <3> HIDE DEF Rule
    <3>1. \A k \in 0 .. m + 1 : k # m + 1 => k \in 0 .. m
      BY <2>1
    <3> QED BY <2>2, <2>3, <3>1
  <2>5. \A k \in 0 .. m : g[k] = f[k]
    <3> HIDE DEF Rule
    <3> QED BY <2>1
  <2>6. g[m + 1] = Rule(f, m + 1)
    <3> HIDE DEF Rule
    <3> QED BY <2>1
  <2> HIDE DEF g
  <2>7. ASSUME NEW k \in 0 .. m + 1 PROVE Rule(g, k) = Rule(f, k)
    <3>1. CASE k < base
      BY <3>1
    <3>2. CASE ~(k < base)
      <4>1. k \in Nat /\ k >= base /\ k - 1 <= m
        BY <2>1, <3>2
      <4>2. k \div base \in 0 .. k - 1
        BY <1>2, <4>1, Zenon
      <4>3. k \div base \in 0 .. m
        <5> DEFINE d == k \div base
        <5>1. d \in 0 .. k - 1
          BY <4>2
        <5> HIDE DEF d
        <5>2. d \in 0 .. m
          BY <2>1, <4>1, <5>1
        <5> QED BY <5>2 DEF d
      <4> QED BY <2>5, <3>2, <4>3, Zenon
    <3> QED BY <3>1, <3>2
  <2>8. \A k \in 0 .. m + 1 : g[k] = Rule(g, k)
    <3> TAKE k \in 0 .. m + 1
    <3> HIDE DEF Rule
    <3>1. k = m + 1 \/ k \in 0 .. m
      BY <2>1
    <3> QED BY <2>2, <2>5, <2>6, <2>7, <3>1
  <2> HIDE DEF Rule
  <2> QED BY <2>1, <2>4, <2>8, Zenon
<1>5. n \in S
  <2>1. S \in SUBSET Nat
    OBVIOUS
  <2> HIDE DEF S
  <2> QED BY <1>3, <1>4, <2>1, Induct
<1>6. PICK f : f \in [0 .. n -> Seq(Nat)] /\ \A k \in 0 .. n : f[k] = Rule(f, k)
  BY <1>5, Zenon
<1>7. Is(f)
  <2>1. f = [m \in 0 .. n |-> f[m]]
    BY <1>6
  <2> HIDE DEF Rule
  <2> QED BY <1>6, <2>1, Zenon
<1>8. Is(v)
  <2> HIDE DEF Is
  <2> QED BY <1>7, Zenon
<1>9. \A m \in 0 .. n : v[m] = Rule(v, m)
  <2>1. v = [m \in 0 .. n |-> Rule(v, m)]
    BY <1>8, Zenon
  <2> HIDE DEF v, Rule, Is
  <2> DEFINE g == [m \in 0 .. n |-> Rule(v, m)]
  <2>2. \A m \in 0 .. n : g[m] = Rule(v, m)
    OBVIOUS
  <2> HIDE DEF g
  <2>3. v = g
    BY <2>1 DEF g
  <2> QED BY <2>2, <2>3
<1>10. DigitsRule(v, n, base) /\ DigitsRule(f, n, base)
  BY <1>6, <1>9, Zenon DEF DigitsRule
<1>11. v[n] \in Seq(Nat)
  <2> HIDE DEF v, Rule
  <2>1. n \in 0 .. n
    OBVIOUS
  <2>2. v[n] = f[n]
    BY <1>10, <2>1, OneRule
  <2> QED BY <1>6, <2>1, <2>2
<1> HIDE DEF v, Is, S
<1> QED BY <1>1, <1>10, <1>11

\* The digits of a number are those of its quotient by the base, and the remainder.
LEMMA DigitsAre ==
  ASSUME NEW n \in Nat, NEW base \in Nat \ {0, 1}
  PROVE  /\ Text!Digits(n, base) \in Seq(Nat) /\ Len(Text!Digits(n, base)) \in Nat \ {0}
         /\ n < base => Text!Digits(n, base) = <<n>>
         /\ n >= base => Text!Digits(n, base) = Append(Text!Digits(n \div base, base), n % base)
<1>1. PICK f : Text!Digits(n, base) = f[n] /\ DigitsRule(f, n, base) /\ f[n] \in Seq(Nat)
  BY DigitsRun
<1>2. f[n] = IF n < base THEN <<n>> ELSE Append(f[n \div base], n % base)
  <2>1. n \in 0 .. n
    OBVIOUS
  <2> QED BY <1>1, <2>1 DEF DigitsRule
<1>3. CASE n < base
  <2>1. f[n] = <<n>> /\ ~(n >= base) /\ Len(<<n>>) = 1
    BY <1>2, <1>3
  <2> QED BY <1>1, <1>3, <2>1
<1>4. CASE ~(n < base)
  <2> DEFINE d == n \div base
  <2>0. n >= base
    BY <1>4
  <2>1. d \in 0 .. n - 1 /\ n % base \in Nat
    BY <2>0, Lower, Zenon
  <2>2. f[n] = Append(f[d], n % base)
    BY <1>2, <1>4
  <2> HIDE DEF d
  <2>3. d \in Nat /\ d \in 0 .. n /\ n \in 0 .. n
    BY <2>1
  <2>4. PICK g : Text!Digits(d, base) = g[d] /\ DigitsRule(g, d, base) /\ g[d] \in Seq(Nat)
    BY <2>3, DigitsRun
  <2>5. f[d] = g[d]
    BY <1>1, <2>3, <2>4, OneRule
  <2>6. f[n] = Append(g[d], n % base)
    BY <2>2, <2>5
  <2>7. Len(Append(g[d], n % base)) \in Nat \ {0}
    BY <2>1, <2>4, AppendProperties, LenProperties
  <2> QED BY <1>1, <1>4, <2>4, <2>6, <2>7 DEF d
<1> QED BY <1>3, <1>4

Zeros(k) == [i \in 1 .. IF k > 0 THEN k ELSE 0 |-> 0]

LEMMA ZerosAre ==
  ASSUME NEW k \in Int
  PROVE  /\ Zeros(k) \in Seq(Nat)
         /\ k <= 0 => Zeros(k) = <<>>
         /\ k > 0 => Len(Zeros(k)) = k /\ Zeros(k) = Append(Zeros(k - 1), 0)
<1>1. CASE k <= 0
  <2>1. Zeros(k) = <<>>
    BY <1>1 DEF Zeros
  <2> QED BY <1>1, <2>1
<1>2. CASE k > 0
  <2>1. k \in Nat /\ k - 1 \in Nat
    BY <1>2
  <2>2. Zeros(k) = [i \in 1 .. k |-> 0] /\ Zeros(k - 1) = [i \in 1 .. k - 1 |-> 0]
    BY <1>2, <2>1 DEF Zeros
  <2>3. Zeros(k) \in Seq(Nat) /\ Zeros(k - 1) \in Seq(Nat) /\ Len(Zeros(k)) = k /\ Len(Zeros(k - 1)) = k - 1
    BY <2>1, <2>2
  <2>4. /\ \A i \in 1 .. k : Zeros(k)[i] = 0
        /\ \A i \in 1 .. k - 1 : Zeros(k - 1)[i] = 0
    BY <2>2
  <2>5. /\ Append(Zeros(k - 1), 0) \in Seq(Nat) /\ Len(Append(Zeros(k - 1), 0)) = k
        /\ \A i \in 1 .. k - 1 : Append(Zeros(k - 1), 0)[i] = Zeros(k - 1)[i]
        /\ Append(Zeros(k - 1), 0)[k] = 0
    BY <2>1, <2>3, Appended
  <2>6. \A i \in 1 .. k : i = k \/ i \in 1 .. k - 1
    BY <2>1
  <2>7. \A i \in 1 .. k : Append(Zeros(k - 1), 0)[i] = Zeros(k)[i]
    BY <2>4, <2>5, <2>6
  <2>8. Zeros(k) = Append(Zeros(k - 1), 0)
    BY <2>3, <2>5, <2>7, SeqEqual, Zenon
  <2> QED BY <1>2, <2>3, <2>8
<1> QED BY <1>1, <1>2

LEMMA AppendOfConcat ==
  ASSUME NEW s \in Seq(Nat), NEW t \in Seq(Nat), NEW x \in Nat
  PROVE  s \o Append(t, x) = Append(s \o t, x)
<1>1. Append(t, x) = t \o <<x>> /\ <<x>> \in Seq(Nat)
  BY AppendIsConcat
<1>2. s \o t \in Seq(Nat)
  BY ConcatProperties
<1>3. Append(s \o t, x) = (s \o t) \o <<x>>
  BY <1>2, AppendIsConcat, Zenon
<1>4. (s \o t) \o <<x>> = s \o (t \o <<x>>)
  BY <1>1, ConcatAssociative
<1> QED BY <1>1, <1>3, <1>4, Zenon

\* A number with w digits is its quotient with w - 1, and the remainder.
LEMMA PaddedStep ==
  ASSUME NEW n \in Nat, NEW base \in Nat \ {0, 1}, NEW w \in Nat \ {0}
  PROVE  /\ Text!Padded(n, base, w) \in Seq(Nat)
         /\ w = 1 /\ n < base => Text!Padded(n, base, w) = <<n>>
         /\ w > 1 => Text!Padded(n, base, w)
                       = Append(Text!Padded(n \div base, base, w - 1), n % base)
<1> DEFINE D == Text!Digits(n, base)  l == Len(D)  d == n \div base  r == n % base
           E == Text!Digits(d, base)  k == Len(E)
<1>0. d \in Nat /\ r \in Nat
  BY Division
<1>1. /\ D \in Seq(Nat) /\ l \in Nat \ {0}
      /\ n < base => D = <<n>>
      /\ n >= base => D = Append(E, r)
  BY DigitsAre, Zenon
<1>2. E \in Seq(Nat) /\ k \in Nat \ {0} /\ (d < base => E = <<d>>)
  <2> HIDE DEF d
  <2> QED BY <1>0, DigitsAre, Zenon
<1>3. /\ Text!Padded(n, base, w) = Zeros(w - l) \o D
      /\ Text!Padded(d, base, w - 1) = Zeros(w - 1 - k) \o E
  <2>1. \A v, j \in Int : (IF v > j THEN v - j ELSE 0) = (IF v - j > 0 THEN v - j ELSE 0)
    OBVIOUS
  <2>2. l \in Int /\ k \in Int /\ w \in Int /\ w - 1 \in Int
    BY <1>1, <1>2
  <2>3. /\ Text!Padded(n, base, w) = [i \in 1 .. IF w > l THEN w - l ELSE 0 |-> 0] \o D
        /\ Text!Padded(d, base, w - 1) = [i \in 1 .. IF w - 1 > k THEN w - 1 - k ELSE 0 |-> 0] \o E
    BY DEF Text!Padded
  <2> HIDE DEF D, l, E, k, d
  <2> QED BY <2>1, <2>2, <2>3, Zenon DEF Zeros
<1>4. n < base => d = 0 /\ r = n
  <2> HAVE n < base
  <2>1. d * base \in Nat /\ n = d * base + r
    BY <1>0, Division
  <2> HIDE DEF d, r
  <2>2. d >= 1 => d * base >= base
    BY <1>0
  <2>3. d = 0
    BY <1>0, <2>1, <2>2
  <2> QED BY <1>0, <2>1, <2>3
<1>5. n < base => l = 1 /\ k = 1 /\ E = <<0>>
  BY <1>1, <1>2, <1>4
<1>6. n >= base => l = k + 1
  BY <1>0, <1>1, <1>2, AppendProperties
<1> HIDE DEF D, l, d, r, E, k
<1>7. Zeros(w - l) \in Seq(Nat) /\ Zeros(w - 1 - k) \in Seq(Nat)
  <2>1. w - l \in Int /\ w - 1 - k \in Int
    BY <1>1, <1>2
  <2> QED BY <2>1, ZerosAre
<1>8. CASE n < base
  <2>1. Text!Padded(n, base, w) = Zeros(w - 1) \o <<n>>
    BY <1>1, <1>3, <1>5, <1>8, Zenon
  <2>2. CASE w = 1
    <3>1. Zeros(w - 1) = <<>>
      BY <2>2, ZerosAre
    <3>2. <<>> \o <<n>> = <<n>> /\ <<n>> \in Seq(Nat)
      BY ConcatEmptySeq
    <3>3. Text!Padded(n, base, w) = <<n>> /\ <<n>> \in Seq(Nat)
      BY <2>1, <3>1, <3>2, Zenon
    <3>4. ~(w > 1)
      BY <2>2
    <3> QED BY <3>3, <3>4
  <2>3. CASE w > 1
    <3>0. w - 1 \in Int /\ w - 1 - 1 \in Int /\ w - 1 > 0
      BY <2>3
    <3>1. Zeros(w - 1) = Append(Zeros(w - 1 - 1), 0) /\ Zeros(w - 1) \in Seq(Nat) /\ Zeros(w - 1 - 1) \in Seq(Nat)
      BY <3>0, ZerosAre, Zenon
    <3>2. Append(Zeros(w - 1 - 1), 0) = Zeros(w - 1 - 1) \o <<0>>
      BY <3>1, AppendIsConcat
    <3>3. Text!Padded(d, base, w - 1) = Zeros(w - 1)
      BY <1>3, <1>5, <1>8, <3>1, <3>2, Zenon
    <3>4. Append(Zeros(w - 1), n) = Zeros(w - 1) \o <<n>>
      BY <3>1, AppendIsConcat
    <3>5. Append(Zeros(w - 1), n) \in Seq(Nat)
      BY <3>1, AppendProperties
    <3>6. Text!Padded(n, base, w) = Append(Text!Padded(d, base, w - 1), r)
      BY <1>4, <1>8, <2>1, <3>3, <3>4
    <3> QED BY <1>8, <2>1, <2>3, <3>4, <3>5, <3>6 DEF d, r
  <2> QED BY <2>2, <2>3
<1>9. CASE ~(n < base)
  <2>1. D = Append(E, r) /\ l = k + 1 /\ w - l = w - 1 - k
    BY <1>1, <1>2, <1>6, <1>9
  <2>2. Zeros(w - l) \o Append(E, r) = Append(Zeros(w - l) \o E, r)
    BY <1>0, <1>2, <1>7, AppendOfConcat
  <2>3. Text!Padded(n, base, w) \in Seq(Nat)
    BY <1>1, <1>3, <1>7, ConcatProperties
  <2> QED BY <1>3, <1>9, <2>1, <2>2, <2>3, Zenon DEF d, r
<1> QED BY <1>8, <1>9

-----------------------------------------------------------------------------
\* Numbers below limit are in the order of their w digits.
PaddedOrdered(w, limit) ==
  \A p, q \in 0 .. limit - 1 : Ordered(Text!Padded(p, 10, w), Text!Padded(q, 10, w), p, q)

LEMMA PaddedMore ==
  ASSUME NEW w \in Nat \ {0}, NEW limit \in Nat, PaddedOrdered(w, limit)
  PROVE  PaddedOrdered(w + 1, 10 * limit)
<1> SUFFICES ASSUME NEW p \in 0 .. 10 * limit - 1, NEW q \in 0 .. 10 * limit - 1
             PROVE  Ordered(Text!Padded(p, 10, w + 1), Text!Padded(q, 10, w + 1), p, q)
  BY DEF PaddedOrdered
<1> DEFINE d == p \div 10  e == q \div 10  x == p % 10  y == q % 10
<1>1. /\ d \in 0 .. limit - 1 /\ e \in 0 .. limit - 1 /\ x \in 0 .. 9 /\ y \in 0 .. 9
      /\ p = 10 * d + x /\ q = 10 * e + y /\ p \in Nat /\ q \in Nat
  OBVIOUS
<1>2. PICK base \in Nat \ {0, 1} : base = 10
  OBVIOUS
<1>3. w + 1 \in Nat \ {0} /\ w + 1 > 1 /\ w + 1 - 1 = w
  OBVIOUS
<1>4. /\ Text!Padded(p, base, w + 1) = Append(Text!Padded(p \div base, base, w + 1 - 1), p % base)
      /\ Text!Padded(q, base, w + 1) = Append(Text!Padded(q \div base, base, w + 1 - 1), q % base)
  <2> DEFINE v == w + 1
  <2>1. v \in Nat \ {0} /\ v > 1
    OBVIOUS
  <2> HIDE DEF v
  <2>2. \A n \in Nat : Text!Padded(n, base, v) = Append(Text!Padded(n \div base, base, v - 1), n % base)
    BY <2>1, PaddedStep, Zenon
  <2>3. p \in Nat /\ q \in Nat
    BY <1>1
  <2>4. /\ Text!Padded(p, base, v) = Append(Text!Padded(p \div base, base, v - 1), p % base)
        /\ Text!Padded(q, base, v) = Append(Text!Padded(q \div base, base, v - 1), q % base)
    BY <2>2, <2>3, Zenon
  <2> QED BY <2>4 DEF v
<1>5. /\ Text!Padded(p, 10, w + 1) = Append(Text!Padded(d, 10, w), x)
      /\ Text!Padded(q, 10, w + 1) = Append(Text!Padded(e, 10, w), y)
  BY <1>2, <1>3, <1>4, Zenon
<1> HIDE DEF d, e, x, y
<1>6. Ordered(Text!Padded(d, 10, w), Text!Padded(e, 10, w), d, e)
  BY <1>1 DEF PaddedOrdered
<1>7. Ordered(Append(Text!Padded(d, 10, w), x), Append(Text!Padded(e, 10, w), y), 10 * d + x, 10 * e + y)
  BY <1>1, <1>6, OrderedMore
<1> QED BY <1>1, <1>5, <1>7, Zenon

LEMMA PaddedAre ==
  PaddedOrdered(2, 100) /\ PaddedOrdered(3, 1000) /\ PaddedOrdered(4, 10000)
<1>1. PaddedOrdered(1, 10)
  <2> SUFFICES ASSUME NEW p \in 0 .. 9, NEW q \in 0 .. 9
               PROVE  Ordered(Text!Padded(p, 10, 1), Text!Padded(q, 10, 1), p, q)
    BY DEF PaddedOrdered
  <2>1. p \in Nat /\ q \in Nat
    OBVIOUS
  <2>2. PICK base \in Nat \ {0, 1}, w \in Nat \ {0} : base = 10 /\ w = 1
    OBVIOUS
  <2>3. \A n \in Nat : n < base => Text!Padded(n, base, w) = <<n>>
    BY <2>2, PaddedStep
  <2>4. Ordered(<<p>>, <<q>>, p, q)
    BY <2>1, OrderedOne
  <2>5. Text!Padded(p, 10, 1) = <<p>> /\ Text!Padded(q, 10, 1) = <<q>>
    BY <2>1, <2>2, <2>3
  <2> QED BY <2>4, <2>5
<1>2. \A w \in Nat \ {0}, limit \in Nat : PaddedOrdered(w, limit) => PaddedOrdered(w + 1, 10 * limit)
  BY PaddedMore
<1>3. PaddedOrdered(2, 100)
  <2>1. PaddedOrdered(1 + 1, 10 * 10)
    BY <1>1, <1>2
  <2> QED BY <2>1
<1>4. PaddedOrdered(3, 1000)
  <2>1. PaddedOrdered(2 + 1, 10 * 100)
    BY <1>2, <1>3
  <2> QED BY <2>1
<1>5. PaddedOrdered(4, 10000)
  <2>1. PaddedOrdered(3 + 1, 10 * 1000)
    BY <1>2, <1>4
  <2> QED BY <2>1
<1> QED BY <1>3, <1>4, <1>5

-----------------------------------------------------------------------------
\* f[i] is the first i texts one behind the other.
FlatRule(f, texts, n) == f[1] = texts[1] /\ \A i \in 2 .. n : f[i] = f[i - 1] \o texts[i]

LEMMA FlattenRuns ==
  ASSUME NEW E, NEW n \in Nat \ {0}, NEW texts \in [1 .. n -> Seq(E)]
  PROVE  \E f : FlattenSeq(texts) = f[n] /\ FlatRule(f, texts, n) /\ \A i \in 1 .. n : f[i] \in Seq(E)
<1> DEFINE N == 1 .. n
           Is(f) == f = [i \in N |-> IF i = 1 THEN texts[i] ELSE f[i - 1] \o texts[i]]
           v == CHOOSE f : Is(f)
           step == [i \in N |-> [l \in Seq(E) |-> l \o texts[i]]]
<1>1. FlattenSeq(texts) = v[n]
  <2>1. Len(texts) = n /\ Len(texts) # 0
    OBVIOUS
  <2> QED BY <2>1 DEF FlattenSeq
<1>2. \A i \in N, l \in Seq(E) : step[i][l] = l \o texts[i] /\ l \o texts[i] \in Seq(E)
  <2>1. \A l, t \in Seq(E) : l \o t \in Seq(E)
    BY ConcatProperties
  <2> QED BY <2>1
<1> HIDE DEF step
<1>3. <<>> \in Seq(E) /\ StaysIn(n, Seq(E), step) /\ n \in Nat
  <2>1. <<>> \in Seq(E) /\ n \in Nat
    OBVIOUS
  <2>2. \A i \in N, l \in Seq(E) : step[i][l] \in Seq(E)
    BY <1>2, Zenon
  <2> QED BY <2>1, <2>2, Zenon DEF StaysIn
<1>4. PICK f : f \in [0 .. n -> Seq(E)] /\ LoopOf(f, n, <<>>, step)
  BY <1>3, LoopExists, Zenon
<1>5. \A i \in N : f[i] = f[i - 1] \o texts[i]
  <2> TAKE i \in N
  <2>1. i - 1 \in 0 .. n
    OBVIOUS
  <2>2. f[i - 1] \in Seq(E) /\ f[i] = step[i][f[i - 1]]
    BY <1>4, <2>1, Zenon DEF LoopOf
  <2> QED BY <1>2, <2>2, Zenon
<1>6. f[0] = <<>> /\ f[1] = texts[1]
  <2>1. f[0] = <<>>
    BY <1>4 DEF LoopOf
  <2>2. 1 \in N /\ 1 - 1 = 0 /\ texts[1] \in Seq(E)
    OBVIOUS
  <2>3. <<>> \o texts[1] = texts[1]
    BY <2>2, ConcatEmptySeq
  <2> QED BY <1>5, <2>1, <2>2, <2>3, Zenon
<1>7. \E g : Is(g)
  <2> DEFINE g == [i \in N |-> f[i]]
             Then(h, i) == IF i = 1 THEN texts[i] ELSE h[i - 1] \o texts[i]
  <2>1. \A i \in N : i # 1 => i - 1 \in N
    OBVIOUS
  <2>2. \A i \in N : g[i] = f[i]
    OBVIOUS
  <2> HIDE DEF g
  <2>3. \A i \in N : f[i] = Then(g, i)
    <3> HIDE DEF N
    <3> QED BY <1>5, <1>6, <2>1, <2>2, Zenon
  <2>4. g = [i \in N |-> Then(g, i)]
    <3> HIDE DEF Then, N
    <3> QED BY <2>3 DEF g
  <2> QED BY <2>4, Zenon
<1>8. v = [i \in N |-> IF i = 1 THEN texts[i] ELSE v[i - 1] \o texts[i]]
  <2>1. Is(v)
    <3> HIDE DEF Is
    <3> QED BY <1>7, Zenon
  <2> QED BY <2>1, Zenon
<1> HIDE DEF v, Is
<1>9. FlatRule(v, texts, n)
  <2> DEFINE g == [i \in N |-> IF i = 1 THEN texts[i] ELSE v[i - 1] \o texts[i]]
  <2>0. 1 \in N /\ \A i \in 2 .. n : i \in N /\ i # 1
    OBVIOUS
  <2>1. g[1] = texts[1] /\ \A i \in 2 .. n : g[i] = v[i - 1] \o texts[i]
    <3> HIDE DEF N
    <3> QED BY <2>0, Zenon
  <2> HIDE DEF g
  <2>2. v = g
    BY <1>8, Zenon DEF g
  <2> QED BY <2>1, <2>2, Zenon DEF FlatRule
<1>10. \A i \in 0 .. n : i = 0 \/ v[i] \in Seq(E)
  <2> DEFINE S == {i \in 0 .. n : i = 0 \/ v[i] \in Seq(E)}
  <2>1. 0 \in S
    OBVIOUS
  <2>2. ASSUME NEW i \in 1 .. n, i - 1 \in S PROVE i \in S
    <3>1. texts[i] \in Seq(E)
      OBVIOUS
    <3>2. CASE i = 1
      BY <1>9, <3>1, <3>2 DEF FlatRule
    <3>3. CASE i # 1
      <4>1. i \in 2 .. n /\ i \in 0 .. n /\ v[i - 1] \in Seq(E)
        BY <2>2, <3>3
      <4>2. v[i] = v[i - 1] \o texts[i]
        BY <1>9, <4>1, Zenon DEF FlatRule
      <4>3. v[i - 1] \o texts[i] \in Seq(E)
        BY <3>1, <4>1, ConcatProperties, Zenon
      <4> QED BY <4>1, <4>2, <4>3
    <3> QED BY <3>2, <3>3
  <2> HIDE DEF S
  <2>3. \A i \in 0 .. n : i \in S
    BY <2>1, <2>2, RoundByRound, Zenon
  <2> QED BY <2>3 DEF S
<1>11. \A i \in N : v[i] \in Seq(E)
  BY <1>10
<1> HIDE DEF N
<1> QED BY <1>1, <1>9, <1>11, Zenon DEF N

-----------------------------------------------------------------------------
\* The limits of the fields of a time.
Limits == <<10000, 100, 100, 100, 100, 100, 1000>>

FieldTimes(s) == s \in Seq(Nat) /\ Len(s) = 7 /\ \A i \in 1 .. 7 : s[i] \in 0 .. Limits[i] - 1

\* s comes before t by its first n fields, and is equal in them.
BeforeTo(s, t, n) == \E i \in 1 .. n : s[i] < t[i] /\ \A k \in 1 .. i - 1 : s[k] = t[k]
EqualTo(s, t, n)  == \A i \in 1 .. n : s[i] = t[i]

\* The text x of the first n fields of s, and y of those of t, are in their order.
TextsTo(x, y, s, t, n) ==
  /\ Alike(x, y)
  /\ Lex(x, y) <=> BeforeTo(s, t, n)
  /\ x = y <=> EqualTo(s, t, n)

LEMMA ToNext ==
  ASSUME NEW s, NEW t, NEW n \in Nat
  PROVE  /\ EqualTo(s, t, n + 1) <=> EqualTo(s, t, n) /\ s[n + 1] = t[n + 1]
         /\ BeforeTo(s, t, n + 1) <=> BeforeTo(s, t, n) \/ (EqualTo(s, t, n) /\ s[n + 1] < t[n + 1])
<1>1. n + 1 \in 1 .. n + 1 /\ \A i \in 1 .. n + 1 : i = n + 1 \/ i \in 1 .. n
  OBVIOUS
<1>2. \A i \in 1 .. n : i \in 1 .. n + 1
  OBVIOUS
<1>3. EqualTo(s, t, n + 1) <=> EqualTo(s, t, n) /\ s[n + 1] = t[n + 1]
  BY <1>1, <1>2 DEF EqualTo
<1>4. EqualTo(s, t, n) <=> \A k \in 1 .. n + 1 - 1 : s[k] = t[k]
  <2>1. n + 1 - 1 = n
    OBVIOUS
  <2> QED BY <2>1 DEF EqualTo
<1> DEFINE FirstAt(i) == s[i] < t[i] /\ \A k \in 1 .. i - 1 : s[k] = t[k]
<1>5. (\E i \in 1 .. n + 1 : FirstAt(i)) <=> (\E i \in 1 .. n : FirstAt(i)) \/ FirstAt(n + 1)
  <2> HIDE DEF FirstAt
  <2> QED BY <1>1, <1>2
<1>6. FirstAt(n + 1) <=> EqualTo(s, t, n) /\ s[n + 1] < t[n + 1]
  BY <1>4
<1> QED BY <1>3, <1>5, <1>6 DEF BeforeTo

LEMMA TextsNext ==
  ASSUME NEW x, NEW y, NEW s, NEW t, NEW n \in Nat, TextsTo(x, y, s, t, n),
         NEW u, NEW w, Ordered(u, w, s[n + 1], t[n + 1])
  PROVE  TextsTo(x \o u, y \o w, s, t, n + 1)
<1>1. Alike(x, y) /\ Alike(u, w)
  BY DEF TextsTo, Ordered
<1>2. Decides(x, y, u, w)
  BY <1>1, LexConcat
<1>3. /\ Lex(x \o u, y \o w) <=> Lex(x, y) \/ (x = y /\ Lex(u, w))
      /\ x \o u = y \o w <=> x = y /\ u = w
      /\ Alike(x \o u, y \o w)
  BY <1>2, Zenon DEF Decides
<1>4. (Lex(u, w) <=> s[n + 1] < t[n + 1]) /\ (u = w <=> s[n + 1] = t[n + 1])
  BY DEF Ordered
<1>5. (Lex(x, y) <=> BeforeTo(s, t, n)) /\ (x = y <=> EqualTo(s, t, n))
  BY DEF TextsTo
<1>6. /\ EqualTo(s, t, n + 1) <=> EqualTo(s, t, n) /\ s[n + 1] = t[n + 1]
      /\ BeforeTo(s, t, n + 1) <=> BeforeTo(s, t, n) \/ (EqualTo(s, t, n) /\ s[n + 1] < t[n + 1])
  BY ToNext
<1> QED BY <1>3, <1>4, <1>5, <1>6, Zenon DEF TextsTo

LEMMA TextsFirst ==
  ASSUME NEW s, NEW t, NEW u, NEW w, Ordered(u, w, s[1], t[1])
  PROVE  TextsTo(u, w, s, t, 1)
<1>1. \A i \in 1 .. 1 : i = 1 /\ 1 .. i - 1 = {}
  OBVIOUS
<1>2. 1 \in 1 .. 1 /\ 1 .. 1 - 1 = {}
  OBVIOUS
<1>3. EqualTo(s, t, 1) <=> s[1] = t[1]
  BY <1>1, <1>2 DEF EqualTo
<1>4. BeforeTo(s, t, 1) <=> s[1] < t[1]
  BY <1>1, <1>2 DEF BeforeTo
<1> QED BY <1>3, <1>4 DEF TextsTo, Ordered

LEMMA FieldOrdered ==
  ASSUME NEW s, NEW t, FieldTimes(s), FieldTimes(t), NEW i \in 1 .. 7
  PROVE  Ordered(Text!Padded(s[i], 10, PlainWidths[i]), Text!Padded(t[i], 10, PlainWidths[i]), s[i], t[i])
<1>1. s[i] \in 0 .. Limits[i] - 1 /\ t[i] \in 0 .. Limits[i] - 1
  BY Zenon DEF FieldTimes
<1>2. PaddedOrdered(PlainWidths[i], Limits[i])
  <2>1. CASE i = 1
    BY <2>1, PaddedAre DEF PlainWidths, Limits
  <2>2. CASE i = 7
    BY <2>2, PaddedAre DEF PlainWidths, Limits
  <2>3. CASE i \in 2 .. 6
    <3>1. PlainWidths[i] = 2 /\ Limits[i] = 100
      BY <2>3 DEF PlainWidths, Limits
    <3> QED BY <3>1, PaddedAre
  <2> QED BY <2>1, <2>2, <2>3
<1> QED BY <1>1, <1>2 DEF PaddedOrdered

LEMMA PlainTexts ==
  ASSUME NEW s, NEW t, FieldTimes(s), FieldTimes(t)
  PROVE  TextsTo(to_plain_string(s), to_plain_string(t), s, t, 7)
<1> DEFINE Field(u, i) == Text!Padded(u[i], 10, PlainWidths[i])
           xs == [i \in 1 .. 7 |-> Field(s, i)]
           ys == [i \in 1 .. 7 |-> Field(t, i)]
<1>1. \A i \in 1 .. 7 : Ordered(Field(s, i), Field(t, i), s[i], t[i])
  BY FieldOrdered
<1>2. to_plain_string(s) = FlattenSeq(xs) /\ to_plain_string(t) = FlattenSeq(ys)
  <2>1. Len(s) = 7 /\ Len(t) = 7
    BY DEF FieldTimes
  <2> QED BY <2>1 DEF to_plain_string
<1> HIDE DEF Field
<1>3. \A i \in 1 .. 7 : xs[i] = Field(s, i) /\ ys[i] = Field(t, i)
  OBVIOUS
<1>4. xs \in [1 .. 7 -> Seq(Int)] /\ ys \in [1 .. 7 -> Seq(Int)]
  <2>1. \A i \in 1 .. 7 : Field(s, i) \in Seq(Int) /\ Field(t, i) \in Seq(Int)
    BY <1>1, Zenon DEF Ordered, Alike
  <2> QED BY <2>1
<1> HIDE DEF xs, ys
<1>5. PICK n \in Nat \ {0} : n = 7
  OBVIOUS
<1>6. PICK f : FlattenSeq(xs) = f[n] /\ FlatRule(f, xs, n)
  BY <1>4, <1>5, FlattenRuns, Zenon
<1>7. PICK g : FlattenSeq(ys) = g[n] /\ FlatRule(g, ys, n)
  BY <1>4, <1>5, FlattenRuns, Zenon
<1>8. f[1] = xs[1] /\ g[1] = ys[1] /\ \A i \in 2 .. 7 : f[i] = f[i - 1] \o xs[i] /\ g[i] = g[i - 1] \o ys[i]
  BY <1>5, <1>6, <1>7, Zenon DEF FlatRule
<1> DEFINE S == {m \in 0 .. 6 : TextsTo(f[m + 1], g[m + 1], s, t, m + 1)}
<1>9. 0 \in S
  <2>1. 1 \in 1 .. 7 /\ 0 + 1 = 1 /\ 0 \in 0 .. 6
    OBVIOUS
  <2>2. Ordered(f[1], g[1], s[1], t[1])
    BY <1>1, <1>3, <1>8, <2>1
  <2>3. TextsTo(f[1], g[1], s, t, 1)
    BY <2>2, TextsFirst
  <2> QED BY <2>1, <2>3
<1>10. ASSUME NEW m \in 1 .. 6, m - 1 \in S PROVE m \in S
  <2>1. m \in Nat /\ m + 1 \in 1 .. 7 /\ m + 1 \in 2 .. 7 /\ m + 1 - 1 = m /\ m - 1 + 1 = m /\ m \in 0 .. 6
    OBVIOUS
  <2>2. TextsTo(f[m], g[m], s, t, m)
    BY <1>10, <2>1
  <2>3. Ordered(xs[m + 1], ys[m + 1], s[m + 1], t[m + 1])
    BY <1>1, <1>3, <2>1
  <2>4. f[m + 1] = f[m] \o xs[m + 1] /\ g[m + 1] = g[m] \o ys[m + 1]
    <3>1. PICK k \in 2 .. 7 : k = m + 1 /\ k - 1 = m
      BY <2>1
    <3>2. f[k] = f[k - 1] \o xs[k] /\ g[k] = g[k - 1] \o ys[k]
      BY <1>8, Zenon
    <3> QED BY <3>1, <3>2
  <2>5. TextsTo(f[m] \o xs[m + 1], g[m] \o ys[m + 1], s, t, m + 1)
    BY <2>1, <2>2, <2>3, TextsNext
  <2> QED BY <2>1, <2>4, <2>5, Zenon
<1>11. 6 \in S
  <2>1. PICK e \in Nat : e = 6
    OBVIOUS
  <2> HIDE DEF S
  <2>2. \A i \in 0 .. e : i \in S
    BY <1>9, <1>10, <2>1, RoundByRound
  <2> QED BY <2>1, <2>2
<1> QED BY <1>2, <1>5, <1>6, <1>7, <1>11

LEMMA PlainFields ==
  ASSUME NEW s \in Plain
  PROVE  FieldTimes(s)
<1>1. PICK y \in {0, 99, 2024, 9999}, mo \in {1, 12}, d \in {9, 10}, mi \in {9, 59}, ms \in {5, 50, 500} :
        s = <<y, mo, d, 0, mi, 1, ms>>
  BY DEF Plain
<1>2. s \in Seq(Nat) /\ Len(s) = 7
  BY <1>1
<1>3. ASSUME NEW i \in 1 .. 7 PROVE s[i] \in 0 .. Limits[i] - 1
  <2>1. i \in {1, 2, 3, 4, 5, 6, 7}
    OBVIOUS
  <2> QED BY <1>1, <2>1 DEF Limits
<1> QED BY <1>2, <1>3 DEF FieldTimes

LEMMA PlainIs ==
  ASSUME NEW s \in Plain, NEW t \in Plain, call = [fn |-> "plain", s |-> s, t |-> t]
  PROVE  PlainSorts
<1>1. call.fn = "plain" /\ call.s = s /\ call.t = t
  OBVIOUS
<1>2. FieldTimes(s) /\ FieldTimes(t)
  BY PlainFields
<1>3. TextsTo(to_plain_string(s), to_plain_string(t), s, t, 7)
  BY <1>2, PlainTexts
<1>4. Lex(to_plain_string(s), to_plain_string(t)) <=> BeforeTo(s, t, 7)
  BY <1>3 DEF TextsTo
<1>5. Lex(s, t) <=> BeforeTo(s, t, 7)
  BY <1>2 DEF FieldTimes, Lex, BeforeTo
<1>6. PlainSorts <=> (Lex(s, t) <=> Lex(to_plain_string(s), to_plain_string(t)))
  BY <1>1 DEF PlainSorts, Lex
<1> QED BY <1>4, <1>5, <1>6

-----------------------------------------------------------------------------
(* Hours and minutes.                                                      *)

ClockDigit == DOMAIN Number

LEMMA ShortValue ==
  ASSUME NEW x \in Seq(ClockDigit), Len(x) \in 1 .. 2
  PROVE  Value(x) \in Nat
<1> DEFINE D == 0 .. Len(x)
           Is(v) == v = [i \in D |-> IF i = 0 THEN 0 ELSE 10 * v[i - 1] + Number[x[i]]]
           v == CHOOSE w : Is(w)
           f0 == 0
           f1 == 10 * f0 + Number[x[1]]
           f2 == 10 * f1 + Number[x[2]]
           f == [i \in D |-> IF i = 0 THEN f0 ELSE IF i = 1 THEN f1 ELSE f2]
<1>1. Value(x) = v[Len(x)]
  BY DEF Value
<1>2. \A i \in 1 .. Len(x) : x[i] \in ClockDigit
  OBVIOUS
<1>3. \A c \in ClockDigit : Number[c] \in Nat
  BY NumberIs DEF ClockDigit
<1>4. f1 \in Nat /\ (Len(x) = 2 => f2 \in Nat)
  BY <1>2, <1>3
<1>5. Is(f)
  <2>0. Len(x) = 1 \/ Len(x) = 2
    OBVIOUS
  <2>1. \A i \in D : i = 0 \/ i = 1 \/ i = 2
    <3>1. \A n \in {1, 2} : \A i \in 0 .. n : i = 0 \/ i = 1 \/ i = 2
      OBVIOUS
    <3> QED BY <2>0, <3>1, Zenon
  <2>2. 1 - 1 = 0 /\ 2 - 1 = 1 /\ 0 \in D /\ 1 \in D
    OBVIOUS
  <2> HIDE DEF D, f0, f1, f2
  <2>3. \A i \in D : f[i] = IF i = 0 THEN f0 ELSE IF i = 1 THEN f1 ELSE f2
    OBVIOUS
  <2>4. \A i \in D : f[i] = IF i = 0 THEN 0 ELSE 10 * f[i - 1] + Number[x[i]]
    BY <2>1, <2>2, <2>3 DEF f0, f1, f2
  <2>5. f = [i \in D |-> f[i]]
    OBVIOUS
  <2> HIDE DEF f
  <2> QED BY <2>4, <2>5, Zenon
<1>6. Is(v)
  <2> HIDE DEF Is
  <2> QED BY <1>5, Zenon
<1>7. v[0] = 0 /\ \A i \in 1 .. Len(x) : v[i] = 10 * v[i - 1] + Number[x[i]]
  <2> DEFINE g == [i \in D |-> IF i = 0 THEN 0 ELSE 10 * v[i - 1] + Number[x[i]]]
  <2>0. v = g
    BY <1>6, Zenon
  <2> HIDE DEF v, Is
  <2>1. 0 \in D /\ \A i \in 1 .. Len(x) : i \in D /\ i # 0
    OBVIOUS
  <2>2. g[0] = 0 /\ \A i \in 1 .. Len(x) : g[i] = 10 * v[i - 1] + Number[x[i]]
    <3> HIDE DEF D
    <3> QED BY <2>1
  <2> HIDE DEF g
  <2> QED BY <2>0, <2>2
<1> HIDE DEF v, Is, D, f
<1>8. v[1] = f1 /\ (Len(x) = 2 => v[2] = f2)
  <2>1. 1 \in 1 .. Len(x) /\ 1 - 1 = 0 /\ (Len(x) = 2 => 2 \in 1 .. Len(x)) /\ 2 - 1 = 1
    OBVIOUS
  <2> QED BY <1>7, <2>1
<1>9. Len(x) = 1 \/ Len(x) = 2
  OBVIOUS
<1> QED BY <1>1, <1>4, <1>8, <1>9, Zenon

\* A number of one or two digits behind i, that ends with j.
DigitsAt(s, i, j) ==
  i \in Nat /\ j \in i + 1 .. i + 2 /\ j <= Len(s) /\ \A p \in i + 1 .. j : s[p] \in ClockDigit

LEMMA DigitsAtIs ==
  ASSUME NEW C, NEW s \in Seq(C), NEW i \in Nat, NEW j \in i + 1 .. i + 2, j <= Len(s)
  PROVE  /\ IsNumber(SubSeq(s, i + 1, j)) <=> DigitsAt(s, i, j)
         /\ Len(SubSeq(s, i + 1, j)) = j - i
         /\ DigitsAt(s, i, j) => Value(SubSeq(s, i + 1, j)) \in Nat
<1> DEFINE x == SubSeq(s, i + 1, j)
<1>1. Len(x) = j - i /\ j - i \in 1 .. 2 /\ x \in Seq(C) /\ \A p \in 1 .. j - i : x[p] = s[i + p]
  <2>1. \A p \in i + 1 .. j : s[p] \in C
    <3>1. \A p \in i + 1 .. j : p \in 1 .. Len(s)
      OBVIOUS
    <3> QED BY <3>1, ElementOfSeq
  <2>2. i + 1 \in Int /\ j \in Int /\ i + 1 <= j /\ j - (i + 1) + 1 = j - i
    OBVIOUS
  <2>3. /\ x \in Seq(C) /\ Len(x) = j - (i + 1) + 1
        /\ \A p \in 1 .. j - (i + 1) + 1 : x[p] = s[i + 1 + p - 1]
    BY <2>1, <2>2, SubSeqProperties
  <2>4. \A p \in 1 .. j - i : i + 1 + p - 1 = i + p
    OBVIOUS
  <2> HIDE DEF x
  <2> QED BY <2>2, <2>3, <2>4
<1> HIDE DEF x
<1>2. x # <<>>
  BY <1>1
<1>3. IsNumber(x) <=> \A p \in 1 .. j - i : x[p] \in ClockDigit
  BY <1>1, <1>2 DEF IsNumber, ClockDigit
<1>4. (\A p \in 1 .. j - i : x[p] \in ClockDigit) <=> \A p \in i + 1 .. j : s[p] \in ClockDigit
  <2>1. ASSUME \A p \in 1 .. j - i : x[p] \in ClockDigit, NEW q \in i + 1 .. j PROVE s[q] \in ClockDigit
    <3>1. PICK p \in 1 .. j - i : q = i + p
      <4>1. q - i \in 1 .. j - i /\ q = i + (q - i)
        OBVIOUS
      <4> QED BY <4>1
    <3> QED BY <1>1, <2>1, <3>1
  <2>2. ASSUME \A p \in i + 1 .. j : s[p] \in ClockDigit, NEW p \in 1 .. j - i PROVE x[p] \in ClockDigit
    <3>1. i + p \in i + 1 .. j
      OBVIOUS
    <3> QED BY <1>1, <2>2, <3>1
  <2> QED BY <2>1, <2>2
<1>5. IsNumber(x) <=> DigitsAt(s, i, j)
  BY <1>3, <1>4 DEF DigitsAt
<1>6. ASSUME DigitsAt(s, i, j) PROVE Value(x) \in Nat
  <2>1. \A p \in 1 .. Len(x) : x[p] \in ClockDigit
    BY <1>1, <1>3, <1>5, <1>6
  <2>2. x \in Seq(ClockDigit)
    BY <1>1, <2>1
  <2> QED BY <1>1, <2>2, ShortValue, Zenon
<1> QED BY <1>1, <1>5, <1>6 DEF x

NumberAt(s, i, j, max) == DigitsAt(s, i, j) /\ Value(SubSeq(s, i + 1, j)) <= max

\* A time that begins behind i, with its colon behind j, and ends with k.
TimeAt(s, i, j, k) ==
  NumberAt(s, i, j, 23) /\ s[j + 1] = ":" /\ NumberAt(s, j + 1, k, 59)

TimeOf(s, i, j, k) == 60 * Value(SubSeq(s, i + 1, j)) + Value(SubSeq(s, j + 2, k))

LEMMA FallbackIs ==
  ASSUME NEW C, NEW s \in Seq(C), NEW r
  PROVE  r \in fallback(s) <=> \E j \in Nat : TimeAt(s, 0, j, Len(s)) /\ r = TimeOf(s, 0, j, Len(s))
<1> DEFINE Fits(t, max) == Len(t) \in 1 .. 2 /\ IsNumber(t) /\ Value(t) <= max
           EndsAt(e) == /\ s[e] = ":" /\ Fits(SubSeq(s, 1, e - 1), 23)
                        /\ Fits(SubSeq(s, e + 1, Len(s)), 59)
           Of(e) == 60 * Value(SubSeq(s, 1, e - 1)) + Value(SubSeq(s, e + 1, Len(s)))
           n == Len(s)
<1>1. r \in fallback(s) <=> \E e \in 1 .. n : EndsAt(e) /\ r = Of(e)
  <2>1. fallback(s) = {Of(e) : e \in {g \in 1 .. n : EndsAt(g)}}
    BY DEF fallback
  <2> HIDE DEF EndsAt, Of, n
  <2> QED BY <2>1
<1>2. n \in Nat
  BY LenProperties
<1>3. ASSUME NEW j \in Nat, j + 1 \in 1 .. n
      PROVE  EndsAt(j + 1) <=> TimeAt(s, 0, j, n)
  <2>1. /\ SubSeq(s, 1, j + 1 - 1) = SubSeq(s, 0 + 1, j)
        /\ SubSeq(s, j + 1 + 1, n) = SubSeq(s, (j + 1) + 1, n)
    BY <1>2
  <2>2. Fits(SubSeq(s, 1, j + 1 - 1), 23) <=> NumberAt(s, 0, j, 23)
    <3>1. CASE j \in 0 + 1 .. 0 + 2
      <4>1. 0 \in Nat /\ j <= Len(s) /\ j - 0 \in 1 .. 2
        BY <1>2, <1>3, <3>1
      <4>2. /\ IsNumber(SubSeq(s, 0 + 1, j)) <=> DigitsAt(s, 0, j)
            /\ Len(SubSeq(s, 0 + 1, j)) = j - 0
        BY <3>1, <4>1, DigitsAtIs
      <4> QED BY <2>1, <4>1, <4>2 DEF NumberAt
    <3>2. CASE j \notin 0 + 1 .. 0 + 2
      <4>1. ~NumberAt(s, 0, j, 23)
        BY <3>2 DEF NumberAt, DigitsAt
      <4>2. Len(SubSeq(s, 1, j)) = j
        <5>1. \A p \in 1 .. j : s[p] \in C
          <6>1. \A p \in 1 .. j : p \in 1 .. Len(s)
            BY <1>2, <1>3
          <6> QED BY <6>1, ElementOfSeq
        <5>2. 1 \in Int /\ j \in Int
          OBVIOUS
        <5>3. Len(SubSeq(s, 1, j)) = IF 1 <= j THEN j - 1 + 1 ELSE 0
          BY <5>1, <5>2, SubSeqProperties
        <5> QED BY <5>3
      <4>3. j + 1 - 1 = j /\ j \notin 1 .. 2
        BY <3>2
      <4> QED BY <4>1, <4>2, <4>3
    <3> QED BY <3>1, <3>2
  <2>3. Fits(SubSeq(s, j + 1 + 1, n), 59) <=> NumberAt(s, j + 1, n, 59)
    <3>0. j + 1 \in Nat /\ n <= Len(s)
      BY <1>2
    <3>1. CASE n \in (j + 1) + 1 .. (j + 1) + 2
      <4>1. n - (j + 1) \in 1 .. 2
        BY <1>2, <3>1
      <4>2. /\ IsNumber(SubSeq(s, (j + 1) + 1, n)) <=> DigitsAt(s, j + 1, n)
            /\ Len(SubSeq(s, (j + 1) + 1, n)) = n - (j + 1)
        BY <3>0, <3>1, DigitsAtIs
      <4> QED BY <2>1, <4>1, <4>2 DEF NumberAt
    <3>2. CASE n \notin (j + 1) + 1 .. (j + 1) + 2
      <4>1. ~NumberAt(s, j + 1, n, 59)
        BY <3>2 DEF NumberAt, DigitsAt
      <4>2. Len(SubSeq(s, j + 2, n)) = n - j - 1
        <5>1. \A p \in j + 2 .. n : s[p] \in C
          <6>1. \A p \in j + 2 .. n : p \in 1 .. Len(s)
            BY <1>2
          <6> QED BY <6>1, ElementOfSeq
        <5>2. j + 2 \in Int /\ n \in Int
          BY <1>2
        <5>3. Len(SubSeq(s, j + 2, n)) = IF j + 2 <= n THEN n - (j + 2) + 1 ELSE 0
          BY <5>1, <5>2, SubSeqProperties
        <5> QED BY <1>2, <1>3, <5>3
      <4>3. j + 1 + 1 = j + 2 /\ n - j - 1 \notin 1 .. 2
        BY <1>2, <3>2
      <4> QED BY <4>1, <4>2, <4>3
    <3> QED BY <3>1, <3>2
  <2> HIDE DEF Fits
  <2> QED BY <2>2, <2>3 DEF TimeAt
<1>4. \A j \in Nat : Of(j + 1) = TimeOf(s, 0, j, n)
  <2> TAKE j \in Nat
  <2>1. j + 1 - 1 = j /\ j + 1 + 1 = j + 2 /\ 0 + 1 = 1
    OBVIOUS
  <2> QED BY <2>1 DEF TimeOf
<1>5. \A j \in Nat : TimeAt(s, 0, j, n) => j + 1 \in 1 .. n
  BY <1>2 DEF TimeAt, NumberAt, DigitsAt
<1>6. \A e \in 1 .. n : e - 1 \in Nat /\ (e - 1) + 1 = e
  BY <1>2
<1> HIDE DEF EndsAt, Of, n
<1>7. ASSUME r \in fallback(s) PROVE \E j \in Nat : TimeAt(s, 0, j, n) /\ r = TimeOf(s, 0, j, n)
  <2>1. PICK e \in 1 .. n : EndsAt(e) /\ r = Of(e)
    BY <1>1, <1>7
  <2>2. PICK j \in Nat : j + 1 = e
    BY <1>6
  <2> QED BY <1>3, <1>4, <2>1, <2>2, Zenon
<1>8. ASSUME NEW j \in Nat, TimeAt(s, 0, j, n), r = TimeOf(s, 0, j, n) PROVE r \in fallback(s)
  BY <1>1, <1>3, <1>4, <1>5, <1>8
<1> QED BY <1>7, <1>8 DEF n

\* No number behind i goes on beyond j.
Greatest(s, i, j) == \A k \in Nat : DigitsAt(s, i, k) => k <= j

LEMMA ExtractIs ==
  ASSUME NEW C, NEW s \in Seq(C), NEW i \in Nat, NEW max, NEW e
  PROVE  e \in ExtractNum(s, i, max) <=>
           \E j \in Nat : /\ NumberAt(s, i, j, max) /\ Greatest(s, i, j)
                          /\ e = <<Value(SubSeq(s, i + 1, j)), j>>
<1> DEFINE Stops == {j \in i + 1 .. i + 2 : j <= Len(s) /\ IsNumber(SubSeq(s, i + 1, j))}
           Of(j) == <<Value(SubSeq(s, i + 1, j)), j>>
<1>1. ExtractNum(s, i, max) = {n \in {Of(j) : j \in {k \in Stops : k = Max(Stops)}} : n[1] <= max}
  BY DEF ExtractNum, ExtractNumUnbounded
<1>2. \A j : Of(j)[1] = Value(SubSeq(s, i + 1, j))
  OBVIOUS
<1>3. \A j : j \in Stops <=> DigitsAt(s, i, j)
  <2> TAKE j
  <2>1. ASSUME j \in i + 1 .. i + 2, j <= Len(s)
        PROVE  IsNumber(SubSeq(s, i + 1, j)) <=> DigitsAt(s, i, j)
    BY <2>1, DigitsAtIs
  <2>2. DigitsAt(s, i, j) => j \in i + 1 .. i + 2 /\ j <= Len(s)
    BY DEF DigitsAt
  <2> QED BY <2>1, <2>2
<1>4. \A j \in Stops : j \in Nat /\ j \in 0 .. i + 2
  OBVIOUS
<1> HIDE DEF Stops
<1>5. \A j : j \in Stops /\ j = Max(Stops) <=> j \in Nat /\ DigitsAt(s, i, j) /\ Greatest(s, i, j)
  <2> TAKE j
  <2>1. ASSUME j \in Stops, j = Max(Stops) PROVE Greatest(s, i, j)
    <3>1. i + 2 \in Nat /\ Stops \in SUBSET (0 .. i + 2) /\ Stops # {}
      BY <1>4, <2>1
    <3>2. \E x \in Stops : \A y \in Stops : y <= x
      <4>1. PICK b \in Nat : b = i + 2
        OBVIOUS
      <4>2. \E x \in Stops : \A n \in Stops : n <= x
        BY <3>1, <4>1, GreatestExists, Zenon
      <4> QED BY <4>2
    <3>3. \E x \in Stops : \A y \in Stops : x >= y
      BY <1>4, <3>2
    <3>4. \A y \in Stops : Max(Stops) >= y
      BY <3>3, Zenon DEF Max
    <3> QED BY <1>3, <1>4, <2>1, <3>4 DEF Greatest
  <2>2. ASSUME j \in Nat, DigitsAt(s, i, j), Greatest(s, i, j) PROVE j = Max(Stops)
    <3>1. j \in Stops /\ \A y \in Stops : j >= y
      BY <1>3, <1>4, <2>2 DEF Greatest
    <3>2. \A x \in Stops : (\A y \in Stops : x >= y) => x = j
      <4> TAKE x \in Stops
      <4> HAVE \A y \in Stops : x >= y
      <4>1. x >= j /\ j >= x /\ x \in Nat /\ j \in Nat
        BY <1>4, <3>1
      <4> QED BY <4>1
    <3> DEFINE m == Max(Stops)
    <3>3. m \in Stops /\ \A y \in Stops : m >= y
      <4>1. \E x \in Stops : \A y \in Stops : x >= y
        BY <3>1
      <4> QED BY <4>1, Zenon DEF Max
    <3> HIDE DEF m
    <3> QED BY <3>2, <3>3 DEF m
  <2> QED BY <1>3, <1>4, <2>1, <2>2
<1>6. ASSUME e \in ExtractNum(s, i, max)
      PROVE  \E j \in Nat : NumberAt(s, i, j, max) /\ Greatest(s, i, j) /\ e = Of(j)
  <2> HIDE DEF Of
  <2>1. PICK j \in Stops : j = Max(Stops) /\ e = Of(j) /\ e[1] <= max
    BY <1>1, <1>6
  <2>2. j \in Nat /\ DigitsAt(s, i, j) /\ Greatest(s, i, j)
    BY <1>5, <2>1
  <2> QED BY <1>2, <2>1, <2>2 DEF NumberAt
<1>7. ASSUME NEW j \in Nat, NumberAt(s, i, j, max), Greatest(s, i, j), e = Of(j)
      PROVE  e \in ExtractNum(s, i, max)
  <2> HIDE DEF Of
  <2>1. DigitsAt(s, i, j) /\ Of(j)[1] <= max
    BY <1>2, <1>7 DEF NumberAt
  <2>2. j \in Stops /\ j = Max(Stops)
    BY <1>5, <1>7, <2>1
  <2> QED BY <1>1, <1>7, <2>1, <2>2
<1> QED BY <1>6, <1>7

\* x is the part of s from behind i to k.
PartOf(x, s, i, k) ==
  /\ i \in Nat /\ k \in Nat /\ i <= k /\ k <= Len(s) /\ Len(x) = k - i
  /\ \A q \in 1 .. k - i : x[q] = s[i + q]

\* What is left of a text begins with the first character that is kept.
LEMMA TrimLeftIs ==
  ASSUME NEW C, NEW s \in Seq(C), NEW drop, NEW t, t = Text!trim_left(s, drop),
         NEW i, i = Len(s) - Len(t)
  PROVE  /\ PartOf(t, s, i, Len(s)) /\ t \in Seq(C)
         /\ s # <<>> /\ s[1] \notin drop => i = 0
<1> DEFINE kept == {p \in 1 .. Len(s) : s[p] \notin drop}  n == Len(s)
<1>0. n \in Nat
  BY LenProperties
<1>1. t = IF kept = {} THEN <<>> ELSE SubSeq(s, Min(kept), n)
  BY DEF Text!trim_left, Text!Min, Min
<1>2. CASE kept = {}
  <2>1. t = <<>> /\ Len(t) = 0
    BY <1>1, <1>2
  <2>2. s # <<>> => s[1] \in drop
    <3> HAVE s # <<>>
    <3>1. 1 \in 1 .. Len(s)
      OBVIOUS
    <3> QED BY <1>2, <3>1
  <2>3. i = n /\ n - i = 0
    BY <1>0, <2>1
  <2>4. PartOf(t, s, i, Len(s))
    BY <1>0, <2>1, <2>3 DEF PartOf
  <2> QED BY <1>0, <2>1, <2>2, <2>3, <2>4
<1>3. CASE kept # {}
  <2> DEFINE p == Min(kept)
  <2>0. kept \in SUBSET Nat /\ kept \in SUBSET (1 .. n) /\ \A k \in kept : s[k] \notin drop
    OBVIOUS
  <2>00. s # <<>> /\ s[1] \notin drop => 1 \in kept
    <3> HAVE s # <<>> /\ s[1] \notin drop
    <3>1. 1 \in 1 .. Len(s)
      OBVIOUS
    <3> QED BY <3>1
  <2> HIDE DEF kept
  <2>1. p \in kept /\ \A y \in kept : p <= y
    <3>1. \E x \in kept : \A y \in kept : x <= y
      BY <1>3, <2>0, LeastExists
    <3> QED BY <3>1, Zenon DEF Min
  <2> HIDE DEF p
  <2>2. p \in 1 .. n /\ p \in Int /\ n \in Int /\ p <= n
    BY <1>0, <2>0, <2>1
  <2>3. t = SubSeq(s, p, n)
    BY <1>1, <1>3, Zenon DEF p
  <2>4. \A k \in p .. n : s[k] \in C
    <3>1. \A k \in p .. n : k \in 1 .. Len(s)
      BY <2>2
    <3> QED BY <3>1, ElementOfSeq
  <2>5. /\ t \in Seq(C) /\ Len(t) = n - p + 1
        /\ \A q \in 1 .. n - p + 1 : t[q] = s[p + q - 1]
    BY <2>2, <2>3, <2>4, SubSeqProperties
  <2>6. i = p - 1
    BY <2>2, <2>5
  <2>7. \A q \in 1 .. Len(t) : p + q - 1 = i + q
    BY <2>2, <2>5, <2>6
  <2>8. s # <<>> /\ s[1] \notin drop => p = 1
    BY <2>00, <2>1, <2>2
  <2>9. \A q \in 1 .. Len(t) : t[q] = s[i + q]
    BY <2>5, <2>7
  <2>10. PartOf(t, s, i, Len(s))
    <3>1. i \in Nat /\ i <= n /\ Len(t) = n - i
      BY <2>2, <2>5, <2>6
    <3> QED BY <1>0, <2>9, <3>1 DEF PartOf
  <2> QED BY <2>2, <2>5, <2>6, <2>8, <2>10
<1> QED BY <1>2, <1>3

\* get_time reads as many digits as there are.
ReadAt(s, i, j, k) == TimeAt(s, i, j, k) /\ Greatest(s, i, j) /\ Greatest(s, j + 1, k)

LEMMA GetTimeIs ==
  ASSUME NEW C, NEW s \in Seq(C), NEW i \in Nat, i = Len(s) - Len(Text!trim_left(s, Text!Space)), NEW r
  PROVE  r \in get_time(s) <=> \E j, k \in Nat : ReadAt(s, i, j, k) /\ r = TimeOf(s, i, j, k)
<1> DEFINE Minutes(h) == IF h[2] < Len(s) /\ s[h[2] + 1] = ":" THEN ExtractNum(s, h[2] + 1, 59) ELSE {}
           Hours == ExtractNum(s, i, 23)
           Of(j) == <<Value(SubSeq(s, i + 1, j)), j>>
<1>1. get_time(s) = UNION {{60 * h[1] + m[1] : m \in Minutes(h)} : h \in Hours}
  BY DEF get_time
<1>2. r \in get_time(s) <=> \E h \in Hours : \E m \in Minutes(h) : r = 60 * h[1] + m[1]
  <2> HIDE DEF Minutes, Hours
  <2> QED BY <1>1
<1>3. \A h : h \in Hours <=> \E j \in Nat : NumberAt(s, i, j, 23) /\ Greatest(s, i, j) /\ h = Of(j)
  BY ExtractIs
<1>4. \A j : Of(j)[1] = Value(SubSeq(s, i + 1, j)) /\ Of(j)[2] = j
  OBVIOUS
<1>5. ASSUME NEW j \in Nat, NEW m
      PROVE  m \in Minutes(Of(j)) <=>
               /\ j < Len(s) /\ s[j + 1] = ":"
               /\ \E k \in Nat : /\ NumberAt(s, j + 1, k, 59) /\ Greatest(s, j + 1, k)
                                 /\ m = <<Value(SubSeq(s, j + 2, k)), k>>
  <2>1. PICK b \in Nat : b = j + 1 /\ b + 1 = j + 2
    OBVIOUS
  <2>2. m \in ExtractNum(s, b, 59) <=>
          \E k \in Nat : NumberAt(s, b, k, 59) /\ Greatest(s, b, k) /\ m = <<Value(SubSeq(s, b + 1, k)), k>>
    BY ExtractIs
  <2>3. Minutes(Of(j)) = IF j < Len(s) /\ s[j + 1] = ":" THEN ExtractNum(s, j + 1, 59) ELSE {}
    BY <1>4
  <2> HIDE DEF Minutes, Of
  <2> QED BY <2>1, <2>2, <2>3
<1> HIDE DEF Hours, Minutes, Of
<1>6. ASSUME r \in get_time(s)
      PROVE  \E j, k \in Nat : ReadAt(s, i, j, k) /\ r = TimeOf(s, i, j, k)
  <2>1. PICK h \in Hours : \E m \in Minutes(h) : r = 60 * h[1] + m[1]
    BY <1>2, <1>6
  <2>2. PICK m \in Minutes(h) : r = 60 * h[1] + m[1]
    BY <2>1
  <2>3. PICK j \in Nat : NumberAt(s, i, j, 23) /\ Greatest(s, i, j) /\ h = Of(j)
    BY <1>3
  <2>4. /\ j < Len(s) /\ s[j + 1] = ":"
        /\ \E k \in Nat : /\ NumberAt(s, j + 1, k, 59) /\ Greatest(s, j + 1, k)
                          /\ m = <<Value(SubSeq(s, j + 2, k)), k>>
    BY <1>5, <2>3
  <2>5. PICK k \in Nat : /\ NumberAt(s, j + 1, k, 59) /\ Greatest(s, j + 1, k)
                         /\ m = <<Value(SubSeq(s, j + 2, k)), k>>
    BY <2>4
  <2>6. m[1] = Value(SubSeq(s, j + 2, k)) /\ h[1] = Value(SubSeq(s, i + 1, j))
    BY <1>4, <2>3, <2>5
  <2>7. r = TimeOf(s, i, j, k)
    BY <2>2, <2>6 DEF TimeOf
  <2>8. ReadAt(s, i, j, k)
    BY <2>3, <2>4, <2>5 DEF ReadAt, TimeAt
  <2> QED BY <2>7, <2>8
<1>7. ASSUME NEW j \in Nat, NEW k \in Nat, ReadAt(s, i, j, k), r = TimeOf(s, i, j, k)
      PROVE  r \in get_time(s)
  <2> DEFINE m == <<Value(SubSeq(s, j + 2, k)), k>>
  <2>1. /\ NumberAt(s, i, j, 23) /\ Greatest(s, i, j) /\ s[j + 1] = ":"
        /\ NumberAt(s, j + 1, k, 59) /\ Greatest(s, j + 1, k)
    BY <1>7 DEF ReadAt, TimeAt
  <2>2. j < Len(s)
    <3>1. k \in (j + 1) + 1 .. (j + 1) + 2 /\ k <= Len(s)
      BY <2>1 DEF NumberAt, DigitsAt
    <3> QED BY <3>1, LenProperties
  <2>3. m[1] = Value(SubSeq(s, j + 2, k))
    OBVIOUS
  <2>4. m \in Minutes(Of(j))
    BY <1>5, <2>1, <2>2
  <2> HIDE DEF m
  <2>5. Of(j) \in Hours
    BY <1>3, <2>1
  <2>6. r = 60 * Of(j)[1] + m[1]
    BY <1>4, <1>7, <2>3 DEF TimeOf
  <2> QED BY <1>2, <2>4, <2>5, <2>6
<1> QED BY <1>6, <1>7

-----------------------------------------------------------------------------
\* Behind a and to b in the part is behind m and to n in the text.
Inside(x, i, a, b, m, n) ==
  a \in Nat /\ b \in Nat /\ b <= Len(x) /\ m = i + a /\ n = i + b

SameNumber(x, a, b, s, m, n, max) ==
  NumberAt(x, a, b, max) /\ SubSeq(x, a + 1, b) = SubSeq(s, m + 1, n)

LEMMA NumberInPart ==
  ASSUME NEW C, NEW s \in Seq(C), NEW x \in Seq(C), NEW i, NEW k, PartOf(x, s, i, k),
         NEW a, NEW b, NEW m, NEW n, Inside(x, i, a, b, m, n), NEW max, NumberAt(s, m, n, max)
  PROVE  SameNumber(x, a, b, s, m, n, max)
<1>0. a \in Nat /\ b \in Nat /\ b <= k - i /\ m = i + a /\ n = i + b
  BY DEF Inside, PartOf
<1> USE <1>0
<1>1. /\ i \in Nat /\ k \in Nat /\ i <= k /\ k <= Len(s) /\ Len(x) = k - i /\ Len(s) \in Nat
      /\ \A q \in 1 .. k - i : x[q] = s[i + q]
  BY LenProperties DEF PartOf
<1>2. /\ i + b \in i + a + 1 .. i + a + 2 /\ i + b <= Len(s)
      /\ \A p \in i + a + 1 .. i + b : s[p] \in ClockDigit
      /\ Value(SubSeq(s, i + a + 1, i + b)) <= max
  BY <1>0 DEF NumberAt, DigitsAt
<1>3. b \in a + 1 .. a + 2 /\ b <= Len(x)
  BY <1>1, <1>2
<1>4. ASSUME NEW p \in a + 1 .. b PROVE x[p] = s[i + p] /\ i + p \in i + a + 1 .. i + b
  <2>1. p \in 1 .. k - i
    BY <1>1
  <2> QED BY <1>1, <2>1
<1>5. SubSeq(x, a + 1, b) = SubSeq(s, i + a + 1, i + b)
  <2> DEFINE u == SubSeq(x, a + 1, b)  w == SubSeq(s, i + a + 1, i + b)
  <2>1. /\ u \in Seq(C) /\ Len(u) = b - a /\ \A q \in 1 .. b - a : u[q] = x[a + q]
    <3>1. \A p \in a + 1 .. b : p \in 1 .. Len(x)
      BY <1>1, <1>3
    <3>2. \A p \in a + 1 .. b : x[p] \in C
      BY <3>1, ElementOfSeq
    <3>3. a + 1 \in Int /\ b \in Int /\ a + 1 <= b /\ b - (a + 1) + 1 = b - a
      BY <1>3
    <3>4. /\ u \in Seq(C) /\ Len(u) = b - (a + 1) + 1
          /\ \A q \in 1 .. b - (a + 1) + 1 : u[q] = x[a + 1 + q - 1]
      BY <3>2, <3>3, SubSeqProperties
    <3>5. \A q \in 1 .. b - a : a + 1 + q - 1 = a + q
      OBVIOUS
    <3> HIDE DEF u
    <3> QED BY <3>3, <3>4, <3>5
  <2>2. /\ w \in Seq(C) /\ Len(w) = b - a /\ \A q \in 1 .. b - a : w[q] = s[i + (a + q)]
    <3>1. \A p \in i + a + 1 .. i + b : p \in 1 .. Len(s)
      BY <1>1, <1>2
    <3>2. \A p \in i + a + 1 .. i + b : s[p] \in C
      BY <3>1, ElementOfSeq
    <3>3a. PICK e \in Int : e = i + a + 1
      BY <1>1
    <3>3b. PICK f \in Int : f = i + b
      BY <1>1
    <3>3. e <= f /\ f - e + 1 = b - a
      BY <1>1, <1>3, <3>3a, <3>3b
    <3>4. /\ SubSeq(s, e, f) \in Seq(C) /\ Len(SubSeq(s, e, f)) = f - e + 1
          /\ \A q \in 1 .. f - e + 1 : SubSeq(s, e, f)[q] = s[e + q - 1]
      <4>1. \A p \in e .. f : s[p] \in C
        BY <3>2, <3>3a, <3>3b
      <4> QED BY <3>3, <4>1, SubSeqProperties
    <3>5. w = SubSeq(s, e, f) /\ \A q \in 1 .. b - a : e + q - 1 = i + (a + q)
      BY <1>1, <3>3a, <3>3b
    <3> HIDE DEF w
    <3> QED BY <3>3, <3>4, <3>5, Zenon
  <2> HIDE DEF u, w
  <2>3. \A q \in 1 .. b - a : a + q \in a + 1 .. b
    OBVIOUS
  <2>4. \A q \in 1 .. b - a : u[q] = w[q]
    BY <1>4, <2>1, <2>2, <2>3
  <2>5. u = w
    BY <2>1, <2>2, <2>4, SeqEqual, Zenon
  <2> QED BY <2>5, Zenon DEF u, w
<1>6. DigitsAt(x, a, b)
  <2>1. \A p \in a + 1 .. b : x[p] \in ClockDigit
    BY <1>2, <1>4, Zenon
  <2> QED BY <1>3, <2>1 DEF DigitsAt
<1> QED BY <1>2, <1>5, <1>6, Zenon DEF NumberAt, SameNumber

LEMMA TimeInPart ==
  ASSUME NEW C, NEW s \in Seq(C), NEW x \in Seq(C), NEW i, NEW k, PartOf(x, s, i, k),
         NEW j \in Nat, TimeAt(s, i, j, k)
  PROVE  TimeOf(s, i, j, k) \in fallback(x)
<1>1. /\ i \in Nat /\ k \in Nat /\ i <= k /\ k <= Len(s) /\ Len(x) = k - i
      /\ \A q \in 1 .. k - i : x[q] = s[i + q]
  BY DEF PartOf
<1>2. NumberAt(s, i, j, 23) /\ s[j + 1] = ":" /\ NumberAt(s, j + 1, k, 59)
  BY DEF TimeAt
<1>3. j \in i + 1 .. i + 2 /\ k \in (j + 1) + 1 .. (j + 1) + 2
  BY <1>2 DEF NumberAt, DigitsAt
<1>4. PICK b \in Nat, c \in Nat, n \in Nat : /\ b = j - i /\ c = b + 1 /\ n = k - i /\ b <= n
                                            /\ i + 0 = i /\ i + b = j /\ i + c = j + 1 /\ i + n = k
                                            /\ c \in 1 .. k - i
  <2>1. /\ j - i \in Nat /\ (j - i) + 1 \in Nat /\ k - i \in Nat /\ j - i <= k - i
        /\ i + 0 = i /\ i + (j - i) = j /\ i + ((j - i) + 1) = j + 1 /\ i + (k - i) = k
        /\ (j - i) + 1 \in 1 .. k - i
    BY <1>1, <1>3
  <2> QED BY <2>1
<1>i. \A a, e, m, p, max : Inside(x, i, a, e, m, p) /\ NumberAt(s, m, p, max) => SameNumber(x, a, e, s, m, p, max)
  BY NumberInPart
<1>5. SameNumber(x, 0, b, s, i, j, 23)
  <2>1. Inside(x, i, 0, b, i, j)
    BY <1>1, <1>4 DEF Inside
  <2> QED BY <1>2, <1>i, <2>1, Zenon
<1>6. SameNumber(x, c, n, s, j + 1, k, 59)
  <2>1. Inside(x, i, c, n, j + 1, k)
    BY <1>1, <1>4 DEF Inside
  <2> QED BY <1>2, <1>i, <2>1, Zenon
<1>7. x[b + 1] = ":"
  BY <1>1, <1>2, <1>4
<1>8. TimeAt(x, 0, b, Len(x))
  BY <1>1, <1>4, <1>5, <1>6, <1>7 DEF TimeAt, SameNumber
<1>9. TimeOf(x, 0, b, Len(x)) = TimeOf(s, i, j, k)
  <2>1. 0 + 1 = 1 /\ c + 1 = b + 2 /\ (j + 1) + 1 = j + 2 /\ Len(x) = n
    BY <1>1, <1>3, <1>4
  <2> QED BY <1>5, <1>6, <2>1, Zenon DEF TimeOf, SameNumber
<1> QED BY <1>4, <1>8, <1>9, FallbackIs, Zenon

LEMMA DigitIs == ClockDigit = {"0", "2", "6"} /\ ":" \notin ClockDigit /\ " " \notin ClockDigit /\ ClockDigit \cap Text!Space = {}
  BY NumberIs DEF ClockDigit, Text!Space

LEMMA TimeAtIs ==
  ASSUME NEW C, NEW s \in Seq(C), NEW i, NEW j, NEW k, TimeAt(s, i, j, k)
  PROVE  /\ i \in Nat /\ j \in i + 1 .. i + 2 /\ k \in j + 2 .. j + 3 /\ k <= Len(s)
         /\ s[i + 1] \in ClockDigit /\ s[j + 1] = ":"
         /\ TimeOf(s, i, j, k) \in 0 .. 24 * 60 - 1
<1>1. NumberAt(s, i, j, 23) /\ NumberAt(s, j + 1, k, 59) /\ s[j + 1] = ":"
  BY DEF TimeAt
<1>2. /\ i \in Nat /\ j \in i + 1 .. i + 2 /\ j <= Len(s) /\ \A p \in i + 1 .. j : s[p] \in ClockDigit
      /\ k \in (j + 1) + 1 .. (j + 1) + 2 /\ k <= Len(s)
  BY <1>1 DEF NumberAt, DigitsAt
<1>3. /\ DigitsAt(s, i, j) /\ Value(SubSeq(s, i + 1, j)) <= 23
      /\ DigitsAt(s, j + 1, k) /\ Value(SubSeq(s, (j + 1) + 1, k)) <= 59
  BY <1>1 DEF NumberAt
<1>4. Value(SubSeq(s, i + 1, j)) \in Nat
  BY <1>2, <1>3, DigitsAtIs
<1>5. Value(SubSeq(s, (j + 1) + 1, k)) \in Nat /\ (j + 1) + 1 = j + 2
  <2>1. j + 1 \in Nat /\ (j + 1) + 1 = j + 2
    BY <1>2
  <2>2. PICK m \in Nat : m = j + 1
    BY <2>1
  <2>3. Value(SubSeq(s, m + 1, k)) \in Nat
    BY <1>2, <1>3, <2>2, DigitsAtIs
  <2> QED BY <2>1, <2>2, <2>3
<1>6. TimeOf(s, i, j, k) \in 0 .. 24 * 60 - 1
  <2> DEFINE a == Value(SubSeq(s, i + 1, j))  b == Value(SubSeq(s, j + 2, k))
  <2>1. a \in Nat /\ a <= 23 /\ b \in Nat /\ b <= 59
    BY <1>3, <1>4, <1>5
  <2> HIDE DEF a, b
  <2>2. 60 * a + b \in 0 .. 24 * 60 - 1
    BY <2>1
  <2> QED BY <2>2 DEF TimeOf, a, b
<1>7. i + 1 \in i + 1 .. j
  BY <1>2
<1>8. k \in j + 2 .. j + 3
  BY <1>2
<1> QED BY <1>1, <1>2, <1>6, <1>7, <1>8

\* What the expression accepts is read in full by get_time.
LEMMA FallbackRead ==
  ASSUME NEW C, NEW s \in Seq(C), NEW r \in fallback(s)
  PROVE  r \in get_time(s)
<1>1. PICK j \in Nat : TimeAt(s, 0, j, Len(s)) /\ r = TimeOf(s, 0, j, Len(s))
  BY FallbackIs
<1> DEFINE n == Len(s)  t == Text!trim_left(s, Text!Space)  i == n - Len(t)
<1>0. n \in Nat
  BY LenProperties
<1>2. /\ j \in 0 + 1 .. 0 + 2 /\ n \in j + 2 .. j + 3 /\ s[0 + 1] \in ClockDigit /\ s[j + 1] = ":"
  BY <1>1, TimeAtIs
<1>3. i = 0
  <2>1. s # <<>> /\ s[1] \notin Text!Space
    <3>1. n # 0 /\ 0 + 1 = 1
      BY <1>0, <1>2
    <3>2. s # <<>>
      BY <3>1
    <3> QED BY <1>2, <3>1, <3>2, DigitIs
  <2> HIDE DEF t
  <2>2. \E e : e = n - Len(t)
    OBVIOUS
  <2> QED BY <2>1, TrimLeftIs DEF t
<1>4. Greatest(s, 0, j)
  <2> SUFFICES ASSUME NEW k \in Nat, DigitsAt(s, 0, k), ~(k <= j) PROVE FALSE
    BY DEF Greatest
  <2>1. j + 1 \in 0 + 1 .. k
    BY <1>2
  <2>2. s[j + 1] \in ClockDigit
    BY <2>1 DEF DigitsAt
  <2> QED BY <1>2, <2>2, DigitIs
<1>5. Greatest(s, j + 1, n)
  BY DEF Greatest, DigitsAt
<1>6. ReadAt(s, 0, j, n)
  BY <1>1, <1>4, <1>5 DEF ReadAt
<1> QED
  <2>1. PICK z \in Nat : z = 0 /\ z = Len(s) - Len(Text!trim_left(s, Text!Space))
    BY <1>3
  <2>2. ReadAt(s, z, j, n) /\ r = TimeOf(s, z, j, n) /\ n \in Nat
    BY <1>0, <1>1, <1>6, <2>1
  <2> HIDE DEF n
  <2> QED BY <2>1, <2>2, GetTimeIs

LEMMA HourMinuteOf ==
  ASSUME NEW C, NEW s \in Seq(C), NEW t, t = Text!trim_left(s, Text!Space)
  PROVE  /\ fallback(s) \subseteq ParseHourMinute(s)
         /\ Cardinality(ParseHourMinute(s)) <= 1 /\ ParseHourMinute(s) \subseteq 0 .. 24 * 60 - 1
         /\ \A r \in ParseHourMinute(s) : \E n \in 1 .. Len(t) : r \in fallback(SubSeq(t, 1, n))
<1>1. fallback(s) \subseteq get_time(s)
  BY FallbackRead
<1>2. ParseHourMinute(s) = get_time(s)
  BY <1>1, Zenon DEF ParseHourMinute, parse_R
<1>3. PICK i : i = Len(s) - Len(t)
  OBVIOUS
<1>4. /\ i \in 0 .. Len(s) /\ t \in Seq(C) /\ Len(t) = Len(s) - i /\ Len(s) \in Nat
      /\ \A q \in 1 .. Len(t) : t[q] = s[i + q]
  <2>1. Len(s) \in Nat
    BY LenProperties
  <2>2. PartOf(t, s, i, Len(s)) /\ t \in Seq(C)
    BY <1>3, TrimLeftIs
  <2>3. i \in Nat /\ i <= Len(s) /\ Len(t) = Len(s) - i /\ \A q \in 1 .. Len(s) - i : t[q] = s[i + q]
    BY <2>2 DEF PartOf
  <2> QED BY <2>1, <2>2, <2>3
<1>5. \A r : r \in get_time(s) <=> \E j, k \in Nat : ReadAt(s, i, j, k) /\ r = TimeOf(s, i, j, k)
  <2>1. i \in Nat
    BY <1>4
  <2> QED BY <1>3, <2>1, GetTimeIs, Zenon
<1>6. ASSUME NEW r \in get_time(s) PROVE r \in 0 .. 24 * 60 - 1
  <2>1. PICK j, k \in Nat : ReadAt(s, i, j, k) /\ r = TimeOf(s, i, j, k)
    BY <1>5
  <2>2. TimeAt(s, i, j, k)
    BY <2>1 DEF ReadAt
  <2> QED BY <2>1, <2>2, TimeAtIs, Zenon
<1>7. Cardinality(get_time(s)) <= 1
  <2>1. ASSUME NEW r \in get_time(s), NEW u \in get_time(s) PROVE r = u
    <3>1. PICK j, k \in Nat : ReadAt(s, i, j, k) /\ r = TimeOf(s, i, j, k)
      BY <1>5
    <3>2. PICK l, m \in Nat : ReadAt(s, i, l, m) /\ u = TimeOf(s, i, l, m)
      BY <1>5
    <3>3. /\ DigitsAt(s, i, j) /\ Greatest(s, i, j) /\ DigitsAt(s, j + 1, k) /\ Greatest(s, j + 1, k)
          /\ DigitsAt(s, i, l) /\ Greatest(s, i, l) /\ DigitsAt(s, l + 1, m) /\ Greatest(s, l + 1, m)
      BY <3>1, <3>2 DEF ReadAt, TimeAt, NumberAt
    <3>4. j = l
      <4>1. j <= l /\ l <= j
        BY <3>3 DEF Greatest
      <4> QED BY <4>1
    <3>5. k = m
      <4>1. k <= m /\ m <= k
        BY <3>3, <3>4 DEF Greatest
      <4> QED BY <4>1
    <3> QED BY <3>1, <3>2, <3>4, <3>5
  <2>2. CASE get_time(s) = {}
    <3>1. Cardinality({}) = 0
      BY FS_EmptySet
    <3> QED BY <2>2, <3>1
  <2>3. CASE get_time(s) # {}
    <3>1. PICK r : r \in get_time(s)
      BY <2>3
    <3>2. get_time(s) = {r}
      BY <2>1, <3>1
    <3>3. Cardinality({r}) = 1
      BY FS_Singleton, Zenon
    <3> QED BY <3>2, <3>3
  <2> QED BY <2>2, <2>3
<1>8. ASSUME NEW r \in get_time(s) PROVE \E n \in 1 .. Len(t) : r \in fallback(SubSeq(t, 1, n))
  <2>1. PICK j, k \in Nat : ReadAt(s, i, j, k) /\ r = TimeOf(s, i, j, k)
    BY <1>5
  <2>2. TimeAt(s, i, j, k)
    BY <2>1 DEF ReadAt
  <2>3. i \in Nat /\ j \in i + 1 .. i + 2 /\ k \in j + 2 .. j + 3 /\ k <= Len(s)
    BY <2>2, TimeAtIs
  <2>4. PICK n \in Nat : n = k - i /\ n \in 1 .. Len(t)
    <3>1. k - i \in Nat /\ k - i \in 1 .. Len(t)
      BY <1>4, <2>3
    <3> QED BY <3>1
  <2> DEFINE x == SubSeq(t, 1, n)
  <2>5. x \in Seq(C) /\ Len(x) = n /\ \A q \in 1 .. n : x[q] = t[q]
    <3>1. \A q \in 1 .. n : q \in 1 .. Len(t)
      BY <1>4, <2>4
    <3>2. \A q \in 1 .. n : t[q] \in C
      BY <1>4, <3>1, ElementOfSeq
    <3>3. 1 \in Int /\ n \in Int /\ 1 <= n /\ n - 1 + 1 = n
      BY <2>4
    <3>4. /\ x \in Seq(C) /\ Len(x) = n - 1 + 1
          /\ \A q \in 1 .. n - 1 + 1 : x[q] = t[1 + q - 1]
      BY <3>2, <3>3, SubSeqProperties
    <3>5. \A q \in 1 .. n : 1 + q - 1 = q
      OBVIOUS
    <3> HIDE DEF x
    <3> QED BY <3>3, <3>4, <3>5
  <2> HIDE DEF x
  <2>6. PartOf(x, s, i, k)
    <3>1. \A q \in 1 .. n : q \in 1 .. Len(t)
      BY <1>4, <2>4
    <3>2. \A q \in 1 .. n : x[q] = s[i + q]
      BY <1>4, <2>5, <3>1
    <3> QED BY <1>4, <2>3, <2>4, <2>5, <3>2 DEF PartOf
  <2>7. r \in fallback(x)
    BY <2>1, <2>2, <2>5, <2>6, TimeInPart
  <2> QED BY <2>4, <2>7 DEF x
<1> QED BY <1>1, <1>2, <1>6, <1>7, <1>8, Zenon

LEMMA HourMinuteIs ==
  ASSUME NEW s \in Texts(ClockSigns), call = [fn |-> "hourminute", s |-> s, result |-> ParseHourMinute(s)]
  PROVE  HourMinuteRight
<1>1. call.fn = "hourminute" /\ call.s = s /\ call.result = ParseHourMinute(s)
  OBVIOUS
<1>2. s \in Seq(ClockSigns)
  <2>1. PICK n \in 0 .. MaxText : s \in [1 .. n -> ClockSigns]
    BY DEF Texts
  <2> QED BY <2>1
<1> DEFINE t == Strings!trim_left(s, Strings!Space)
<1>3. t = Text!trim_left(s, Text!Space)
  BY DEF Strings!trim_left, Text!trim_left, Strings!Space, Text!Space, Strings!Min, Text!Min
<1>4. HourMinuteRight <=> /\ fallback(s) \subseteq ParseHourMinute(s)
                          /\ Cardinality(ParseHourMinute(s)) <= 1
                          /\ ParseHourMinute(s) \subseteq 0 .. 24 * 60 - 1
                          /\ \A r \in ParseHourMinute(s) : \E n \in 1 .. Len(t) : r \in fallback(SubSeq(t, 1, n))
  BY <1>1 DEF HourMinuteRight
<1> HIDE DEF t
<1> QED BY <1>2, <1>3, <1>4, HourMinuteOf, Zenon

-----------------------------------------------------------------------------
(* A call has the result of its function.                                  *)

DurationCalls ==
  call.fn = "duration" =>
    \E dur \in Nat : call = [fn |-> "duration", dur |-> dur, result |-> durationText(dur)]

InstantCalls ==
  call.fn = "instant" =>
    \E t \in Int : call = [fn |-> "instant", t |-> t, result |-> instantText(t)]

PlainCalls == call.fn = "plain" => \E s, t \in Plain : call = [fn |-> "plain", s |-> s, t |-> t]

HourMinuteCalls ==
  call.fn = "hourminute" =>
    \E s \in Texts(ClockSigns) : call = [fn |-> "hourminute", s |-> s, result |-> ParseHourMinute(s)]

AmountCalls ==
  call.fn = "unit" =>
    \E n \in Nat, unit \in DOMAIN Seconds \cup {"ms", "other"}, to \in DOMAIN Seconds :
      call = [fn |-> "unit", n |-> n, unit |-> unit, to |-> to, result |-> ParseTimeUnitTo(n, unit, to)]

TimeCalls == DurationCalls /\ InstantCalls /\ PlainCalls /\ HourMinuteCalls /\ AmountCalls

TimeFns == {"duration", "instant", "plain", "hourminute", "unit"}

\* What a call of another function leaves is no call of these.
LEMMA NoTimeCall ==
  ASSUME call.fn \notin TimeFns
  PROVE  TimeCalls
BY DEF TimeFns, TimeCalls, DurationCalls, InstantCalls, PlainCalls, HourMinuteCalls, AmountCalls

LEMMA OtherCallsThanTimes ==
  ASSUME \/ CallString \/ CallBytes \/ CallPath \/ CallUri \/ CallStdio \/ CallPipe \/ CallPage
         \/ CallPrint \/ CallGetUtcTime
  PROVE  call'.fn \notin TimeFns
<1>1. CASE CallString
  BY <1>1 DEF CallString, Made, TimeFns
<1>2. CASE CallBytes
  BY <1>2 DEF CallBytes, Made, TimeFns
<1>3. CASE CallPath
  BY <1>3 DEF CallPath, Made, TimeFns
<1>4. CASE CallUri
  BY <1>4 DEF CallUri, Made, TimeFns
<1>5. CASE CallStdio
  BY <1>5 DEF CallStdio, Made, TimeFns
<1>6. CASE CallPipe
  BY <1>6 DEF CallPipe, Made, TimeFns
<1>7. CASE CallPage
  BY <1>7 DEF CallPage, Made, TimeFns
<1>8. CASE CallPrint
  BY <1>8 DEF CallPrint, TimeFns
<1>9. CASE CallGetUtcTime
  BY <1>9 DEF CallGetUtcTime, TimeFns
<1> QED BY <1>1, <1>2, <1>3, <1>4, <1>5, <1>6, <1>7, <1>8, <1>9

LEMMA TimeCallsInv == LibrarySpec => []TimeCalls
<1>1. LibraryInit => TimeCalls
  <2>1. LibraryInit => call.fn \notin TimeFns
    BY DEF LibraryInit, NoCall, TimeFns
  <2> QED BY <2>1, NoTimeCall
<1> USE DEF TimeCalls, DurationCalls, InstantCalls, PlainCalls, HourMinuteCalls, AmountCalls
<1>2. ASSUME TimeCalls, [LibraryNext]_LibraryVars
      PROVE  TimeCalls'
  <2>1. CASE UNCHANGED LibraryVars
    BY <1>2, <2>1 DEF LibraryVars
  <2>2. CASE CallDuration
    <3>1. PICK dur \in 0 .. MaxDuration :
            call' = [fn |-> "duration", dur |-> dur, result |-> durationText(dur)]
      BY <2>2 DEF CallDuration, Made
    <3>2. dur \in Nat /\ call'.fn = "duration"
      BY <3>1
    <3> QED BY <3>1, <3>2
  <2>3. CASE CallInstant
    <3>1. PICK t \in -MaxDuration .. MaxDuration :
            call' = [fn |-> "instant", t |-> t, result |-> instantText(t)]
      BY <2>3 DEF CallInstant, Made
    <3>2. t \in Int /\ call'.fn = "instant"
      BY <3>1
    <3> QED BY <3>1, <3>2
  <2>4. CASE CallPlain
    <3>1. PICK s, t \in Plain : call' = [fn |-> "plain", s |-> s, t |-> t]
      BY <2>4 DEF CallPlain, Made
    <3>2. call'.fn = "plain"
      BY <3>1
    <3> QED BY <3>1, <3>2
  <2>5. CASE CallHourMinute
    <3>1. PICK s \in Texts(ClockSigns) :
            call' = [fn |-> "hourminute", s |-> s, result |-> ParseHourMinute(s)]
      BY <2>5 DEF CallHourMinute, Made
    <3>2. call'.fn = "hourminute"
      BY <3>1
    <3> QED BY <3>1, <3>2
  <2>6. CASE CallTimeUnit
    <3>1. PICK n \in 0 .. 800, unit \in DOMAIN Seconds \cup {"ms", "other"}, to \in DOMAIN Seconds :
            Made([fn |-> "unit", n |-> n, unit |-> unit, to |-> to, result |-> ParseTimeUnitTo(n, unit, to)])
      BY <2>6, Zenon DEF CallTimeUnit
    <3>2. call' = [fn |-> "unit", n |-> n, unit |-> unit, to |-> to, result |-> ParseTimeUnitTo(n, unit, to)]
      BY <3>1, Zenon DEF Made
    <3>3. n \in Nat /\ call'.fn = "unit"
      BY <3>2
    <3> QED BY <3>2, <3>3
  <2>7. CASE \/ CallString \/ CallBytes \/ CallPath \/ CallUri \/ CallStdio \/ CallPipe \/ CallPage
             \/ CallPrint \/ CallGetUtcTime
    <3>1. call'.fn \notin TimeFns
      BY <2>7, OtherCallsThanTimes
    <3> QED BY <3>1 DEF TimeFns
  <2> QED BY <1>2, <2>1, <2>2, <2>3, <2>4, <2>5, <2>6, <2>7 DEF LibraryNext, CallPure
<1> QED BY <1>1, <1>2, PTL DEF LibrarySpec

\* TimesReadBack: for any units, words and lengths a duration and an instant say what
\* they are of, plain texts sort as their times, hours and minutes are read as they are
\* written, and an amount is converted to the units that it contains (time.h, time.cc).
THEOREM TimesTheorem == LibrarySpec => []TimesReadBack
<1>1. ASSUME TimeCalls PROVE TimesReadBack
  <2> USE <1>1 DEF TimeCalls
  <2>1. DurationReadsBack
    <3>1. CASE call.fn = "duration"
      BY <3>1, DurationIs DEF DurationCalls
    <3>2. CASE call.fn # "duration"
      BY <3>2 DEF DurationReadsBack
    <3> QED BY <3>1, <3>2
  <2>2. InstantReadsBack
    <3>1. CASE call.fn = "instant"
      BY <3>1, InstantIs DEF InstantCalls
    <3>2. CASE call.fn # "instant"
      BY <3>2 DEF InstantReadsBack
    <3> QED BY <3>1, <3>2
  <2>3. PlainSorts
    <3>1. CASE call.fn = "plain"
      BY <3>1, PlainIs DEF PlainCalls
    <3>2. CASE call.fn # "plain"
      BY <3>2 DEF PlainSorts
    <3> QED BY <3>1, <3>2
  <2>4. HourMinuteRight
    <3>1. CASE call.fn = "hourminute"
      BY <3>1, HourMinuteIs DEF HourMinuteCalls
    <3>2. CASE call.fn # "hourminute"
      BY <3>2 DEF HourMinuteRight
    <3> QED BY <3>1, <3>2
  <2>5. AmountKept
    <3>1. CASE call.fn = "unit"
      BY <3>1, AmountIs DEF AmountCalls
    <3>2. CASE call.fn # "unit"
      BY <3>2 DEF AmountKept
    <3> QED BY <3>1, <3>2
  <2> QED BY <2>1, <2>2, <2>3, <2>4, <2>5 DEF TimesReadBack
<1> QED BY <1>1, TimeCallsInv, PTL
=============================================================================
