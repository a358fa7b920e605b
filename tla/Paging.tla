-------------------------------- MODULE Paging --------------------------------
(***************************************************************************)
(* PagenationUtil.java, with ints up to IntMax; a list is its size, and   *)
(* a part of it the set of its indices.                                    *)
(***************************************************************************)
EXTENDS Integers

CONSTANT IntMax     \* Integer.MAX_VALUE
ASSUME IntMaxAssumption == IntMax \in Nat

AsInt(n) == ((n + IntMax + 1) % (2 * (IntMax + 1))) - (IntMax + 1)
MinOf(a, b) == IF a < b THEN a ELSE b
Throws == {-1}

\* Math.ceil of a quotient of doubles, which is exact for these.
getTotalPages(count, pageSize) ==
  IF count < 0 \/ pageSize <= 0 THEN 0
  ELSE count \div pageSize + (IF count % pageSize = 0 THEN 0 ELSE 1)

subList(count, start, end) ==
  IF start < 0 \/ end > count \/ start > end THEN Throws ELSE start .. end - 1

pagenationListUncut(count, pageSize, pageNumber) ==
  IF pageSize < 1 \/ pageNumber < 1 \/ count = 0 THEN {}
  ELSE LET start == MinOf(AsInt((pageNumber - 1) * pageSize), count)
       IN  subList(count, start, AsInt(start + pageSize))

pagenationList(count, pageSize, pageNumber) ==
  IF pageSize < 1 \/ pageNumber < 1 \/ count = 0 THEN {}
  ELSE LET start == MinOf(AsInt((pageNumber - 1) * pageSize), count)
       IN  subList(count, start, MinOf(AsInt(start + pageSize), count))
=============================================================================
