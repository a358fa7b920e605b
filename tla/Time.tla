--------------------------------- MODULE Time ---------------------------------
(***************************************************************************)
(* util::time (cxx/src/util/time.h, time.cc) as operators. Numbers print   *)
(* as numbers; put_time, gmtime_r and the calendar are external: a second  *)
(* since the epoch stands for the date and time that they make of it.      *)
(***************************************************************************)
EXTENDS Integers, Sequences, SequencesExt, FiniteSetsExt

Text == INSTANCE Text

CONSTANTS
  MsPerSec, NsPerMs, SecPerMin, MinPerHour, HoursPerDay,   \* 1000, 10^6, 60, 60, 24
  RepMax     \* the greatest number of days or months and one: 2^31 in the code

ASSUME UnitAssumption ==
  /\ {MsPerSec, NsPerMs, SecPerMin, MinPerHour, HoursPerDay} \subseteq Nat \ {0, 1}
  /\ RepMax \in Nat \ {0}

\* / and % of C++ truncate towards zero; b is positive.
Quot(a, b) == IF a < 0 THEN -((-a) \div b) ELSE a \div b
Rem(a, b)  == a - b * Quot(a, b)

-----------------------------------------------------------------------------
NsPerSec  == NsPerMs * MsPerSec
NsPerMin  == NsPerSec * SecPerMin
NsPerHour == NsPerMin * MinPerHour
NsPerDay  == NsPerHour * HoursPerDay

\* A text of numbers, each with the mark that follows it or says what it counts.
OrNothing(n, before) == IF n # 0 THEN << <<n, ":">> >> ELSE <<>>

\* A field that is 0 is printed if something stands before it.
OrZero(n, before) == IF n # 0 \/ before # <<>> THEN << <<n, ":">> >> ELSE <<>>

durationText(dur) ==
  LET d  == Quot(dur, NsPerDay)
      h  == Quot(Rem(dur, NsPerDay), NsPerHour)
      m  == Quot(Rem(dur, NsPerHour), NsPerMin)
      s  == Quot(Rem(dur, NsPerMin), NsPerSec)
      ms == Quot(Rem(dur, NsPerSec), NsPerMs)
      ns == Rem(dur, NsPerMs)
      days    == IF d # 0 THEN << <<d, "D">> >> ELSE <<>>
      hours   == days \o OrZero(h, days)
      minutes == hours \o OrZero(m, hours)
      seconds == Append(minutes, <<s, "s">>)
      millis  == IF ms # 0 \/ ns # 0 THEN << <<ms, "ms">> >> ELSE <<>>
      nanos   == IF ns # 0 THEN << <<ns, "ns">> >> ELSE <<>>
  IN  IF Rem(dur, NsPerDay) = 0 THEN days ELSE seconds \o millis \o nanos

-----------------------------------------------------------------------------
\* to_string(time_t, milliseconds): the set of its result, empty if it throws.
to_string(sec, ms) == IF ms < 0 \/ ms >= MsPerSec THEN {} ELSE {[sec |-> sec, ms |-> ms]}

SecondLaterEarly(ms) == IF ms <= 0 THEN MsPerSec + ms ELSE ms
SecondLater(ms) == IF ms < 0 THEN MsPerSec + ms ELSE ms

\* to_string(time_point), of a time in milliseconds
instantText(t) == to_string(Quot(t, MsPerSec), SecondLater(Rem(t, MsPerSec)))

\* year, month, day, hour, minute, second and, in the third form, milliseconds
PlainWidthsUneven == <<4, 2, 1, 2, 2, 2, 3>>
PlainWidths == <<4, 2, 2, 2, 2, 2, 3>>

to_plain_string(fields) ==
  FlattenSeq([i \in 1 .. Len(fields) |-> Text!Padded(fields[i], 10, PlainWidths[i])])

-----------------------------------------------------------------------------
Number == [c \in {"0", "2", "6"} |-> CASE c = "0" -> 0 [] c = "2" -> 2 [] c = "6" -> 6]
Value(s) ==
  LET v[i \in 0 .. Len(s)] == IF i = 0 THEN 0 ELSE 10 * v[i - 1] + Number[s[i]]
  IN  v[Len(s)]
IsNumber(s) == s # <<>> /\ \A i \in 1 .. Len(s) : s[i] \in DOMAIN Number

\* std::get_time takes one or two digits, as many as there are, from behind i: the
\* set of the value and of where it stopped, empty if the value is not in range.
ExtractNumUnbounded(s, i, max) ==
  LET Stops == {j \in i + 1 .. i + 2 : j <= Len(s) /\ IsNumber(SubSeq(s, i + 1, j))}
  IN  {<<Value(SubSeq(s, i + 1, j)), j>> : j \in {k \in Stops : k = Max(Stops)}}

ExtractNum(s, i, max) == {n \in ExtractNumUnbounded(s, i, max) : n[1] <= max}

get_time(s) ==
  LET Hours      == ExtractNum(s, Len(s) - Len(Text!trim_left(s, Text!Space)), 23)
      Minutes(h) == IF h[2] < Len(s) /\ s[h[2] + 1] = ":" THEN ExtractNum(s, h[2] + 1, 59) ELSE {}
  IN  UNION {{60 * h[1] + m[1] : m \in Minutes(h)} : h \in Hours}

\* The expression of fallback_parsers, for the whole text.
fallback(s) ==
  LET Fits(t, max) == Len(t) \in 1 .. 2 /\ IsNumber(t) /\ Value(t) <= max
  IN  {60 * Value(SubSeq(s, 1, i - 1)) + Value(SubSeq(s, i + 1, Len(s))) :
         i \in {j \in 1 .. Len(s) : /\ s[j] = ":"
                                    /\ Fits(SubSeq(s, 1, j - 1), 23)
                                    /\ Fits(SubSeq(s, j + 1, Len(s)), 59)}}

\* parse("%R", s), as the minutes that ParseHourMinute makes of it; the empty set
\* if it throws.
parse_R(s) == IF get_time(s) # {} THEN get_time(s) ELSE fallback(s)

ParseHourMinute(s) == parse_R(s)

-----------------------------------------------------------------------------
\* Times of GetUtcTime are in minutes. A zone is its standard offset and the
\* interval of its standard time in which daylight saving adds an hour.
InDst(zone, t) == t \in zone.from .. zone.to - 1

\* ::timezone is 0 until something has called tzset.
GetTimeZoneOffset(zone, tz_set) == IF tz_set THEN zone.std ELSE 0

\* mktime takes fields that say tm_isdst = 0 and writes back what a clock shows.
mktime(zone, t) == IF InDst(zone, t) THEN t + 60 ELSE t

\* The time's text is a minute of the wall clock and the digits behind the point:
\* milliseconds, however many digits they are.
UtcTimeBackwards(zone, tz_set, wall, fraction) ==
  IF fraction = <<>> \/ Value(fraction) >= 1000 THEN {}
  ELSE {[sec |-> mktime(zone, wall + GetTimeZoneOffset(zone, tz_set)), ms |-> Value(fraction)]}

GetUtcTime(zone, tz_set, wall, fraction) ==
  IF fraction = <<>> \/ Value(fraction) >= 1000 THEN {}
  ELSE {[sec |-> mktime(zone, wall - GetTimeZoneOffset(zone, tz_set)), ms |-> Value(fraction)]}

-----------------------------------------------------------------------------
Seconds == [s |-> 1, m |-> 60, h |-> 3600, d |-> 86400, M |-> 2629746]

\* days and months count in 32 bits, two's complement.
Stored(n, unit) ==
  IF unit \in {"d", "M"} THEN ((n + RepMax) % (2 * RepMax)) - RepMax ELSE n

duration_convertRounding(n, from, to) ==
  Stored(Quot(Stored(n, from) * Seconds[from] + Seconds[to] - 1, Seconds[to]), to)

duration_convert(n, from, to) ==
  Stored(Quot(Stored(n, from) * Seconds[from], Seconds[to]), to)

\* A text that is no number and unit is a duration of 0; ms is below the units
\* asked for.
ParseTimeUnitTo(n, unit, to) ==
  CASE unit \in DOMAIN Seconds -> duration_convert(n, unit, to)
    [] unit = "ms" -> duration_convert(n \div 1000, "s", to)
    [] OTHER -> 0
=============================================================================
