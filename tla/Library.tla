-------------------------------- MODULE Library --------------------------------
(***************************************************************************)
(* Calls of the functions of util::string, util::path, util::net::uri,     *)
(* util::time, util::pipe, of set_stdio and of PagenationUtil.  Those that *)
(* convert local times share the state of the C library's time zone; the   *)
(* others are called once.                                                 *)
(***************************************************************************)
EXTENDS Time, Uri, Stdio, Paging

Strings == INSTANCE Text

CONSTANTS
  MaxText,        \* bound: length of a text
  MaxDuration,    \* bound: greatest number of nanoseconds
  Zones,          \* the time zones the process may run in
  Walls           \* bound: the wall clock's minutes

VARIABLES
  zone,      \* the process's time zone
  tz_set,    \* tzset was called
  call       \* the last call: its function, arguments and result

LibraryVars == <<zone, tz_set, call>>

NoCall == [fn |-> "none"]

LibraryInit == zone \in Zones /\ tz_set = FALSE /\ call = NoCall

Texts(C) == UNION {[1 .. n -> C] : n \in 0 .. MaxText}

Made(record) == call' = record /\ UNCHANGED <<zone, tz_set>>

Letters    == {"a", "b", " ", "\n"}
ClockSigns == {"0", "2", "6", ":", " "}

CallString ==
  \E s \in Texts(Letters) : Made([fn |-> "string", s |-> s])

CallBytes ==
  \E bytes \in UNION {[1 .. n -> {0, 9, 16, 127, 128, 255}] : n \in 0 .. 3} :
    Made([fn |-> "bytes", bytes |-> bytes])

CallPath ==
  \/ \E s \in Texts({"a", "/", "."}) : Made([fn |-> "path", args |-> <<s>>])
  \/ \E s, t \in UNION {[1 .. n -> {"a", "/", "NUL"}] : n \in 0 .. 2} :
       Made([fn |-> "path", args |-> <<s, t>>])

CallUri ==
  \E before \in {<<>>, <<"a", ":", "/", "/">>, <<"a", "@", "a">>, <<"a", ":", "1", "@", "a", "a">>},
     s \in Texts({"a", "1", ":", "/", "?", "#", "@", "[", "]"}) :
    Made([fn |-> "uri", s |-> before \o s, result |-> parse(before \o s)])

CallDuration ==
  \E dur \in 0 .. MaxDuration :
    Made([fn |-> "duration", dur |-> dur, result |-> durationText(dur)])

CallInstant ==
  \E t \in -MaxDuration .. MaxDuration :
    Made([fn |-> "instant", t |-> t, result |-> instantText(t)])

\* Year, month, day, hour, minute, second and milliseconds.
Plain == {0, 99, 2024, 9999} \X {1, 12} \X {9, 10} \X {0} \X {9, 59} \X {1} \X {5, 50, 500}

CallPlain == \E s, t \in Plain : Made([fn |-> "plain", s |-> s, t |-> t])

CallHourMinute ==
  \E s \in Texts(ClockSigns) :
    Made([fn |-> "hourminute", s |-> s, result |-> ParseHourMinute(s)])

CallTimeUnit ==
  \E n \in 0 .. 800, unit \in DOMAIN Seconds \cup {"ms", "other"}, to \in DOMAIN Seconds :
    Made([fn |-> "unit", n |-> n, unit |-> unit, to |-> to, result |-> ParseTimeUnitTo(n, unit, to)])

ZoneCall == call.fn \in {"none", "utc", "print"}

\* Whatever prints a time with put_time calls tzset.
CallPrint ==
  /\ ZoneCall
  /\ tz_set' = TRUE /\ call' = [fn |-> "print"]
  /\ UNCHANGED zone

\* mktime and put_time call tzset, but only after the offset was read.
CallGetUtcTime ==
  /\ ZoneCall
  /\ \E wall \in Walls, fraction \in {<<>>, <<"6">>, <<"0", "6", "0">>, <<"6", "0", "0", "0">>} :
       LET result == GetUtcTime(zone, tz_set, wall, fraction)
       IN  /\ tz_set' = (tz_set \/ result # {})
           /\ call' = [fn |-> "utc", wall |-> wall, fraction |-> fraction,
                       tz_set |-> tz_set, result |-> result]
  /\ UNCHANGED zone

\* Any descriptors are open, and an argument may be -1.
CallStdio ==
  \E open \in SUBSET (0 .. MaxFd), args \in [1 .. 3 -> -1 .. MaxFd] :
    LET fds == [n \in 0 .. MaxFd |-> IF n \in open THEN n ELSE Closed]
    IN  Made([fn |-> "stdio", fds |-> fds, args |-> args,
              result |-> set_stdio(fds, args[1], args[2], args[3])])

CallPipe ==
  \E out \in UNION {[1 .. n -> {"a", "\n", "NUL"}] : n \in 0 .. 6}, size \in {2, 4} :
    Made([fn |-> "pipe", out |-> out, result |-> fexec(out, size)])

CallPage ==
  \E count \in 0 .. IntMax, pageSize \in 1 .. IntMax, pageNumber \in 1 .. IntMax :
    Made([fn |-> "page", count |-> count, pageSize |-> pageSize, pageNumber |-> pageNumber,
          result |-> pagenationList(count, pageSize, pageNumber)])

\* Functions of their arguments alone: one call of each, in one zone.
CallPure ==
  /\ call = NoCall /\ zone.std = 0
  /\ \/ CallString \/ CallBytes \/ CallPath \/ CallUri
     \/ CallDuration \/ CallInstant \/ CallPlain \/ CallHourMinute \/ CallTimeUnit
     \/ CallStdio \/ CallPipe \/ CallPage

LibraryNext == CallPure \/ CallPrint \/ CallGetUtcTime

LibrarySpec == LibraryInit /\ [][LibraryNext]_LibraryVars

-----------------------------------------------------------------------------
(* Properties: what comes back from a function that takes a text apart is  *)
(* what was put into it.                                                   *)

\* split by delimiters loses nothing: joined again the fields are the text, and
\* they hold no delimiter. split by white space loses one separator at the end,
\* and no other. A text starts with its first field and ends with its last (string.h,
\* string.cc: split, join, starts_with, ends_with).
FieldsRejoin ==
  call.fn = "string" =>
    LET s      == call.s
        fields == Strings!split_delims(s, {" "})
        words  == Strings!split_delims(s, Strings!Space)
        tail   == IF s # <<>> /\ Last(s) \in Strings!Space THEN << <<>> >> ELSE <<>>
    IN  /\ Strings!join(fields, <<" ">>) = s
        /\ \A i \in 1 .. Len(fields) : ~Contains(fields[i], " ")
        /\ Len(words) = Cardinality({i \in 1 .. Len(s) : s[i] \in Strings!Space})
                          + (IF s = <<>> THEN 0 ELSE 1)
        /\ Strings!split_spaces(s) \o tail = words
        /\ s # <<>> => /\ Strings!starts_with(s, fields[1]) = {TRUE}
                       /\ Strings!ends_with(s, Last(fields)) = {TRUE}
                       /\ \A c \in {"a", " "} : Strings!starts_with(s, Append(s, c)) = {FALSE}

\* The expressions trim as the erasures do, but trim itself leaves a text alone that is
\* all white space or has more than one line between its ends (string.cc, trim).
TrimsAgree ==
  call.fn = "string" =>
    LET core == Strings!trim(call.s, Strings!Space)
    IN  /\ Strings!trim_right_spaces(Strings!trim_left_spaces(call.s)) = core
        /\ \/ Strings!trim_spaces(call.s) = core
           \/ /\ Strings!trim_spaces(call.s) = call.s
              /\ core = <<>> \/ Contains(core, "\n")

\* Printed bytes can be told apart even without a delimiter: cut into equal
\* pieces, the digits are the bytes. The three printers of hexadecimal bytes
\* agree but for the buffer's last blank and for chars that are signed.
BytesReadBack ==
  call.fn = "bytes" =>
    LET bytes == call.bytes
        Number16(digits, base) == FoldLeft(LAMBDA n, d : base * n + d, 0, digits)
        Read(text, base) ==
          LET digits == SelectSeq(text, LAMBDA d : d # Strings!Blank)
              w      == IF base = 16 THEN 2 ELSE 3
          IN  [i \in 1 .. Len(digits) \div w |->
                 Number16(SubSeq(digits, (i - 1) * w + 1, i * w), base)]
        ends == IF bytes = <<>> THEN <<>> ELSE <<Strings!Blank>>
    IN  /\ \A base \in {8, 10, 16}, delim \in {<<>>, <<Strings!Blank>>} :
             Read(Strings!to_string(bytes, delim, base), base) = bytes
        /\ Strings!make_hex_str(bytes, FALSE, TRUE) = Strings!to_string(bytes, <<Strings!Blank>>, 16)
        /\ Strings!make_hex_str_buffer(bytes, TRUE) = Strings!make_hex_str(bytes, FALSE, TRUE) \o ends
        /\ Strings!make_hex_str_buffer(bytes, FALSE) = Strings!make_hex_str(bytes, FALSE, FALSE)
        /\ (Strings!make_hex_str(bytes, TRUE, TRUE) = Strings!make_hex_str(bytes, FALSE, TRUE)
              <=> \A i \in 1 .. Len(bytes) : bytes[i] < 128)

\* A path is the directory and the file name made of it, and joining names
\* keeps every component. What is joined is relative or absolute as its first
\* name is; if that is empty it becomes absolute (path.cc, MakePath, filename,
\* dirname).
PathsRejoin ==
  call.fn = "path" =>
    LET Components(p) ==
          SelectSeq(Strings!split_delims(p, {"/"}), LAMBDA c : c \notin {<<>>, <<".">>})
        Absolute(p) == p # <<>> /\ p[1] = "/"
        args  == [i \in 1 .. Len(call.args) |-> Strings!CString(call.args[i])]
        path  == Strings!MakePath(call.args, FALSE)
        s     == args[1]
        again == Strings!MakePath(<<Strings!dirname(s), Strings!filename(s)>>, FALSE)
    IN  /\ s # <<>> => Components(again) = Components(s) /\ (Absolute(again) <=> Absolute(s))
        /\ Components(path) = FlattenSeq([i \in 1 .. Len(args) |-> Components(args[i])])
        /\ Absolute(path) <=> Absolute(s) \/ (s = <<>> /\ Len(args) > 1)
        /\ Absolute(Strings!MakePath(call.args, TRUE))
        /\ Components(Strings!MakePath(call.args, TRUE)) = Components(path)

\* The parts of a URI make up its text; only the mark of an empty query is
\* lost. A host name contains no delimiter but, since the expression lets its
\* last character be almost anything, at its end (net.cc, parse).
UriRejoins ==
  call.fn = "uri" =>
    \A u \in call.result :
      LET before == (IF u.protocol = <<>> THEN <<>> ELSE u.protocol \o <<":", "/", "/">>)
                      \o (IF u.auth = <<>> THEN <<>> ELSE Append(u.auth, "@"))
                      \o u.host \o u.path
      IN  /\ u.href \in {before \o u.hash, before \o <<"?">> \o u.hash}
          /\ \A i \in 1 .. Len(u.hostname) - 1 : u.hostname[i] \notin {"/", "?", "#", "@"}

\* What the fields of a duration's text say, from left to right: the fields of the
\* clock, hours before minutes, and the nanoseconds that the others are.
ReadFields(text) ==
  LET Unit == [D |-> NsPerDay, s |-> NsPerSec, ms |-> NsPerMs, ns |-> 1]
      read[i \in 0 .. Len(text)] ==
        IF i = 0 THEN [clock |-> 0, minutes |-> 0, rest |-> 0]
        ELSE LET before == read[i - 1]  n == text[i][1]  mark == text[i][2]
             IN  IF mark = ":"
                 THEN [clock |-> before.clock + 1, minutes |-> MinPerHour * before.minutes + n,
                       rest |-> before.rest]
                 ELSE [before EXCEPT !.rest = @ + n * Unit[mark]]
  IN  read[Len(text)]

\* The text of a duration that is not negative says what it is: the field before
\* the seconds is the minutes, the one before it the hours (time.h, to_string).
DurationReadsBack ==
  call.fn = "duration" =>
    LET read == ReadFields(call.result)
    IN  read.clock <= 2 /\ call.dur = read.minutes * NsPerMin + read.rest

\* The text of an instant is that instant; before the epoch only that of whole
\* seconds is, the others read a second late (time.h, to_string: to_time_t
\* truncates towards the epoch).
InstantReadsBack ==
  call.fn = "instant" =>
    LET late == IF call.t < 0 /\ call.t % MsPerSec # 0 THEN MsPerSec ELSE 0
    IN  \E r \in call.result : r.sec * MsPerSec + r.ms = call.t + late

\* Plain texts of the years 0 to 9999 sort as the times they are texts of (time.cc,
\* to_plain_string).
PlainSorts ==
  call.fn = "plain" =>
    LET Before(a, b) == \E i \in 1 .. Len(a) : a[i] < b[i] /\ \A k \in 1 .. i - 1 : a[k] = b[k]
    IN  Before(call.s, call.t) <=> Before(to_plain_string(call.s), to_plain_string(call.t))

\* "hh:mm" is read as what it says. What else is accepted begins with such a
\* text behind blanks, and is a time of the day (time.h, ParseHourMinute).
HourMinuteRight ==
  call.fn = "hourminute" =>
    LET t == Strings!trim_left(call.s, Strings!Space)
    IN  /\ fallback(call.s) \subseteq call.result
        /\ Cardinality(call.result) <= 1 /\ call.result \subseteq 0 .. 24 * 60 - 1
        /\ \A r \in call.result : \E n \in 1 .. Len(t) : r \in fallback(SubSeq(t, 1, n))

\* An amount is converted to the greatest number of units that it contains, as
\* long as the counts of days and months fit their words (time.h, ParseTimeUnitTo).
AmountKept ==
  call.fn = "unit" =>
    LET length == CASE call.unit = "ms" -> call.n \div 1000
                    [] call.unit = "other" -> 0
                    [] OTHER -> call.n * Seconds[call.unit]
        narrow == {"d", "M"}
    IN  /\ call.unit \in narrow => call.n < RepMax
        /\ call.to \in narrow => length < RepMax * Seconds[call.to]
        => /\ call.result * Seconds[call.to] <= length
           /\ length < (call.result + 1) * Seconds[call.to]

\* A local time with three digits of milliseconds becomes the same time in UTC if
\* the C library knows the zone by then, or the zone is UTC, and neither the
\* time nor its UTC, read as local time, is in daylight saving (time.cc, GetUtcTime).
UtcTimeRight ==
  call.fn = "utc" =>
    LET utc == call.wall - zone.std
    IN  /\ call.tz_set \/ zone.std = 0
        /\ \A t \in {call.wall - 60, call.wall, utc} : ~InDst(zone, t)
        /\ Len(call.fraction) = 3
        => call.result = {[sec |-> utc, ms |-> Value(call.fraction)]}

\* A child gets the descriptors that were asked for, read in the table of its parent,
\* unless an earlier replacement has taken the one that is asked for: a stdout of 0,
\* or a stderr of 0 or 1, is what that one has become; -1 is a closed
\* one, and one that is not open leaves what was there (process.cc:94-104).
StdioAsAsked ==
  call.fn = "stdio" =>
    LET a == call.args
        Asked(n) == IF a[n + 1] < 0 THEN Closed
                    ELSE IF call.fds[a[n + 1]] = Closed THEN call.fds[n] ELSE call.fds[a[n + 1]]
        Taken(n) == a[n + 1] \in 0 .. n - 1 /\ call.result[a[n + 1]] # call.fds[a[n + 1]]
    IN  /\ \A n \in 0 .. 2 : ~Taken(n) => call.result[n] = Asked(n)
        /\ \A n \in 1 .. 2 : Taken(n) => call.result[n] \in {call.result[a[n + 1]], call.fds[n]}
        /\ \A n \in 3 .. MaxFd : call.result[n] = call.fds[n]

\* The output of a command comes back whole, whatever its lines, exactly if it contains
\* no character 0 (pipe.cc:24, 50).
PipeReadsAll ==
  call.fn = "pipe" => (call.result = call.out <=> ~Contains(call.out, "NUL"))

\* The pages partition the list, and there is none beyond the last, as long as the
\* bounds of the page are ints; there are as many as getTotalPages says.
PagesPartition ==
  call.fn = "page" =>
    LET s == call.pageSize
        start == (call.pageNumber - 1) * s
    IN  /\ start <= IntMax /\ MinOf(start, call.count) + s <= IntMax
           => call.result = {i \in 0 .. call.count - 1 : i \div s = call.pageNumber - 1}
        /\ call.pageNumber <= getTotalPages(call.count, s) <=> start < call.count

\* Nothing that a text is split, cut or printed into loses any of it, but where the
\* parts of this say so (string.h, string.cc, path.cc, net.cc, pipe.cc).
TextsReadBack ==
  /\ FieldsRejoin /\ TrimsAgree /\ BytesReadBack
  /\ PathsRejoin /\ UriRejoins /\ PipeReadsAll

\* Times and amounts of time keep their value when they are printed, read or
\* converted, but where the parts of this say so (time.h, time.cc).
TimesReadBack ==
  DurationReadsBack /\ InstantReadsBack /\ PlainSorts /\ HourMinuteRight /\ AmountKept
=============================================================================
