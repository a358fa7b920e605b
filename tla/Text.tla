--------------------------------- MODULE Text ---------------------------------
(***************************************************************************)
(* util::string and the names of util::path (cxx/src/util/string.h,        *)
(* string.cc, path.cc) as operators on texts: sequences of characters, or, *)
(* where bytes are printed, of digits 0 .. 15 and Blank.                   *)
(***************************************************************************)
EXTENDS Naturals, Sequences, SequencesExt, FiniteSetsExt

Space == {" ", "\n"}                             \* isspace, and \s

\* find_first_not_of and find_last_not_of with erase.
trim_left(s, drop) ==
  LET kept == {i \in 1 .. Len(s) : s[i] \notin drop}
  IN  IF kept = {} THEN <<>> ELSE SubSeq(s, Min(kept), Len(s))

trim_right(s, drop) ==
  LET kept == {i \in 1 .. Len(s) : s[i] \notin drop}
  IN  IF kept = {} THEN <<>> ELSE SubSeq(s, 1, Max(kept))

trim(s, drop) == trim_right(trim_left(s, drop), drop)

\* By the expressions ^\s* and \s*$.
trim_left_spaces(s)  == trim_left(s, Space)
trim_right_spaces(s) == trim_right(s, Space)

trim_spacesGreedy(s) == trim_left(s, Space)

\* trim(s) by the expression ^\s*(.*\S)\s*$, whose . is no line end: a text that
\* it does not match stays as it is.
trim_spaces(s) ==
  LET core == trim(s, Space)
  IN  IF core = <<>> \/ Contains(core, "\n") THEN s ELSE core

\* What both forms of split append: an empty field for a leading separator, the
\* words, and an empty field for each separator that follows another.
Fields(s, delims) ==
  LET starts(i) == i = 1 \/ s[i - 1] \in delims
      last(i)   == Max({j \in i .. Len(s) : \A k \in i .. j : s[k] \notin delims})
      At(i)     == CASE ~starts(i) -> <<>>
                     [] s[i] \in delims -> << <<>> >>
                     [] OTHER -> <<SubSeq(s, i, last(i))>>
  IN  FlattenSeq([i \in 1 .. Len(s) |-> At(i)])

split_spaces(s) == Fields(s, Space)

split_delimsNoTail(s, delims) == Fields(s, delims)

\* The form with delimiters has one field more after a separator at the end.
split_delims(s, delims) ==
  Fields(s, delims) \o (IF s # <<>> /\ Last(s) \in delims THEN << <<>> >> ELSE <<>>)

join(fields, sep) ==
  FlattenSeq([i \in 1 .. Len(fields) |-> IF i = 1 THEN fields[1] ELSE sep \o fields[i]])

\* std::equal reads as many characters of s as str has: a 0 behind the last one, and
\* whatever memory holds before the first. The set of what may come out.
starts_with(s, str) ==
  {IsPrefix(str, s)} \cup (IF IsPrefix(Append(s, "NUL"), str) THEN {TRUE} ELSE {})

ends_with(s, str) ==
  {IsSuffix(str, s)} \cup (IF Len(str) > Len(s) /\ IsSuffix(s, str) THEN {TRUE} ELSE {})

-----------------------------------------------------------------------------
Blank == 16

Digits(n, base) ==
  LET digits[m \in 0 .. n] ==
        IF m < base THEN <<m>> ELSE Append(digits[m \div base], m % base)
  IN  digits[n]

\* std::setw(w) with setfill('0')
Padded(n, base, w) ==
  LET digits == Digits(n, base)
  IN  [i \in 1 .. IF w > Len(digits) THEN w - Len(digits) ELSE 0 |-> 0] \o digits

WidthOfHex(base) == 2

WidthOf(base) == IF base = 16 THEN 2 ELSE 3      \* else std::dec or std::oct

\* delim is <<>> for the character 0
to_string(bytes, delim, base) ==
  join([i \in 1 .. Len(bytes) |-> Padded(bytes[i], base, WidthOf(base))], delim)

\* make_hex_str with iterators: a char that is signed is widened with its sign
\* before it is printed as an uint32_t.
make_hex_str(bytes, signed, insert_spaces) ==
  LET Printed(b) == (IF signed /\ b > 127 THEN [i \in 1 .. 6 |-> 15] ELSE <<>>) \o Padded(b, 16, 2)
  IN  join([i \in 1 .. Len(bytes) |-> Printed(bytes[i])], IF insert_spaces THEN <<Blank>> ELSE <<>>)

\* make_hex_str with a buffer: a blank after every byte.
make_hex_str_buffer(buf, insert_spaces) ==
  FlattenSeq([i \in 1 .. Len(buf) |->
                Padded(buf[i], 16, 2) \o (IF insert_spaces THEN <<Blank>> ELSE <<>>)])

-----------------------------------------------------------------------------
\* The text up to its first character 0, as c_str gives it.
CString(s) ==
  IF Contains(s, "NUL") THEN SubSeq(s, 1, SelectInSeq(s, LAMBDA c : c = "NUL") - 1) ELSE s

MakePath(args, absolute) ==
  LET path == join([i \in 1 .. Len(args) |-> CString(args[i])], <<"/">>)
  IN  IF absolute /\ (path = <<>> \/ path[1] # "/") THEN <<"/">> \o path ELSE path

\* POSIX basename and dirname.
filenameKeepingSlash(file_path) == file_path

filename(file_path) ==
  LET name == trim_right(file_path, {"/"})
  IN  CASE file_path = <<>> -> <<".">>
        [] file_path # <<>> /\ name = <<>> -> <<"/">>
        [] OTHER -> Last(split_delims(name, {"/"}))

dirname(file_path) ==
  LET name == trim_right(file_path, {"/"})
      dir  == SubSeq(name, 1, Len(name) - Len(Last(split_delims(name, {"/"}))))
  IN  CASE name = <<>> -> IF file_path = <<>> THEN <<".">> ELSE <<"/">>
        [] name # <<>> /\ dir = <<>> -> <<".">>
        [] OTHER -> IF trim_right(dir, {"/"}) = <<>> THEN <<"/">> ELSE trim_right(dir, {"/"})
=============================================================================
