---------------------------------- MODULE Uri ----------------------------------
(***************************************************************************)
(* util::net::uri::parse (cxx/src/util/net.cc): the groups that the        *)
(* expression rex_uri captures in a text, and the record made of them.     *)
(***************************************************************************)
EXTENDS Integers, Sequences, SequencesExt

Digit == {"1", "2"}
Hex == Digit \cup {"a"}

At(s, i, c) == i < Len(s) /\ s[i + 1] = c

\* Where a run from i without the characters of Bad may end.
Span(s, i, Bad) == {j \in i + 1 .. Len(s) : \A k \in i + 1 .. j : s[k] \notin Bad}

\* A match is the sequence of its groups' ends: protocol with ://, username,
\* password, hostname, port, pathname, query, hash. An absent group ends where
\* it would begin.
ProtocolEnds(s) ==
  {0} \cup {j + 3 : j \in {i \in Span(s, 0, {":", "/", "?", "#"}) :
                             At(s, i, ":") /\ At(s, i + 1, "/") /\ At(s, i + 2, "/")}}

UsernameEnds(s, m) == {m[1]} \cup Span(s, m[1], {"@", ":", "/", "?", "#"})

PasswordEnds(s, m) ==
  IF m[2] = m[1] THEN {m[2]}
  ELSE {j \in {m[2]} \cup (IF At(s, m[2], ":") THEN Span(s, m[2] + 1, {"@"}) ELSE {}) : At(s, j, "@")}

HostStart(m) == IF m[2] = m[1] THEN m[1] ELSE m[3] + 1

\* The last character of a name may be any but . : /
HostnameEnds(s, m) ==
  LET i == HostStart(m)
  IN  {j + 1 : j \in {k \in Span(s, i, {"@", ":", "/", "?", "#"}) :
                        k < Len(s) /\ s[k + 1] \notin {".", ":", "/"}}}
      \cup {j \in i + 3 .. Len(s) : /\ s[i + 1] = "[" /\ s[j] = "]"
                                    /\ \A k \in i + 2 .. j - 1 : s[k] \in Hex \cup {":", "."}}

PortEnds(s, m) ==
  {m[4]} \cup {j \in m[4] + 2 .. m[4] + 6 : /\ j <= Len(s) /\ At(s, m[4], ":")
                                            /\ \A k \in m[4] + 2 .. j : s[k] \in Digit}

PathnameEnds(s, m) ==
  {m[5]} \cup (IF At(s, m[5], "/") THEN {m[5] + 1} \cup Span(s, m[5] + 1, {"?", "#"}) ELSE {})

QueryEnds(s, m) ==
  {m[6]} \cup (IF At(s, m[6], "?") THEN {m[6] + 1} \cup Span(s, m[6] + 1, {"#"}) ELSE {})

\* The hash goes to the end of the text.
HashEnds(s, m) == {j \in {Len(s)} : m[7] = Len(s) \/ At(s, m[7], "#")}

Matches(s) ==
  LET Extend(M, Ends(_, _)) == UNION {{Append(m, j) : j \in Ends(s, m)} : m \in M}
  IN  Extend(Extend(Extend(Extend(Extend(Extend(Extend({<<j>> : j \in ProtocolEnds(s)},
        UsernameEnds), PasswordEnds), HostnameEnds), PortEnds), PathnameEnds), QueryEnds), HashEnds)

\* Every group is greedy, an earlier one before a later one.
Greedier(m, l) == \E i \in 1 .. 8 : m[i] > l[i] /\ \A k \in 1 .. i - 1 : m[k] = l[k]

PrecededNot(c, s) == s

\* A separator is there if what it introduces is not empty.
Preceded(c, s) == IF s = <<>> THEN <<>> ELSE <<c>> \o s

URI(s, g) ==
  LET host == g.raw_name \o Preceded(":", g.port)
  IN  [href |-> s, protocol |-> g.protocol, auth |-> g.username \o Preceded(":", g.password),
       host |-> host, path |-> g.pathname \o Preceded("?", g.query), hash |-> g.hash,
       hostname |-> IF g.raw_name[1] = "[" THEN SubSeq(g.raw_name, 2, Len(g.raw_name) - 1) ELSE g.raw_name,
       origin |-> (IF g.protocol = <<>> THEN <<>> ELSE g.protocol \o <<":", "/", "/">>) \o host]

\* A set that is empty if the text is not recognizable.
parse(s) ==
  LET M    == Matches(s)
      Best == {m \in M : \A l \in M : m = l \/ Greedier(m, l)}
  IN  {URI(s, [protocol |-> SubSeq(s, 1, m[1] - 3),
               username |-> SubSeq(s, m[1] + 1, m[2]), password |-> SubSeq(s, m[2] + 2, m[3]),
               raw_name |-> SubSeq(s, HostStart(m) + 1, m[4]), port |-> SubSeq(s, m[4] + 2, m[5]),
               pathname |-> SubSeq(s, m[5] + 1, m[6]), query |-> SubSeq(s, m[6] + 2, m[7]),
               hash |-> SubSeq(s, m[7] + 1, m[8])]) : m \in Best}
=============================================================================
