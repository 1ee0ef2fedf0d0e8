---------------------------- MODULE Http11Machine ----------------------------
(***************************************************************************)
(* The transition table of the request parser that Ragel generated         *)
(* (src/src/net/http/http11_parser.rl.cc), as a function from the state    *)
(* and the byte to the next state and the actions on the way.  r says      *)
(* whether uri_relaxed is set.  The automaton has two copies of the states *)
(* that read an authority, 34..172 for a request line and 209..347 for the *)
(* path of a JSON message: operators with the parameter o stand for the    *)
(* copy that is o states further on.                                       *)
(***************************************************************************)
EXTENDS HttpBytes

Copy == 175   \* distance of the second copy
FirstFinal == 348

(* characters of names, of path segments, of queries and fragments           *)
Relaxed(r) == IF r THEN {"^", "{", "}"} ELSE {}
Name(r) == Alpha \union Digit \union {"!", "(", "+", "-", ".", ";", "="} \union Relaxed(r)
Segment(r) == Name(r) \union {":", "@", "high"}
Query(r) == Segment(r) \union {"/", "?"}

(* "%" and two hexadecimal digits, then back                                 *)
Pct(s, back) == s :> To(Hex, s + 1) @@ (s + 1) :> To(Hex, back)

(* the end of the path, in a request line or in a JSON message               *)
PathDone(o) ==
  IF o = 0 THEN Edge({"sp"}, 4, <<"request_path", "request_uri">>)
             @@ Edge({"#"}, 20, <<"request_path", "request_uri">>)
             @@ Edge({"?"}, 29, <<"request_path">>)
           ELSE Edge({"sp"}, 199, <<"request_path">>)
PathEnd(o) == PathDone(o) @@ To({"/"}, IF o = 0 THEN 26 ELSE 205)

-----------------------------------------------------------------------------
(* Request line: method, URI, version.                                       *)
Start ==
  1 :> (Edge(Upper \union Digit, 2, <<"mark">>) @@ Edge({"<"}, 194, <<"mark">>) @@ Edge({"@"}, 198, <<"mark">>))
MethodEnd == Edge({"sp"}, 3, <<"request_method">>)
Method2 == 2 :> (MethodEnd @@ To(Upper \union Digit, 175))
Method3 == [s \in 175..184 |-> MethodEnd @@ To(Upper \union Digit, s + 1)]
Method13 == [s \in 185..192 |-> MethodEnd @@ To(Upper \union Digit, s + 1)] @@ 193 :> MethodEnd

UriStart(r) ==
  3 :> (Edge({"sp"}, 4, <<"mark", "request_path", "request_uri">>)
     @@ Edge({"#"}, 20, <<"mark", "request_path", "request_uri">>)
     @@ Edge({"?"}, 29, <<"mark", "request_path">>)
     @@ Edge({"%"}, 24, <<"mark">>) @@ Edge({"/"}, 33, <<"mark">>)
     @@ Edge(Alpha, 173, <<"mark">>) @@ Edge(Name(r) \union {"@"}, 19, <<"mark">>))

Version ==
  4 :> Edge({"H"}, 5, <<"mark">>)
  @@ Spell(5, <<{"T"}, {"T"}, {"P"}, {"/"}, {"1"}, {"."}, {"0", "1"}>>, <<>>)
  @@ 12 :> (Edge({"lf"}, 13, <<"http_version">>) @@ Edge({"cr"}, 17, <<"http_version">>))

(* A path that starts with neither "/" nor a scheme.                         *)
PathNoScheme(r) ==
  19 :> (PathEnd(0) @@ To({"%"}, 24) @@ To(Name(r) \union {"@"}, 19))

Fragment(r) ==
  20 :> (Edge({"sp"}, 4, <<"mark", "fragment">>) @@ Edge({"%"}, 22, <<"mark">>) @@ Edge(Query(r), 21, <<"mark">>))
  @@ 21 :> (Edge({"sp"}, 4, <<"fragment">>) @@ To({"%"}, 22) @@ To(Query(r), 21))

FragmentPct == Pct(22, 21) @@ Pct(24, 19)

Path(r) == 26 :> (PathDone(0) @@ To({"%"}, 27) @@ To(Segment(r) \union {"/"}, 26)) @@ Pct(27, 26)

QueryEnd == Edge({"sp"}, 4, <<"query_string", "request_uri">>) @@ Edge({"#"}, 20, <<"query_string", "request_uri">>)

(* Mutant: a query that begins with "%" is not marked.                         *)
QueryUnmarked(r) ==
  29 :> (Edge({"sp"}, 4, <<"query_start", "query_string", "request_uri">>)
      @@ Edge({"#"}, 20, <<"query_start", "query_string", "request_uri">>)
      @@ To({"%"}, 31) @@ Edge(Query(r), 30, <<"query_start">>))
  @@ 30 :> (QueryEnd @@ To({"%"}, 31) @@ To(Query(r), 30))
  @@ Pct(31, 30)

QueryString(r) ==
  29 :> (Edge({"sp"}, 4, <<"query_start", "query_string", "request_uri">>)
      @@ Edge({"#"}, 20, <<"query_start", "query_string", "request_uri">>)
      @@ Edge({"%"}, 31, <<"query_start">>) @@ Edge(Query(r), 30, <<"query_start">>))
  @@ 30 :> (QueryEnd @@ To({"%"}, 31) @@ To(Query(r), 30))
  @@ Pct(31, 30)

PathSlash(r) == 33 :> (PathDone(0) @@ To({"%"}, 27) @@ To({"/"}, 34) @@ To(Segment(r), 26))

(* Letters may turn out to be a scheme: its path starts after the colon.     *)
Scheme(r) ==
  173 :> (PathEnd(0) @@ To({"%"}, 24) @@ To({":"}, 174)
       @@ To(Alpha \union Digit \union {"+", "-", "."}, 173) @@ To(Name(r) \union {"@"}, 19))
  @@ 174 :> (Edge({"sp"}, 4, <<"mark", "request_path", "request_uri">>)
          @@ Edge({"#"}, 20, <<"mark", "request_path", "request_uri">>)
          @@ Edge({"?"}, 29, <<"mark", "request_path">>)
          @@ Edge({"%"}, 27, <<"mark">>) @@ Edge({"/"}, 33, <<"mark">>) @@ Edge(Segment(r), 26, <<"mark">>))

-----------------------------------------------------------------------------
(* Headers.                                                                  *)
FieldName ==
  13 :> (Edge({"lf"}, FirstFinal, <<"field_start", "done">>) @@ Edge({"cr"}, 18, <<"field_start">>)
      @@ Edge(Token \union Ctl \union {"vt"}, 14, <<"field_start">>))
  @@ 14 :> (To(Token \union Ctl \union {"lf", "vt", "cr"}, 14) @@ Edge({":"}, 15, <<"field_len">>))

Visible == Byte \ {"nul", "del", "tab", "lf", "cr", "sp"}

FieldValue ==
  15 :> (Edge({"lf"}, 13, <<"mark", "write_value">>) @@ Edge({"cr"}, 17, <<"mark", "write_value">>)
      @@ Edge({"tab", "sp"}, 15, <<"mark">>) @@ Edge(Visible, 16, <<"mark">>))
  @@ 16 :> (Edge({"lf"}, 13, <<"write_value">>) @@ Edge({"cr"}, 17, <<"write_value">>)
         @@ To(Visible \union {"tab", "sp"}, 16))
  @@ 17 :> To({"lf"}, 13)

HeadersEnd ==
  18 :> (Edge({"lf"}, FirstFinal, <<"done">>) @@ Edge({":"}, 15, <<"field_len">>)
      @@ To(Token \union Ctl \union {"vt", "cr"}, 14))

-----------------------------------------------------------------------------
(* Authorities: "//" user "@" host ":" port.                                 *)
Authority(r, o) ==
  (34 + o) :> (PathEnd(o) @@ To({"%"}, 36 + o) @@ To({":"}, 38 + o) @@ To({"@"}, 42 + o) @@ To({"["}, 47 + o)
            @@ To(Name(r), 35 + o))
  @@ (35 + o) :> (PathEnd(o) @@ To({"%"}, 36 + o) @@ To({":"}, 38 + o) @@ To({"@"}, 42 + o) @@ To(Name(r), 35 + o))
  @@ Pct(36 + o, 35 + o)

(* After a colon: a port so far, or a user's password.                       *)
UserInfo(r, o) ==
  (38 + o) :> (PathEnd(o) @@ To(Digit, 38 + o) @@ To({"%"}, 40 + o) @@ To({"@"}, 42 + o)
            @@ To(Name(r) \union {":"}, 39 + o))
  @@ (39 + o) :> (To({"%"}, 40 + o) @@ To({"@"}, 42 + o) @@ To(Name(r) \union {":"}, 39 + o))
  @@ Pct(40 + o, 39 + o)

Host(r, o) ==
  (42 + o) :> (PathEnd(o) @@ To({"%"}, 44 + o) @@ To({":"}, 46 + o) @@ To({"["}, 47 + o) @@ To(Name(r), 43 + o))
  @@ (43 + o) :> (PathEnd(o) @@ To({"%"}, 44 + o) @@ To({":"}, 46 + o) @@ To(Name(r), 43 + o))
  @@ Pct(44 + o, 43 + o)
Port(o) == (46 + o) :> (PathEnd(o) @@ To(Digit, 46 + o))

-----------------------------------------------------------------------------
(* IP literals.  The grammar writes 6( h16 ":" ) for six groups; the         *)
(* generated automaton reads the byte 6 and one group instead, and 2..5      *)
(* likewise.  It writes ("0"-"4") for a range and gets the character 0.      *)

(* up to four hexadecimal digits, the first of them read, and a colon        *)
Group(s, colon) == [q \in s..(s + 2) |-> To(Hex, q + 1) @@ To({":"}, colon)] @@ (s + 3) :> To({":"}, colon)

LiteralStart(o) ==
  (47 + o) :> (To({"x06"}, 48 + o) @@ To(Hex, 91 + o) @@ To({":"}, 167 + o) @@ To({"v"}, 169 + o))
  @@ (48 + o) :> To(Hex, 49 + o)
  @@ Group(49 + o, 53 + o)

(* Where the next group may be an octet of an IPv4 address as well.          *)
OctetOrGroup(plain, one, two, hex) ==
  To({"1"}, one) @@ To({"2"}, two) @@ To(Digit, plain) @@ To(HexLetter, hex)

FirstOctet(o) == (53 + o) :> OctetOrGroup(54 + o, 84 + o, 87 + o, 90 + o)

(* Its digits: a plain digit, 1.., 2.. or a hexadecimal letter first, the    *)
(* states `more` once it is a group of two or more digits.                   *)
OctetDigits(plain, one, two, hex, more, dot, End) ==
  plain :> (dot @@ End @@ To(Hex, more))
  @@ one :> (dot @@ End @@ To(Digit, one + 1) @@ To(HexLetter, more))
  @@ (one + 1) :> (dot @@ End @@ To(Digit, one + 2) @@ To(HexLetter, more + 1))
  @@ (one + 2) :> (dot @@ End @@ To(Hex, more + 2))
  @@ two :> (dot @@ End @@ To({"0"}, two + 1) @@ To({"5"}, two + 2) @@ To(Hex, more))
  @@ (two + 1) :> (End @@ To(Digit, one + 2) @@ To(HexLetter, more + 1))
  @@ (two + 2) :> (End @@ To({"0"}, one + 2) @@ To(Hex, more + 1))
  @@ hex :> (End @@ To(Hex, more))
MoreDigits(more, End) ==
  [q \in {more, more + 1} |-> End @@ To(Hex, q + 1)] @@ (more + 2) :> End

Dot(o) == To({"."}, 55 + o)
CloseBracket(o) == To({"]"}, 61 + o)

(* An octet of an IPv4 address and what follows it.                          *)
Octet(s, done, one, two, sep) ==
  s :> (To({"1"}, one) @@ To({"2"}, two) @@ To(Digit, done))
  @@ done :> sep
  @@ one :> (sep @@ To(Digit, one + 1)) @@ (one + 1) :> (sep @@ To(Digit, done))
  @@ two :> (sep @@ To({"0"}, two + 1) @@ To({"5"}, two + 2))
  @@ (two + 1) :> To(Digit, done) @@ (two + 2) :> To({"0"}, done)

Octets(o) ==
  Octet(55 + o, 56 + o, 72 + o, 74 + o, To({"."}, 57 + o))
  @@ Octet(57 + o, 58 + o, 67 + o, 69 + o, To({"."}, 59 + o))
  @@ Octet(59 + o, 60 + o, 62 + o, 64 + o, CloseBracket(o))
LiteralEnd(o) == (61 + o) :> (PathEnd(o) @@ To({":"}, 46 + o))

(* the last two groups: 53..54, 77..90                                       *)
LastGroup(o) ==
  MoreDigits(77 + o, To({":"}, 80 + o))
  @@ (80 + o) :> To(Hex, 81 + o)
  @@ [q \in {81 + o, 82 + o} |-> To(Hex, q + 1) @@ CloseBracket(o)]
  @@ (83 + o) :> (To(Hex, 60 + o) @@ CloseBracket(o))
LastTwo(o) == OctetDigits(54 + o, 84 + o, 87 + o, 90 + o, 77 + o, Dot(o), To({":"}, 80 + o))

(* groups before "::", each counted up to the seventh                        *)
Groups12(o) ==
  Group(91 + o, 95 + o) @@ (95 + o) :> (To(Hex, 96 + o) @@ To({":"}, 166 + o))
  @@ Group(96 + o, 100 + o) @@ (100 + o) :> (To(Hex, 101 + o) @@ To({":"}, 165 + o))
Groups34(o) ==
  Group(101 + o, 105 + o) @@ (105 + o) :> (To(Hex, 106 + o) @@ To({":"}, 164 + o))
  @@ Group(106 + o, 110 + o) @@ (110 + o) :> (To(Hex, 111 + o) @@ To({":"}, 163 + o))
Groups56(o) ==
  Group(111 + o, 115 + o) @@ (115 + o) :> (To(Hex, 116 + o) @@ To({":"}, 151 + o))
  @@ Group(116 + o, 120 + o) @@ (120 + o) :> (To(Hex, 121 + o) @@ To({":"}, 150 + o))
Groups7(o) ==
  Group(121 + o, 125 + o) @@ (125 + o) :> (To(Hex, 121 + o) @@ To({":"}, 126 + o))

(* after "::", by the number of groups before it                             *)
AfterTwoColons(o) == OctetOrGroup(127 + o, 143 + o, 146 + o, 149 + o)
Counts(C, o) == To(C, 48 + o)
SevenGroups(o) ==
  (126 + o) :> (Counts({"x02", "x03"}, o) @@ CloseBracket(o) @@ AfterTwoColons(o))
  @@ MoreDigits(128 + o, CloseBracket(o) @@ To({":"}, 131 + o))
SecondLast(o) ==
  (131 + o) :> OctetOrGroup(132 + o, 136 + o, 139 + o, 142 + o)
  @@ MoreDigits(133 + o, CloseBracket(o) @@ To({":"}, 80 + o))
SecondLastDigits(o) ==
  OctetDigits(132 + o, 136 + o, 139 + o, 142 + o, 133 + o, Dot(o), CloseBracket(o) @@ To({":"}, 80 + o))
SevenDigits(o) ==
  OctetDigits(127 + o, 143 + o, 146 + o, 149 + o, 128 + o, Dot(o), CloseBracket(o) @@ To({":"}, 131 + o))
SixGroups(o) ==
  (150 + o) :> (Counts({"x02", "x03"}, o) @@ AfterTwoColons(o))
  @@ (151 + o) :> (Counts({"x02", "x03"}, o) @@ OctetOrGroup(152 + o, 156 + o, 159 + o, 162 + o))
  @@ MoreDigits(153 + o, To({":"}, 131 + o))
FiveDigits(o) ==
  OctetDigits(152 + o, 156 + o, 159 + o, 162 + o, 153 + o, Dot(o), To({":"}, 131 + o))
FewGroups(o) ==
  (163 + o) :> (Counts({"x02", "x03"}, o) @@ To(Hex, 49 + o))
  @@ (164 + o) :> Counts({"x02", "x03"}, o)
  @@ (165 + o) :> Counts({"x03"}, o)
  @@ (166 + o) :> Counts({"x04"}, o)
  @@ (167 + o) :> To({":"}, 168 + o)
  @@ (168 + o) :> (Counts({"x02", "x03", "x04", "x05"}, o) @@ CloseBracket(o) @@ AfterTwoColons(o))
FutureLiteral(r, o) ==
  (169 + o) :> To(Hex, 170 + o)
  @@ (170 + o) :> (To({"."}, 171 + o) @@ To(Hex, 170 + o))
  @@ (171 + o) :> To(Name(r) \union {":"}, 172 + o)
  @@ (172 + o) :> (CloseBracket(o) @@ To(Name(r) \union {":"}, 172 + o))

-----------------------------------------------------------------------------
(* Socket messages: XML "<name ...>NUL" and JSON "@path {...}NUL".           *)
Xml ==
  194 :> To(Alpha \union Digit \union {"-", "."}, 195)
  @@ 195 :> (Edge({"tab", "lf", "vt", "cr", "sp", "/", ">"}, 196, <<"request_path">>)
          @@ To(Alpha \union Digit \union {"-", "."}, 195))
  @@ 196 :> (To({">"}, 197) @@ To(Byte, 196))
  @@ 197 :> (To({">"}, 197) @@ Edge({"nul"}, FirstFinal + 1, <<"xml", "done">>) @@ To(Byte, 196))
JsonBody ==
  199 :> Edge({"{"}, 200, <<"mark">>)
  @@ 200 :> (To({"}"}, 201) @@ To(Byte, 200))
  @@ 201 :> (To({"}"}, 201) @@ Edge({"nul"}, FirstFinal + 1, <<"json", "done">>) @@ To(Byte, 200))
(* Mutant: a relative path may end without being reported.                     *)
JsonPathUnreported(r) ==
  198 :> (PathDone(Copy) @@ To({"%"}, 203) @@ To({"/"}, 208) @@ To(Name(r) \union {"@"}, 202))
  @@ 202 :> (To({"sp"}, 199) @@ PathEnd(Copy) @@ To({"%"}, 203) @@ To(Name(r) \union {"@"}, 202)) @@ Pct(203, 202)
  @@ 205 :> (PathDone(Copy) @@ To({"%"}, 206) @@ To(Segment(r) \union {"/"}, 205)) @@ Pct(206, 205)
  @@ 208 :> (PathDone(Copy) @@ To({"%"}, 206) @@ To({"/"}, 209) @@ To(Segment(r), 205))

JsonPath(r) ==
  198 :> (PathDone(Copy) @@ To({"%"}, 203) @@ To({"/"}, 208) @@ To(Name(r) \union {"@"}, 202))
  @@ 202 :> (PathEnd(Copy) @@ To({"%"}, 203) @@ To(Name(r) \union {"@"}, 202)) @@ Pct(203, 202)
  @@ 205 :> (PathDone(Copy) @@ To({"%"}, 206) @@ To(Segment(r) \union {"/"}, 205)) @@ Pct(206, 205)
  @@ 208 :> (PathDone(Copy) @@ To({"%"}, 206) @@ To({"/"}, 209) @@ To(Segment(r), 205))

-----------------------------------------------------------------------------
(* The two copies of the authority states.                                   *)
RequestAuthority(r) ==
  Authority(r, 0) @@ UserInfo(r, 0) @@ Host(r, 0) @@ Port(0) @@ LiteralStart(0) @@ FirstOctet(0)
  @@ Octets(0) @@ LiteralEnd(0) @@ LastGroup(0) @@ LastTwo(0)
  @@ Groups12(0) @@ Groups34(0) @@ Groups56(0) @@ Groups7(0)
  @@ SevenGroups(0) @@ SecondLast(0) @@ SecondLastDigits(0) @@ SevenDigits(0) @@ SixGroups(0)
  @@ FiveDigits(0) @@ FewGroups(0) @@ FutureLiteral(r, 0)

SocketAuthority(r) == Authority(r, Copy)
SocketUser(r) == UserInfo(r, Copy)
SocketHost(r) == Host(r, Copy) @@ Port(Copy)
SocketLiteral == LiteralStart(Copy) @@ FirstOctet(Copy)
SocketOctets == Octets(Copy) @@ LiteralEnd(Copy)
SocketLastGroup == LastGroup(Copy)
SocketLastTwo == LastTwo(Copy)
SocketGroups12 == Groups12(Copy)
SocketGroups34 == Groups34(Copy)
SocketGroups56 == Groups56(Copy)
SocketGroups7 == Groups7(Copy)
SocketSeven == SevenGroups(Copy)
SocketSecondLast == SecondLast(Copy)
SocketSecondLastDigits == SecondLastDigits(Copy)
SocketSevenDigits == SevenDigits(Copy)
SocketSix == SixGroups(Copy)
SocketFiveDigits == FiveDigits(Copy)
SocketFew == FewGroups(Copy)
SocketFuture(r) == FutureLiteral(r, Copy)

(* Where the table has no entry the parser goes to the error state 0.        *)
RequestTable ==
  [r \in BOOLEAN |->
     Start @@ Method2 @@ Method3 @@ Method13 @@ UriStart(r) @@ Version @@ PathNoScheme(r) @@ Fragment(r)
     @@ FragmentPct @@ Path(r) @@ QueryString(r) @@ PathSlash(r) @@ Scheme(r)
     @@ FieldName @@ FieldValue @@ HeadersEnd @@ RequestAuthority(r) @@ Xml @@ JsonBody @@ JsonPath(r)
     @@ SocketAuthority(r) @@ SocketUser(r) @@ SocketHost(r) @@ SocketLiteral @@ SocketOctets
     @@ SocketLastGroup @@ SocketLastTwo @@ SocketGroups12 @@ SocketGroups34 @@ SocketGroups56 @@ SocketGroups7
     @@ SocketSeven @@ SocketSecondLast @@ SocketSecondLastDigits @@ SocketSevenDigits
     @@ SocketSix @@ SocketFiveDigits @@ SocketFew @@ SocketFuture(r)]
=============================================================================
