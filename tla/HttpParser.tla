----------------------------- MODULE HttpParser -----------------------------
(***************************************************************************)
(* One run of a generated parser over the bytes it is given: what the      *)
(* embedded actions do (http11_parser.rl, httpclient_parser.rl) and what    *)
(* survives between two calls of execute (http11_parser.rl.cc,             *)
(* httpclient_parser.rl.cc).  A callback receives a slice of the buffer    *)
(* that starts at a register the parser set earlier; every call of execute *)
(* clears mark, field_start and field_len, so a slice that began in an     *)
(* earlier call is gone.                                                   *)
(*                                                                         *)
(* A register in `marks` holds the start of the part being read; the       *)
(* callback that uses it ends the part.  Field registers stay for a folded *)
(* value, and field_len belongs to the field_start before it.              *)
(***************************************************************************)
EXTENDS Http11Machine, HttpClientMachine, FiniteSets, SequencesExt

VARIABLES
  side,      \* "request" (HttpRequestParser) or "response" (HttpResponseParser)
  relaxed,   \* uri_relaxed, which http_parser_init leaves as it finds it
  cs,        \* the automaton's state
  running,   \* inside execute
  marks,     \* registers that hold the start (or length) of the part being read
  got,       \* callbacks of this message, later header fields left out
  name,      \* the header name being read, Other once it is none the parser knows
  header,    \* the last header name that was ended by its colon
  did,       \* the actions of the last byte
  cut        \* the state in which one of them used a register that was not set, 0 if none did

parserVars == <<side, relaxed, cs, running, marks, got, name, header, did, cut>>

Other == <<"?">>
Known == {<<"C","O","N","N","E","C","T","I","O","N">>,
          <<"C","O","N","T","E","N","T","-","L","E","N","G","T","H">>,
          <<"T","R","A","N","S","F","E","R","-","E","N","C","O","D","I","N","G">>}
Capital(b) == IF \E u \in Upper : b \in EitherCase(u) THEN CHOOSE u \in Upper : b \in EitherCase(u) ELSE b
Grown(n, b) == LET m == Append(n, Capital(b)) IN IF \E k \in Known : IsPrefix(m, k) THEN m ELSE Other

Registers == {"mark", "field_start", "field_len", "query_start"}
Slices == {"request_method", "request_path", "fragment", "http_version", "status_code", "reason_phrase",
           "chunk_size", "query_string", "write_value"}

(* the registers an action reads; on_request_uri uses nothing of its slice     *)
Needs(a) == CASE a = "query_string" -> {"query_start"}
              [] a = "field_len" -> {"field_start"}
              [] a = "write_value" -> {"field_start", "field_len", "mark"}
              [] a = "write_content_len" -> {"mark"}
              [] a \in Slices -> {"mark"}
              [] OTHER -> {}

(* The registers once the actions A set theirs; a new field_start makes the    *)
(* old field_len stale.                                                        *)
Set(A) == LET set == A \intersect Registers
          IN (IF "field_start" \in set THEN marks \ {"field_len"} ELSE marks) \union set

(* The parts that A ends.                                                      *)
Spent(A) == (IF A \intersect (Slices \union {"write_content_len"}) # {} THEN {"mark"} ELSE {})
            \union (IF "query_string" \in A THEN {"query_start"} ELSE {})

Delivered(do) ==
  SelectSeq(do, LAMBDA a : a \in (Slices \ {"write_value"}) \union {"xml", "json", "done"}
                           \/ (a = "write_value" /\ "write_value" \notin Range(got)))

NoEdge == [to |-> 0, do |-> <<>>]
Transition(b) ==
  LET table == IF side = "request" THEN RequestTable[relaxed] ELSE ResponseTable
  IN IF cs \in DOMAIN table /\ b \in DOMAIN table[cs] THEN table[cs][b] ELSE NoEdge

Final == IF side = "request" THEN FirstFinal ELSE ClientFirstFinal
IsDone == "done" \in Range(got)

ParserInit ==
  /\ side \in {"request", "response"}
  /\ relaxed \in (IF side = "request" THEN BOOLEAN ELSE {FALSE})
  /\ cs = 1 /\ running = FALSE /\ marks = {} /\ got = <<>>
  /\ name = <<>> /\ header = <<>> /\ did = {} /\ cut = 0

(* http_parser_init and httpclient_parser_init: query_start is not in the list. *)
ParserReset ==
  /\ cs' = 1 /\ got' = <<>> /\ name' = <<>> /\ header' = <<>> /\ did' = {} /\ cut' = 0
  /\ UNCHANGED <<side, relaxed, marks>>

(* execute begins: the registers are cleared; with `again` the response parser *)
(* is initialised first (a chunk).  From a final state without transitions the *)
(* automaton falls into the error state.                                       *)
Begin(again) ==
  /\ ~running /\ running' = TRUE
  /\ marks' = marks \intersect {"query_start"}
  /\ IF again
     THEN cs' = 1 /\ got' = <<>> /\ name' = <<>> /\ header' = <<>>
     ELSE /\ cs' = IF cs = Final \/ (side = "request" /\ cs > Final) THEN 0 ELSE cs
          /\ got' = SelectSeq(got, LAMBDA a : a # "done")
          /\ UNCHANGED <<name, header>>
  /\ did' = {} /\ cut' = 0
  /\ UNCHANGED <<side, relaxed>>

(* One byte: the actions embedded in its transition, then the next state.      *)
ReadByte(b) ==
  /\ running /\ cs # 0 /\ ~IsDone
  /\ LET e == Transition(b)
         A == Range(e.do)
         set == Set(A)
         reading == "field_start" \in marks /\ "field_len" \notin marks
     IN /\ cs' = e.to
        /\ marks' = set \ Spent(A)
        /\ got' = got \o Delivered(e.do)
        /\ did' = A
        /\ cut' = IF \A a \in A : Needs(a) \subseteq set THEN 0 ELSE cs
        /\ name' = CASE "field_start" \in A -> Grown(<<>>, b)
                     [] "field_len" \in A -> <<>>
                     [] reading -> Grown(name, b)
                     [] OTHER -> name
        /\ header' = IF "field_len" \in A THEN name ELSE header
  /\ UNCHANGED <<side, relaxed, running>>

-----------------------------------------------------------------------------
(* Every slice a callback receives starts where its part starts: the register  *)
(* was set for it, by every path through the automaton.  Only a chunked or a   *)
(* content-length value on a line of its own, not indented, is taken for a     *)
(* header name as well and reported with the length of the name before it.    *)
SlicesAreMarked == cut \in {0} \union (IF side = "response" THEN {79, 117} ELSE {})

Optional(s) == {<<>>, s}
RequestParts ==
  {<<"request_method", "request_path">> \o q \o f \o <<"http_version">> \o h \o <<"done">> :
     q \in Optional(<<"query_string">>), f \in Optional(<<"fragment">>), h \in Optional(<<"write_value">>)}
  \union {<<"request_path", "xml", "done">>, <<"request_path", "json", "done">>}
ResponseParts ==
  {first \o h \o <<"done">> : first \in {<<"http_version", "status_code", "reason_phrase">>, <<"chunk_size">>},
                              h \in Optional(<<"write_value">>)}

(* The callbacks of a message come in the order of its parts, each once (the   *)
(* header fields together), and none is missing at the end of the headers.     *)
PartsInOrder ==
  cs # 0 => \E w \in (IF side = "request" THEN RequestParts ELSE ResponseParts) : IsPrefix(got, w)

(* The response parser notes a closing connection, a length and chunks for the *)
(* header of that name only, whatever the folding and the case.               *)
Noted(action, start) == action \in did => \E k \in Known : header = k /\ IsPrefix(start, k)
HeaderMeans ==
  /\ Noted("write_connection_close", <<"C", "O", "N", "N">>)
  /\ Noted("write_content_len", <<"C", "O", "N", "T">>)
  /\ Noted("trans_chunked", <<"T">>)
=============================================================================
