----------------------------- MODULE HttpServer -----------------------------
(***************************************************************************)
(* HttpContext and HttpServer (src/src/net/http/HttpContext.cc,            *)
(* HttpServer.cc) on one connection, over the request parser; and          *)
(* HttpResponseParser::execute, which a client calls in a loop of its own. *)
(* The bytes a call finds in the Buffer are chosen while they are read:    *)
(* execute ends at an error, at the end of the headers, or wherever the    *)
(* Buffer ends.  Where that may be is SplitAnywhere: if it is FALSE, TCP   *)
(* delivers whole lines of the headers.                                    *)
(***************************************************************************)
EXTENDS HttpParser

CONSTANTS
  SplitAnywhere,  \* a read may end within a line of the headers
  MaxLength,      \* bound on the bytes of a body
  MaxAhead        \* bound on the bytes in the Buffer behind the headers

ASSUME HttpAssumption == SplitAnywhere \in BOOLEAN /\ MaxLength \in Nat /\ MaxAhead \in Nat

VARIABLES
  state,      \* m_state: "headers" or "body"; "gotAll" does not outlive onMessage
  bad,        \* m_error of the parser
  connected,  \* the connection still sends
  length,     \* the content-length of the request in "body"
  ahead,      \* bytes in the Buffer that the parser has not read
  refused,    \* "no", or a 400 was sent: "error", "length"
  handled     \* the last call of onMessage handed a request to the dispatcher

serverVars == <<state, connected, length, ahead, refused, handled>>
httpVars == <<parserVars, bad, serverVars>>

HttpInit ==
  /\ ParserInit
  /\ state = "headers" /\ bad = FALSE /\ connected = TRUE
  /\ length = 0 /\ ahead = 0 /\ refused = "no" /\ handled = FALSE

HasFields == "write_value" \in Range(got)
HasError == bad \/ cs = 0

(* Where execute may run out of bytes.                                         *)
BufferEnds == SplitAnywhere \/ cs \in (IF side = "request" THEN {1, 13} ELSE {1, 20, 43})

(* One byte.  CharsToHttpMethod may refuse a method, on_response_version a      *)
(* version; the automaton lets through only versions on_request_version knows. *)
ParseByte(b) ==
  /\ ReadByte(b)
  /\ \/ UNCHANGED bad
     \/ /\ got' # got
        /\ Last(got') = (IF side = "request" THEN "request_method" ELSE "http_version")
        /\ bad' = TRUE
  /\ UNCHANGED serverVars

(* onRequest and session->reset(), with a bytes left in the Buffer.  The       *)
(* connection closes if m_keepalive is off or a connection header says so; a   *)
(* response on a connection that is down is dropped.                           *)
OnRequest(a) ==
  /\ handled' = TRUE
  /\ connected' \in {FALSE, connected}
  /\ state' = "headers" /\ bad' = FALSE /\ length' = 0 /\ ahead' = a
  /\ ParserReset
  /\ UNCHANGED refused

BodyWaits(n, a) ==
  /\ state' = "body" /\ length' = n /\ ahead' = a
  /\ UNCHANGED <<side, relaxed, cs, marks, got, name, header, did, cut, bad, connected, refused, handled>>

(* Mutant: a body that has just arrived waits for one more byte.               *)
TryBodyStrict(n, a) == IF n = 0 \/ a > n THEN OnRequest(a - n) ELSE BodyWaits(n, a)

(* What parseRequest does once the headers are read: n bytes of body wanted,   *)
(* a bytes in the Buffer.                                                      *)
TryBody(n, a) == IF a >= n THEN OnRequest(a - n) ELSE BodyWaits(n, a)

(* onMessage with k more bytes in the Buffer: to the body, or to the parser.   *)
(* Assumed of the peer: it sends nothing after the 400 for too long a header.  *)
MoreBody(k) ==
  /\ side = "request" /\ ~running /\ state = "body"
  /\ ahead + k <= MaxAhead
  /\ UNCHANGED running
  /\ TryBody(length, ahead + k)

ParseMore ==
  /\ side = "request" /\ state = "headers" /\ refused # "length"
  /\ Begin(FALSE)
  /\ handled' = FALSE /\ ahead' = 0
  /\ UNCHANGED <<state, bad, connected, length, refused>>

(* execute is back with the headers not complete, complete, refused, or as long*)
(* as the buffer size allows: then, too, a 400 is sent and the connection shut *)
(* down, while the parser stays where it is.                                   *)
Incomplete ==
  /\ side = "request" /\ running /\ running' = FALSE
  /\ ~HasError /\ ~IsDone /\ BufferEnds
  /\ UNCHANGED <<side, relaxed, cs, marks, got, name, header, did, cut, bad, serverVars>>

Complete ==
  /\ side = "request" /\ running /\ running' = FALSE
  /\ ~HasError /\ IsDone
  /\ \E n \in (IF HasFields THEN 0..MaxLength ELSE {0}), a \in 0..MaxAhead : TryBody(n, a)

Refused ==
  /\ side = "request" /\ running /\ running' = FALSE
  /\ HasError /\ (cs = 0 \/ IsDone \/ BufferEnds)
  /\ connected' = FALSE /\ refused' = "error"
  /\ UNCHANGED <<side, relaxed, cs, marks, got, name, header, did, cut, bad, state, length, ahead, handled>>

TooLong ==
  /\ side = "request" /\ running /\ running' = FALSE
  /\ ~HasError /\ connected' = FALSE /\ refused' = "length"
  /\ UNCHANGED <<side, relaxed, cs, marks, got, name, header, did, cut, bad, state, length, ahead, handled>>

-----------------------------------------------------------------------------
(* HttpResponseParser: a call of execute, on a chunk or not, its return, and   *)
(* reset() for the next message, which a caller does once the headers are done. *)
Execute(chunck) ==
  /\ side = "response" /\ (chunck \/ ~IsDone)
  /\ Begin(chunck)
  /\ UNCHANGED <<bad, serverVars>>

ExecuteReturns ==
  /\ side = "response" /\ running /\ running' = FALSE
  /\ cs = 0 \/ IsDone \/ BufferEnds
  /\ UNCHANGED <<side, relaxed, cs, marks, got, name, header, did, cut, bad, serverVars>>

Reset ==
  /\ side = "response" /\ ~running
  /\ ParserReset /\ bad' = FALSE
  /\ UNCHANGED <<running, serverVars>>

HttpNext ==
  \/ \E b \in Byte : ParseByte(b)
  \/ \E k \in 1..MaxAhead : MoreBody(k)
  \/ ParseMore \/ Incomplete \/ Complete \/ Refused \/ TooLong
  \/ \E chunck \in BOOLEAN : Execute(chunck)
  \/ ExecuteReturns \/ Reset

HttpSpec == HttpInit /\ [][HttpNext]_httpVars

-----------------------------------------------------------------------------
(* A request whose last byte is in the Buffer is answered by the call that     *)
(* brought it: between two calls, a context that waits for a body lacks bytes.  *)
BodyIsAwaited == ~running /\ state = "body" => ahead < length

=============================================================================
