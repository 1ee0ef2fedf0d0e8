-------------------------- MODULE HttpClientMachine --------------------------
(***************************************************************************)
(* The transition table of the response parser that Ragel generated        *)
(* (src/src/net/http/httpclient_parser.rl.cc).  Three header names are     *)
(* recognised while they are read: Connection, Content-Length and          *)
(* Transfer-Encoding, in either case; every other name and value runs      *)
(* through the states 21..24.                                              *)
(***************************************************************************)
EXTENDS HttpBytes

ClientFirstFinal == 120

Blank == {"tab", "vt", "sp"}
DoneOn(s, do) == Edge({"lf"}, s, do \o <<"done">>)
NoCase(w) == [i \in DOMAIN w |-> EitherCase(w[i])]

-----------------------------------------------------------------------------
(* A chunk header: size and extensions.                                      *)
ChunkSize ==
  1 :> (Edge({"H"}, 8, <<"mark">>) @@ Edge(Hex, 2, <<"mark">>))
  @@ 2 :> (To(Hex, 2) @@ Edge({"cr"}, 3, <<"chunk_size">>) @@ Edge({";"}, 4, <<"chunk_size">>)
        @@ DoneOn(ClientFirstFinal, <<"chunk_size">>))
  @@ 3 :> DoneOn(ClientFirstFinal, <<>>)

ExtensionName ==
  4 :> Edge(Token, 5, <<"field_start">>)
  @@ 5 :> (To(Token, 5) @@ Edge({"="}, 6, <<"field_len", "mark">>)
        @@ Edge({"cr"}, 3, <<"field_len", "mark", "write_value">>)
        @@ Edge({";"}, 4, <<"field_len", "mark", "write_value">>)
        @@ DoneOn(ClientFirstFinal, <<"field_len", "mark", "write_value">>))

ExtensionValue ==
  6 :> Edge(Token, 7, <<"mark">>)
  @@ 7 :> (To(Token, 7) @@ Edge({"cr"}, 3, <<"write_value">>) @@ Edge({";"}, 4, <<"write_value">>)
        @@ DoneOn(ClientFirstFinal, <<"write_value">>))

-----------------------------------------------------------------------------
StatusLine ==
  Spell(8, <<{"T"}, {"T"}, {"P"}, {"/"}, Digit>>, <<>>)
  @@ 13 :> (To(Digit, 13) @@ To({"."}, 14)) @@ 14 :> To(Digit, 15)
  @@ 15 :> (To(Digit, 15) @@ Edge({"sp"}, 16, <<"http_version">>))
  @@ 16 :> Edge(Digit, 17, <<"mark">>) @@ 17 :> (To(Digit, 17) @@ Edge({"sp"}, 18, <<"status_code">>))
  @@ 18 :> Edge(Byte \ {"lf"}, 19, <<"mark">>)
  @@ 19 :> (Edge({"lf"}, 20, <<"reason_phrase">>) @@ Edge({"cr"}, 24, <<"reason_phrase">>) @@ To(Byte, 19))

(* The first letter of a header; `do` is what was left to do before it.      *)
FieldFirst(do) ==
  Edge(EitherCase("C"), 25, do \o <<"field_start">>) @@ Edge(EitherCase("T"), 44, do \o <<"field_start">>)
  @@ Edge(Token, 21, do \o <<"field_start">>)
NameRest == To(Token, 21) @@ Edge({":"}, 22, <<"field_len">>)
ValueRest == Edge({"lf"}, 20, <<"write_value">>) @@ Edge({"cr"}, 24, <<"write_value">>) @@ To(Byte, 23)

HeaderStart == 20 :> (To({"cr"}, 3) @@ FieldFirst(<<>>) @@ DoneOn(ClientFirstFinal, <<>>))
HeaderName == 21 :> NameRest
HeaderValue ==
  22 :> (Edge({"lf"}, 20, <<"mark", "write_value">>) @@ Edge({"cr"}, 24, <<"mark", "write_value">>)
      @@ Edge(Blank, 22, <<"mark">>) @@ Edge(Byte, 23, <<"mark">>))
  @@ 23 :> ValueRest
  @@ 24 :> To({"lf"}, 20)

(* The value of a recognised name: a blank first value, or the letter c.     *)
ValueStart(s, empty, cr, first, c) ==
  s :> (Edge({"lf"}, empty, <<"mark", "write_value">>) @@ Edge({"cr"}, cr, <<"mark", "write_value">>)
     @@ Edge(Blank, s, <<"mark">>) @@ Edge(first, c, <<"mark">>) @@ Edge(Byte, 23, <<"mark">>))

-----------------------------------------------------------------------------
(* Connection: close                                                         *)
ConnectionName ==
  Spell(25, NoCase(<<"O", "N">>), NameRest)
  @@ 27 :> (To(EitherCase("N"), 28) @@ To(EitherCase("T"), 101) @@ NameRest)
  @@ Spell(28, NoCase(<<"E">>), NameRest)
ConnectionName2 ==
  Spell(29, NoCase(<<"C", "T", "I", "O", "N">>), NameRest)
ConnectionColon == 34 :> (Edge({":"}, 35, <<"field_len">>) @@ To(Token, 21))
ConnectionValue ==
  ValueStart(35, 36, 95, EitherCase("C"), 96)
  @@ 36 :> (To({"cr"}, 89) @@ Edge(EitherCase("C"), 90, <<"field_start">>) @@ To(Blank, 37) @@ FieldFirst(<<>>)
         @@ DoneOn(122, <<>>))
ConnectionFolded ==
  37 :> (To(Blank \union {"lf", "cr"}, 37) @@ To(EitherCase("C"), 38))
  @@ Spell(38, NoCase(<<"L", "O", "S", "E">>), <<>>)
  @@ 42 :> (To({"lf"}, 43) @@ To({"cr"}, 88))
ConnectionClose ==
  43 :> (Edge({"cr"}, 3, <<"write_connection_close">>) @@ FieldFirst(<<"write_connection_close">>)
      @@ DoneOn(ClientFirstFinal, <<"write_connection_close">>))
ConnectionOther ==
  88 :> To({"lf"}, 43)
  @@ 122 :> (To(Blank \union {"lf", "cr"}, 37) @@ To(EitherCase("C"), 38))
  @@ 89 :> (To(Blank \union {"cr"}, 37) @@ To(EitherCase("C"), 38) @@ DoneOn(122, <<>>))
  @@ 90 :> (To(EitherCase("O"), 26) @@ To(EitherCase("L"), 91) @@ NameRest)
CloseAsName ==
  Spell(91, NoCase(<<"O", "S", "E">>), NameRest) @@ 94 :> (To({"lf"}, 43) @@ To({"cr"}, 88) @@ NameRest)
CloseAsValue ==
  95 :> (To({"lf"}, 36) @@ To(Blank \union {"cr"}, 37) @@ To(EitherCase("C"), 38))
  @@ Spell(96, NoCase(<<"L", "O", "S", "E">>), ValueRest)
  @@ 100 :> (Edge({"lf"}, 43, <<"write_value">>) @@ Edge({"cr"}, 88, <<"write_value">>) @@ To(Byte, 23))

-----------------------------------------------------------------------------
(* Transfer-Encoding: chunked                                                *)
TransferName == Spell(44, NoCase(<<"R", "A", "N", "S">>), NameRest)
TransferName2 == Spell(48, NoCase(<<"F", "E", "R", "-", "E">>), NameRest)
TransferName3 == Spell(53, NoCase(<<"N", "C", "O", "D">>), NameRest)
TransferName4 == Spell(57, NoCase(<<"I", "N", "G">>), NameRest)
                 @@ 60 :> (Edge({":"}, 61, <<"field_len">>) @@ To(Token, 21))
TransferValue ==
  ValueStart(61, 62, 80, EitherCase("C"), 81)
  @@ 62 :> (To({"cr"}, 72) @@ Edge(EitherCase("C"), 73, <<"mark", "field_start">>) @@ To(Blank, 63)
         @@ FieldFirst(<<>>) @@ DoneOn(121, <<>>))
  @@ 63 :> (To(Blank \union {"lf", "cr"}, 63) @@ Edge(EitherCase("C"), 64, <<"mark">>))
TransferFolded ==
  Spell(64, NoCase(<<"H", "U", "N", "K", "E", "D">>), <<>>)
  @@ 70 :> (Edge({"lf"}, 20, <<"write_value", "trans_chunked">>) @@ Edge({"cr"}, 71, <<"write_value">>))
  @@ 71 :> Edge({"lf"}, 20, <<"trans_chunked">>)
TransferOther ==
  121 :> (To(Blank \union {"lf", "cr"}, 63) @@ Edge(EitherCase("C"), 64, <<"mark">>))
  @@ 72 :> (To(Blank \union {"cr"}, 63) @@ Edge(EitherCase("C"), 64, <<"mark">>) @@ DoneOn(121, <<>>))
  @@ 73 :> (To(EitherCase("O"), 26) @@ To(EitherCase("H"), 74) @@ NameRest)
ChunkedAsName ==
  Spell(74, NoCase(<<"U", "N", "K", "E", "D">>), NameRest)
ChunkedAsNameEnd ==
  79 :> (Edge({"lf"}, 20, <<"write_value", "trans_chunked">>) @@ Edge({"cr"}, 71, <<"write_value">>) @@ NameRest)
ChunkedAsValue ==
  80 :> (To({"lf"}, 62) @@ To(Blank \union {"cr"}, 63) @@ Edge(EitherCase("C"), 64, <<"mark">>))
  @@ Spell(81, NoCase(<<"H", "U", "N", "K", "E", "D">>), ValueRest)
  @@ 87 :> (Edge({"lf"}, 20, <<"write_value", "trans_chunked">>) @@ Edge({"cr"}, 71, <<"write_value">>) @@ To(Byte, 23))

-----------------------------------------------------------------------------
(* Content-Length: digits                                                    *)
LengthName == Spell(101, NoCase(<<"E", "N", "T", "-", "L">>), NameRest)
LengthName2 == Spell(106, NoCase(<<"E", "N", "G", "T">>), NameRest)
(* Mutant: the last letter of the name is not compared.                        *)
LengthNameAny == Spell(110, NoCase(<<"H">>), To(Token, 111) @@ Edge({":"}, 22, <<"field_len">>))
                 @@ 111 :> (Edge({":"}, 112, <<"field_len">>) @@ To(Token, 21))
LengthName3 == Spell(110, NoCase(<<"H">>), NameRest)
               @@ 111 :> (Edge({":"}, 112, <<"field_len">>) @@ To(Token, 21))
LengthEnd == Edge({"lf"}, 20, <<"write_content_len", "write_value">>)
             @@ Edge({"cr"}, 24, <<"write_content_len", "write_value">>)
LengthValue ==
  ValueStart(112, 113, 118, Digit, 119)
  @@ 113 :> (To({"cr"}, 116) @@ Edge(Digit, 117, <<"mark", "field_start">>) @@ To(Blank, 114) @@ FieldFirst(<<>>)
          @@ DoneOn(123, <<>>))
LengthFolded ==
  114 :> (To(Blank \union {"lf", "cr"}, 114) @@ Edge(Digit, 115, <<"mark">>))
  @@ 115 :> (LengthEnd @@ To(Digit, 115))
  @@ 123 :> (To(Blank \union {"lf", "cr"}, 114) @@ Edge(Digit, 115, <<"mark">>))
  @@ 116 :> (To(Blank \union {"cr"}, 114) @@ Edge(Digit, 115, <<"mark">>) @@ DoneOn(123, <<>>))
LengthOther ==
  117 :> (LengthEnd @@ To(Digit, 117) @@ NameRest)
  @@ 118 :> (To({"lf"}, 113) @@ To(Blank \union {"cr"}, 114) @@ Edge(Digit, 115, <<"mark">>))
  @@ 119 :> (LengthEnd @@ To(Digit, 119) @@ To(Byte, 23))

-----------------------------------------------------------------------------
ResponseTable ==
  ChunkSize @@ ExtensionName @@ ExtensionValue @@ StatusLine @@ HeaderStart @@ HeaderName @@ HeaderValue
  @@ ConnectionName @@ ConnectionName2 @@ ConnectionColon @@ ConnectionValue @@ ConnectionFolded
  @@ ConnectionClose @@ ConnectionOther @@ CloseAsName @@ CloseAsValue
  @@ TransferName @@ TransferName2 @@ TransferName3 @@ TransferName4 @@ TransferValue @@ TransferFolded
  @@ TransferOther @@ ChunkedAsName @@ ChunkedAsNameEnd @@ ChunkedAsValue
  @@ LengthName @@ LengthName2 @@ LengthName3 @@ LengthValue @@ LengthFolded @@ LengthOther
=============================================================================
