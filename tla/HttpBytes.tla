------------------------------ MODULE HttpBytes ------------------------------
(***************************************************************************)
(* The alphabet of the two generated HTTP parsers and the form of their    *)
(* transition tables (src/src/net/http/http11_parser.rl.cc and             *)
(* httpclient_parser.rl.cc).  Bytes no transition of either parser tells   *)
(* apart are one element: "3" stands for 4 and 6..9 as well, "J" for M, Q  *)
(* and V..Z, "j" for j, m, p, q and w..z, "!" for $ & ' * _ and ~, "(" for *)
(* ) and the comma, "quote" for the backslash, "high" for 128..255, "ctl"  *)
(* for 1, 7, 8 and 14..31, "vt" for 11 and 12, "|" for the backquote too.   *)
(***************************************************************************)
EXTENDS Integers, Sequences, TLC

Digit == {"0", "1", "2", "3", "5"}
HexLetter == {"A", "B", "C", "D", "E", "F", "a", "b", "c", "d", "e", "f"}
Hex == Digit \union HexLetter
Upper == {"A", "B", "C", "D", "E", "F", "G", "H", "I", "J", "K", "L", "N", "O", "P", "R", "S", "T", "U"}
Lower == {"a", "b", "c", "d", "e", "f", "g", "h", "i", "j", "k", "l", "n", "o", "r", "s", "t", "u", "v"}
Alpha == Upper \union Lower
Ctl == {"x02", "x03", "x04", "x05", "x06", "ctl"}
Punct == {"!", "quote", "#", "%", "(", ";", "=", "+", "-", ".", "/", ":", "<", ">", "?", "@",
          "[", "]", "^", "{", "|", "}"}
Byte == {"nul", "tab", "lf", "vt", "cr", "sp", "del", "high"} \union Ctl \union Digit \union Alpha \union Punct

(* field names: ascii without the separators, NUL and DEL                    *)
Token == {"!", "#", "%", "+", "-", ".", "^", "|"} \union Alpha \union Digit

(* the bytes C lead to state s, with the embedded actions `do`               *)
Edge(C, s, do) == [c \in C |-> [to |-> s, do |-> do]]
To(C, s) == Edge(C, s, <<>>)

(* states s, s+1, ... spell the word w; a byte that leaves it follows Else    *)
Spell(s, w, Else) == [q \in s..(s + Len(w) - 1) |-> To(w[q - s + 1], q + 1) @@ Else]

(* either case of a letter                                                   *)
EitherCase(l) == CASE l = "A" -> {"A", "a"} [] l = "C" -> {"C", "c"} [] l = "D" -> {"D", "d"}
            [] l = "E" -> {"E", "e"} [] l = "F" -> {"F", "f"} [] l = "G" -> {"G", "g"}
            [] l = "H" -> {"H", "h"} [] l = "I" -> {"I", "i"} [] l = "K" -> {"K", "k"}
            [] l = "L" -> {"L", "l"} [] l = "N" -> {"N", "n"} [] l = "O" -> {"O", "o"}
            [] l = "R" -> {"R", "r"} [] l = "S" -> {"S", "s"} [] l = "T" -> {"T", "t"}
            [] l = "U" -> {"U", "u"} [] OTHER -> {l}

=============================================================================
