------------------------------ MODULE UrlChars ------------------------------
(***************************************************************************)
(* Characters, character sets and percent-encoding.                        *)
(*                                                                         *)
(* A string is a sequence of one-character strings.  Letters, digits and   *)
(* the other unreserved characters belong to every character set of        *)
(* rfc/detail/charsets.hpp, so a character set is represented here by the  *)
(* Special characters it admits.  "." is listed as special because         *)
(* set_host_name() removes it from host_chars.                             *)
(*                                                                         *)
(* Escapes keep their three characters.  Every "%" in a string of the      *)
(* model starts a valid escape: pct_string_view guarantees this for the    *)
(* arguments of the set_encoded_* functions, and the encoders write        *)
(* nothing else.                                                           *)
(***************************************************************************)
EXTENDS Integers, Sequences, SequencesExt, FiniteSetsExt

GenDelims == {":", "/", "?", "#", "[", "]", "@"}
SubDelims == {"&", "=", "+"}
Special == GenDelims \cup SubDelims \cup {".", "%", " "}

\* rfc/detail/charsets.hpp
user_chars_with_colon == SubDelims \cup {".", ":"}
user_chars == SubDelims \cup {"."}
password_chars == user_chars \cup {":"}
userinfo_chars == password_chars
host_chars == user_chars
pchars == SubDelims \cup {".", ":", "@"}
segment_chars == pchars
path_chars == segment_chars \cup {"/"}
query_chars == pchars \cup {"/", "?", "[", "]"}
fragment_chars == pchars \cup {"/", "?", "#"}

Allowed(c, charset) == c \in Special => c \in charset

Digits == {"0", "1", "2", "3", "4", "5", "6", "7", "8", "9"}
DigitValue == [d \in Digits |->
    CHOOSE n \in 0..9 : <<"0", "1", "2", "3", "4",
                          "5", "6", "7", "8", "9">>[n + 1] = d]

\* detail::hexdigs, for the characters that some character set leaves out.
Escape ==
    [c \in Special |->
        CASE c = " " -> <<"%", "2", "0">>
          [] c = "#" -> <<"%", "2", "3">>
          [] c = "%" -> <<"%", "2", "5">>
          [] c = "&" -> <<"%", "2", "6">>
          [] c = "+" -> <<"%", "2", "B">>
          [] c = "." -> <<"%", "2", "E">>
          [] c = "/" -> <<"%", "2", "F">>
          [] c = ":" -> <<"%", "3", "A">>
          [] c = "=" -> <<"%", "3", "D">>
          [] c = "?" -> <<"%", "3", "F">>
          [] c = "@" -> <<"%", "4", "0">>
          [] c = "[" -> <<"%", "5", "B">>
          [] c = "]" -> <<"%", "5", "D">>]

MapChars(s, F(_)) == FlattenSeq([i \in 1..Len(s) |-> F(s[i])])

\* encode(): every character outside the set becomes an escape.
encode(s, charset) ==
    MapChars(s, LAMBDA c : IF Allowed(c, charset) THEN <<c>> ELSE Escape[c])

\* re_encode_unsafe(): the same, but escapes are passed through unchanged.
re_encode(s, charset) ==
    MapChars(s, LAMBDA c : IF Allowed(c, charset \cup {"%"}) THEN <<c>> ELSE Escape[c])

Count(s, c) == Cardinality({i \in 1..Len(s) : s[i] = c})

\* decode_bytes_unsafe(): the size of s once its escapes are decoded.
decoded_size(s) == Len(s) - 2 * Count(s, "%")

\* s[i] is the second or the third character of an escape.
InEscape(s, i) == \E k \in {1, 2} : i - k >= 1 /\ s[i - k] = "%"

\* decode_unsafe(): the plain text of an encoded string.  Hexadecimal digits
\* may be small letters; "a" stands for the characters that need no escape
\* and have one all the same.
Upper(e) == [i \in 1..Len(e) |->
    CASE e[i] = "a" -> "A" [] e[i] = "b" -> "B" [] e[i] = "d" -> "D"
      [] e[i] = "e" -> "E" [] e[i] = "f" -> "F" [] OTHER -> e[i]]
Unescape(e) ==
    IF e = <<"%", "6", "1">> THEN "a" ELSE CHOOSE c \in Special : Escape[c] = Upper(e)
decode(s) ==
    FlattenSeq([i \in 1..Len(s) |->
        CASE InEscape(s, i)                  -> <<>>
          [] ~InEscape(s, i) /\ s[i] = "%"   -> <<Unescape(SubSeq(s, i, i + 2))>>
          [] OTHER                           -> <<s[i]>>])

\* Positions of c in s, the first one (0 when there is none), and the text
\* split at every c.
Positions(s, c) == {i \in 1..Len(s) : s[i] = c}
find(s, c) == IF Positions(s, c) = {} THEN 0 ELSE Min(Positions(s, c))
StartsWith(s, prefix) == IsPrefix(prefix, s)
Drop(s, n) == SubSeq(s, n + 1, Len(s))
Take(s, n) == SubSeq(s, 1, n)

SplitAt(s, c) ==
    LET ps == Positions(s, c) \cup {0, Len(s) + 1}
        Nth(k) == CHOOSE p \in ps : Cardinality({q \in ps : q < p}) = k
    IN  [k \in 1..(Cardinality(ps) - 1) |-> SubSeq(s, Nth(k - 1) + 1, Nth(k) - 1)]

\* The first position at or after i where a run of pct_encoded_rule(charset)
\* stops.
RunEnd(s, i, charset) ==
    Min({j \in i..(Len(s) + 1) :
            \/ j = Len(s) + 1
            \/ ~Allowed(s[j], charset \cup {"%"}) /\ ~InEscape(s, j)})
=============================================================================
