------------------------------ MODULE SkyrHost ------------------------------
(***************************************************************************)
(* Text, percent-encoding, schemes and hosts of the skyr URL library: the  *)
(* functions that its parser calls and that keep no state.                 *)
(*                                                                         *)
(* A text is a sequence of symbols.  A symbol is one character, except     *)
(* that a run of letters which no function looks into (Words) and an       *)
(* escape such as "%40" are one symbol each.  An optional value is a       *)
(* sequence of at most one element: <<>> is std::nullopt.                  *)
(***************************************************************************)
EXTENDS Integers, Sequences, SequencesExt, FiniteSetsExt, Functions

CONSTANT ByteSize  \* 256 in the code: the number of values of one IPv4 byte

ASSUME ByteSizeAssumption == ByteSize \in Nat \ {0}

HexDigits == <<"0", "1", "2", "3", "4", "5", "6", "7",
               "8", "9", "a", "b", "c", "d", "e", "f">>
Digits == {HexDigits[i] : i \in 1..10}
Letters == {HexDigits[i] : i \in 11..16} \cup {"h", "p", "q", "u", "v", "w", "x"}
Words == {"http", "HTTP", "ftp", "file", "foo", "localhost"}
Alpha == Letters \cup Words
Lower(c) == IF c = "HTTP" THEN "http" ELSE c

\* The characters that some encode set holds, with their escapes.
Escapes == { <<"#", "%23">>, <<"%", "%25">>, <<"&", "%26">>, <<"'", "%27">>, <<"+", "%2B">>,
             <<"/", "%2F">>, <<":", "%3A">>, <<";", "%3B">>, <<"<", "%3C">>, <<"=", "%3D">>,
             <<"?", "%3F">>, <<"@", "%40">>, <<"[", "%5B">>, <<"\\", "%5C">>, <<"]", "%5D">>,
             <<"|", "%7C">> }

\* details::is_*_byte, for the characters of Escapes.
fragment_bytes == {"<"}
query_bytes == {"<", "#"}
path_bytes == query_bytes \cup {"?"}
userinfo_bytesNoAt == path_bytes \cup {"/", ":", ";", "=", "[", "\\", "]", "|"}  \* without "@"
userinfo_bytes == path_bytes \cup {"/", ":", ";", "=", "@", "[", "\\", "]", "|"}
component_bytes == userinfo_bytes \cup {"%", "&", "+"}

percent_encode_byte(c, set) ==
    IF c \in set THEN (CHOOSE e \in Escapes : e[1] = c)[2] ELSE c

percent_encode(s, set) == [i \in DOMAIN s |-> percent_encode_byte(s[i], set)]

IsEscape(c) == c = "%2e" \/ \E e \in Escapes : e[2] = c

Unescape(c) ==
    IF c = "%2e" THEN "."
    ELSE IF IsEscape(c) THEN (CHOOSE e \in Escapes : e[2] = c)[1]
    ELSE c

\* A "%" that starts no escape cannot be decoded.
Decodes(s) == "%" \notin Range(s)
percent_decode(s) == [i \in DOMAIN s |-> Unescape(s[i])]

\* The first place of c in s, or 0.
Find(s, c) == IF c \in Range(s) THEN Min({i \in DOMAIN s : s[i] = c}) ELSE 0

\* Split at every character of seps, as ranges::views::split does.
RECURSIVE Parts(_, _)
Parts(s, seps) ==
    LET i == Min({j \in DOMAIN s : s[j] \in seps} \cup {Len(s) + 1})
    IN  <<SubSeq(s, 1, i - 1)>>
        \o IF i > Len(s) THEN <<>> ELSE Parts(SubSeq(s, i + 1, Len(s)), seps)

Split(s, seps) == IF s = <<>> THEN <<>> ELSE Parts(s, seps)

-----------------------------------------------------------------------------
(* Schemes: core/schemes.hpp.  https, ws and wss are like http.             *)

is_special(scheme) == scheme \in {<<"file">>, <<"ftp">>, <<"http">>}

default_port(scheme) ==
    CASE scheme = <<"ftp">> -> <<21>>
      [] scheme = <<"http">> -> <<80>>
      [] OTHER -> <<>>

\* The digits of a number in a base, and the number that digits denote.
DigitValue(c) == CHOOSE n \in 0..15 : HexDigits[n + 1] = c
ToNumber(s, b) == FoldLeft(LAMBDA n, c : n * b + DigitValue(c), 0, s)
ToText(n, b) ==
    LET f[m \in 0..n] == IF m < b THEN <<HexDigits[m + 1]>>
                         ELSE Append(f[m \div b], HexDigits[(m % b) + 1])
    IN  f[n]

-----------------------------------------------------------------------------
(* IPv4 addresses: network/ipv4_address.cpp.  An error is <<>>, except that *)
(* overflow is told apart, as parse_host does.                              *)

Overflow == <<-1>>

parse_ipv4_number(s) ==
    LET base == IF Len(s) >= 2 /\ s[1] = "0" THEN (IF s[2] = "x" THEN 16 ELSE 8) ELSE 10
        digits == SubSeq(s, CASE base = 16 -> 3 [] base = 8 -> 2 [] OTHER -> 1, Len(s))
    IN  IF s # <<>> /\ \A i \in DOMAIN digits : \E n \in 1..base : HexDigits[n] = digits[i]
        THEN <<ToNumber(digits, base)>>
        ELSE <<>>

too_large(numbers) ==
    \/ \E i \in 1..(Len(numbers) - 1) : numbers[i] > ByteSize - 1
    \/ Last(numbers) >= ByteSize^(5 - Len(numbers))

join_ipv4(numbers) ==
    IF too_large(numbers) THEN Overflow
    ELSE <<Last(numbers) + FoldLeft(+, 0, [i \in 1..(Len(numbers) - 1) |-> numbers[i] * ByteSize^(4 - i)])>>

read_ipv4(read) ==
    IF Len(read) > 4 \/ <<>> \in Range(read) THEN <<>>
    ELSE join_ipv4([i \in DOMAIN read |-> read[i][1]])

WithoutEmptyLast(parts) == IF Last(parts) = <<>> /\ Len(parts) > 1 THEN Front(parts) ELSE parts

parse_ipv4_address(s) ==
    read_ipv4([i \in DOMAIN WithoutEmptyLast(Split(s, {"."})) |->
                  parse_ipv4_number(Split(s, {"."})[i])])

serialize_ipv4(a) ==
    LET byte(i) == ToText((a \div ByteSize^(4 - i)) % ByteSize, 10)
    IN  byte(1) \o <<".">> \o byte(2) \o <<".">> \o byte(3) \o <<".">> \o byte(4)

-----------------------------------------------------------------------------
(* IPv6 addresses: network/ipv6_address.cpp.  An address is a function on   *)
(* 0..7, and <<>> stands for every error.                                   *)

Zero == [i \in 0..7 |-> 0]

\* The decimal tail of an address: four numbers below 256, none with a
\* leading zero, for two pieces.
ipv4_piece(p) ==
    IF /\ Len(p) \in 1..3 /\ \A i \in DOMAIN p : p[i] \in Digits
       /\ Len(p) > 1 => p[1] # "0"
    THEN ToNumber(p, 10)
    ELSE 256

two_pieces(n) ==
    IF Len(n) = 4 /\ \A i \in 1..4 : n[i] <= 255
    THEN <<n[1] * 256 + n[2], n[3] * 256 + n[4]>>
    ELSE <<>>

read_ipv4_tail(s) == two_pieces([i \in DOMAIN Split(s, {"."}) |-> ipv4_piece(Split(s, {"."})[i])])

\* The swap ends one piece too early.
RECURSIVE swap_piecesShort(_, _, _, _)
swap_piecesShort(address, piece_index, compress, swaps) ==
    IF piece_index = 0 \/ swaps <= 1 THEN address
    ELSE LET other == compress + swaps - 1
         IN  swap_piecesShort([address EXCEPT ![piece_index] = address[other],
                                              ![other] = address[piece_index]],
                              piece_index - 1, compress, swaps - 1)

\* The swap loop that moves the pieces behind "::" to the end.
RECURSIVE swap_pieces(_, _, _, _)
swap_pieces(address, piece_index, compress, swaps) ==
    IF piece_index = 0 \/ swaps <= 0 THEN address
    ELSE LET other == compress + swaps - 1
         IN  swap_pieces([address EXCEPT ![piece_index] = address[other],
                                         ![other] = address[piece_index]],
                         piece_index - 1, compress, swaps - 1)

finish_ipv6(address, piece_index, compress) ==
    IF compress # <<>>
    THEN <<swap_pieces(address, 7, compress[1], piece_index - compress[1])>>
    ELSE IF piece_index # 8 THEN <<>> ELSE <<address>>

RECURSIVE read_pieces(_, _, _, _)
read_pieces(s, address, piece_index, compress) ==
    LET hex == {i \in 0..Min({4, Len(s)}) : \A j \in 1..i : s[j] \in Range(HexDigits)}
        n == Max(hex)
        value == ToNumber(SubSeq(s, 1, n), 16)
        rest == SubSeq(s, n + 1, Len(s))
        next(t) == read_pieces(t, [address EXCEPT ![piece_index] = value],
                               piece_index + 1, compress)
    IN  IF s = <<>> THEN finish_ipv6(address, piece_index, compress)
        ELSE IF piece_index = 8 THEN <<>>
        ELSE IF s[1] = ":"
        THEN IF compress # <<>> THEN <<>>
             ELSE read_pieces(Tail(s), address, piece_index + 1, <<piece_index + 1>>)
        ELSE IF rest = <<>> THEN next(rest)
        ELSE IF rest[1] = "."
        THEN LET tail == read_ipv4_tail(s)
             IN  IF n = 0 \/ piece_index > 6 \/ tail = <<>> THEN <<>>
                 ELSE finish_ipv6([address EXCEPT ![piece_index] = tail[1],
                                                  ![piece_index + 1] = tail[2]],
                                  piece_index + 2, compress)
        ELSE IF rest[1] = ":" /\ Len(rest) > 1 THEN next(Tail(rest))
        ELSE <<>>

parse_ipv6_address(s) ==
    IF IsPrefix(<<":", ":">>, s)
    THEN read_pieces(SubSeq(s, 3, Len(s)), Zero, 1, <<1>>)
    ELSE IF s = <<>> \/ s[1] = ":" THEN <<>>
    ELSE read_pieces(s, Zero, 0, <<>>)

\* The first of the longest runs of two or more zeros is left out.
serialize_ipv6(a) ==
    LET ZeroRun(i, n) == \A j \in i..(i + n - 1) : a[j] = 0
        runs == {r \in (0..7) \X (2..8) : r[1] + r[2] <= 8 /\ ZeroRun(r[1], r[2])}
        longest == Max({r[2] : r \in runs})
        compress == Min({r[1] : r \in {q \in runs : q[2] = longest}})
        Left(i) == runs # {} /\ i \in compress..(compress + longest - 1)
        Piece(i) == IF Left(i) THEN (IF i = compress THEN (IF i = 0 THEN <<":", ":">> ELSE <<":">>) ELSE <<>>)
                    ELSE ToText(a[i], 16) \o (IF i # 7 THEN <<":">> ELSE <<>>)
    IN  FlattenSeq([i \in 1..8 |-> Piece(i - 1)])

-----------------------------------------------------------------------------
(* Hosts: core/host.hpp.  A host is a record whose only field is its kind.  *)

Empty == [empty |-> <<>>]
is_empty(h) == h = Empty

serialize_host(h) ==
    CASE "ipv4" \in DOMAIN h -> serialize_ipv4(h.ipv4)
      [] "ipv6" \in DOMAIN h -> <<"[">> \o serialize_ipv6(h.ipv6) \o <<"]">>
      [] "domain" \in DOMAIN h -> h.domain
      [] "opaque" \in DOMAIN h -> h.opaque
      [] OTHER -> <<>>

forbidden_host_points == {"#", "%", "/", ":", "<", "?", "@", "[", "\\", "]"}
Forbidden(s, points) == \E i \in DOMAIN s : s[i] \in points

\* domain_to_ascii() maps to lower case; the letters of the model are ASCII.
domain_to_ascii(s) == [i \in DOMAIN s |-> Lower(s[i])]

Found(h) == [host |-> <<h>>, error |-> "none"]
NotFound(e) == [host |-> <<>>, error |-> e]

parse_opaque_host(s) ==
    IF Forbidden(s, forbidden_host_points \ {"%"}) THEN NotFound("forbidden_host_point")
    ELSE Found([opaque |-> s])

domain_host(s, ipv4) ==
    IF Forbidden(s, forbidden_host_points) THEN NotFound("domain_error")
    ELSE IF ipv4 = Overflow THEN NotFound("invalid_ipv4_address")
    ELSE IF ipv4 = <<>> THEN Found([domain |-> s])
    ELSE Found([ipv4 |-> ipv4[1]])

parse_domain(s) == domain_host(s, parse_ipv4_address(s))

ipv6_host(s, ipv6) ==
    IF Last(s) # "]" \/ ipv6 = <<>> THEN NotFound("invalid_ipv6_address")
    ELSE Found([ipv6 |-> ipv6[1]])

parse_host(s, is_not_special) ==
    IF s = <<>> THEN Found(Empty)
    ELSE IF s[1] = "[" THEN ipv6_host(s, parse_ipv6_address(SubSeq(s, 2, Len(s) - 1)))
    ELSE IF is_not_special THEN parse_opaque_host(s)
    ELSE IF ~Decodes(s) THEN NotFound("cannot_decode_host_point")
    ELSE parse_domain(domain_to_ascii(percent_decode(s)))

=============================================================================
