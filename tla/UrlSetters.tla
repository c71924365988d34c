----------------------------- MODULE UrlSetters -----------------------------
(***************************************************************************)
(* The modifiers of url_base (url_base.cpp), each a function from the      *)
(* url_impl before the call to the url_impl after it.  A modifier that     *)
(* throws because its argument is not valid returns its first argument.    *)
(* The modifiers named set_x take plain text and set_encoded_x text that   *)
(* may hold escapes.                                                       *)
(*                                                                         *)
(* A definition that is named after the one below it with a suffix, such   *)
(* as remove_query_not_count, is a broken variant of that one; no other    *)
(* definition uses it.                                                     *)
(***************************************************************************)
EXTENDS UrlParse

\* size_t arithmetic; offsets never come near the modulus, a decoded size
\* that is decremented below zero does.
SizeT == 2^30

has_scheme(u) == len(u, id_scheme) > 0
has_authority(u) == len(u, id_user) > 0
is_path_absolute(u) == StartsWith(get(u, id_path), <<"/">>)

\* Adding an authority in front of a relative path makes the path absolute.
make_absolute_even_empty(u) == ~is_path_absolute(u)
make_absolute(u) == ~is_path_absolute(u) /\ len(u, id_path) # 0
SlashIf(b) == IF b THEN <<"/">> ELSE <<>>
OneIf(b) == IF b THEN 1 ELSE 0

\* The path up to its first '/' after the prefix.  With two or more segments
\* the code searches for that '/' without looking at the end of the path.
first_segment(u) ==
    LET rest == Drop(u.cs_, offset(u, id_path) + path_prefix(get(u, id_path)))
    IN  IF u.nseg_ = 0 THEN <<>>
        ELSE IF u.nseg_ = 1 THEN Drop(get(u, id_path), path_prefix(get(u, id_path)))
        ELSE Take(rest, find(rest, "/") - 1)

-----------------------------------------------------------------------------
\* Scheme

set_scheme_impl(u, s, id) ==
    LET p == offset(u, id_path)
        has_dot == /\ u.nseg_ # 0
                   /\ Len(first_segment(u)) >= 2
                   /\ StartsWith(Drop(u.cs_, p), <<".", "/">>)
        u1 == Move(reserve_impl(u, size(u) + Len(s) + 1 - 2), p, p + 2, size(u) - (p + 2))
        u2 == IF has_dot THEN Terminate(set_size(u1, id_path, len(u, id_path) - 2)) ELSE u
        u3 == resize_impl(u2, id_scheme, Len(s) + 1)
        valid == LET r == scheme_rule(s, 1) IN r.ok /\ r.it = Len(s) + 1
    IN  IF valid THEN [Write(u3, 0, s \o <<":">>) EXCEPT !.scheme_ = id] ELSE u

set_scheme(u, s) == set_scheme_impl(u, s, string_to_scheme(s))

\* The second half of remove_scheme(): the first segment is written again,
\* right to left, with its colons escaped, after the rest of the path has
\* moved right.  pn is the length of the path before the escapes and cn the
\* number of colons.
encode_colons(u, pn, cn) ==
    LET begin == offset(u, id_path)
        old == SubSeq(u.cs_, begin + 1, begin + pn)
        k == IF find(old, "/") = 0 THEN pn ELSE find(old, "/") - 1
        moved == Move(u, begin + k + 2 * cn, begin + k, pn - k)
        seg == MapChars(Take(old, k), LAMBDA c : IF c = ":" THEN Escape[c] ELSE <<c>>)
    IN  Write(moved, offset(u, id_query) - (pn - k) - Len(seg), seg)

remove_scheme(u) ==
    LET sn == len(u, id_scheme)
        po == offset(u, id_path)
        pn == len(u, id_path)
        fseg == first_segment(u)
        cn == Count(fseg, ":")
        encode_colon == ~has_authority(u) /\ u.nseg_ > 0 /\ u.cs_[po + 1] # "/" /\ cn > 0
        need_resize == size(u) - sn + 2 * cn > size(u)
        u0 == IF need_resize THEN resize_impl(u, id_path, pn + 2 * cn) ELSE u
        qo == offset(u0, id_query)
        u1 == Move(u0, 0, sn, po - sn)
        u2 == Move(u1, po - sn, po, qo - po)
        u3 == Move(u2, qo - sn + 2 * cn, qo, size(u0) - qo)
        u4 == IF need_resize THEN adjust_left(u3, id_user, id_end, sn)
              ELSE adjust_left(adjust_left(u3, id_user, id_path, sn),
                               id_query, id_end, sn - 2 * cn)
        u5 == IF encode_colon THEN Terminate(encode_colons(u4, pn, cn))
              ELSE resize_impl(u, id_scheme, 0)
    IN  IF sn = 0 THEN u ELSE [u5 EXCEPT !.scheme_ = "none"]

set_scheme_id(u, id) ==
    CASE id = "unknown" -> u
      [] id = "none"    -> remove_scheme(u)
      [] id = "ws"      -> set_scheme_impl(u, <<"w", "s">>, id)

-----------------------------------------------------------------------------
\* Authority and userinfo

set_encoded_authority(u, s) ==
    LET a == parse_authority(s)
        slash == make_absolute(u)
        dest == offset(u, id_user)
        u1 == resize2(u, id_user, id_path, Len(s) + 2 + OneIf(slash))
        u2 == apply_authority(Write(u1, dest, <<"/", "/">> \o s \o SlashIf(slash)), a)
    IN  IF ~a.ok THEN u
        ELSE IF slash THEN adjust_right(u2, id_query, id_end, 1) ELSE u2

\* split(id_pass, n), then an empty host and an empty port, so that what is
\* left of the resized range goes to the path.
SplitPassNotPort(u, n) == split(split(u, id_pass, n), id_host, 0)
SplitPass(u, n) == split(split(split(u, id_pass, n), id_host, 0), id_port, 0)

remove_authority(u) ==
    LET need_dot == StartsWith(get(u, id_path), <<"/", "/">>)
        u1 == resize2(u, id_user, id_path, IF need_dot THEN 2 ELSE 0)
        u2 == SplitPass(split(Write(u1, offset(u, id_user), <<"/", ".">>), id_user, 0), 0)
    IN  IF ~has_authority(u) THEN u
        ELSE [(IF need_dot THEN u2 ELSE u1) EXCEPT !.host_type_ = "none"]

\* The *_impl functions take the encoded text that their caller writes to the
\* position they return.
set_userinfo_impl(u, e) ==
    LET slash == make_absolute(u)
        u1 == resize2(u, id_user, id_host, Len(e) + 3 + OneIf(slash))
        u2 == split(Write(u1, offset(u, id_user),
                          <<"/", "/">> \o e \o <<"@">> \o SlashIf(slash)),
                    id_user, Len(e) + 2)
    IN  IF slash THEN SplitPass(u2, 1) ELSE u2

set_userinfo(u, s) ==
    LET u1 == set_userinfo_impl(u, encode(s, userinfo_chars))
        pos == find(get2(u1, id_user, id_host), ":") - 1
        pos2 == find(s, ":") - 1
    IN  IF pos >= 0
        THEN [split(u1, id_user, pos) EXCEPT !.decoded_[id_user] = (pos2 - 1) % SizeT,
                                             !.decoded_[id_pass] = Len(s) - pos2]
        ELSE [u1 EXCEPT !.decoded_[id_user] = Len(s), !.decoded_[id_pass] = 0]

set_encoded_userinfo(u, s) ==
    LET pos == find(s, ":")
        s0 == IF pos = 0 THEN s ELSE Take(s, pos - 1)
        s1 == IF pos = 0 THEN <<>> ELSE Drop(s, pos)
        e0 == re_encode(s0, user_chars)
        e1 == re_encode(s1, password_chars)
        u1 == set_userinfo_impl(u, IF pos = 0 THEN e0 ELSE e0 \o <<":">> \o e1)
    IN  [split(u1, id_user, 2 + Len(e0)) EXCEPT !.decoded_[id_user] = decoded_size(e0),
                                                !.decoded_[id_pass] = decoded_size(e1)]

remove_userinfo(u) ==
    IF len(u, id_pass) = 0 THEN u
    ELSE [resize2(u, id_user, id_host, 2) EXCEPT !.decoded_[id_user] = 0,
                                                 !.decoded_[id_pass] = 0]

set_user_impl(u, e) ==
    LET slash == make_absolute(u)
        dest == offset(u, id_user)
        u1 == resize_impl(u, id_user, 2 + Len(e) + 1 + OneIf(slash))
        u2 == split(Write(u1, dest, <<"/", "/">> \o e \o <<"@">> \o SlashIf(slash)),
                    id_user, 2 + Len(e))
    IN  IF len(u, id_pass) # 0 THEN Write(resize_impl(u, id_user, 2 + Len(e)), dest + 2, e)
        ELSE IF slash THEN SplitPass(u2, 1) ELSE u2

set_user_encoded_size(u, s) ==
    LET e == encode(s, user_chars) IN [set_user_impl(u, e) EXCEPT !.decoded_[id_user] = Len(e)]
set_user(u, s) ==
    [set_user_impl(u, encode(s, user_chars)) EXCEPT !.decoded_[id_user] = Len(s)]

set_encoded_user(u, s) ==
    LET e == re_encode(s, user_chars)
    IN  [set_user_impl(u, e) EXCEPT !.decoded_[id_user] = decoded_size(e)]

set_password_impl(u, e) ==
    LET slash == make_absolute(u)
        pass == <<":">> \o e \o <<"@">>
        u1 == resize2(u, id_user, id_host, 2 + Len(pass) + OneIf(slash))
        u2 == split(Write(u1, offset(u, id_user), <<"/", "/">> \o pass \o SlashIf(slash)),
                    id_user, 2)
    IN  IF len(u, id_user) # 0
        THEN Write(resize_impl(u, id_pass, Len(pass)), offset(u, id_pass), pass)
        ELSE IF slash THEN SplitPass(u2, Len(pass)) ELSE u2

set_password(u, s) ==
    [set_password_impl(u, encode(s, password_chars)) EXCEPT !.decoded_[id_pass] = Len(s)]

set_encoded_password(u, s) ==
    LET e == re_encode(s, password_chars)
    IN  [set_password_impl(u, e) EXCEPT !.decoded_[id_pass] = decoded_size(e)]

remove_password_but_colon(u) ==
    LET u1 == Write(resize_impl(u, id_pass, 2), offset(u, id_pass), <<":", "@">>)
    IN  IF len(u, id_pass) < 2 THEN u ELSE [u1 EXCEPT !.decoded_[id_pass] = 0]
remove_password(u) ==
    LET u1 == Write(resize_impl(u, id_pass, 1), offset(u, id_pass), <<"@">>)
    IN  IF len(u, id_pass) < 2 THEN u ELSE [u1 EXCEPT !.decoded_[id_pass] = 0]
-----------------------------------------------------------------------------
\* Host and port

set_host_impl(u, e) ==
    LET slash == make_absolute(u)
        pn == len(u, id_path)
        u1 == resize_impl(u, id_user, Len(e) + 2 + OneIf(slash))
        u2 == Write(u1, offset(u, id_user), <<"/", "/">> \o e \o SlashIf(slash))
        u3 == split(split(split(split(u2, id_user, 2), id_pass, 0), id_host, Len(e)), id_port, 0)
        u4 == split(u3, id_path, pn + OneIf(slash))
    IN  IF len(u, id_user) = 0
        THEN [u4 EXCEPT !.decoded_[id_path] = @ + OneIf(slash)]
        ELSE Write(resize_impl(u, id_host, Len(e)), offset(u, id_host), e)

HostName(u, e) ==
    [set_host_impl(u, e) EXCEPT !.decoded_[id_host] = decoded_size(e), !.host_type_ = "name"]

set_host_ipv4(u, addr) ==
    [set_host_impl(u, addr) EXCEPT !.decoded_[id_host] = Len(addr),
                                   !.host_type_ = "ipv4", !.ip_addr_ = addr]

set_host_ipv6(u, addr) ==
    [set_host_impl(u, <<"[">> \o addr \o <<"]">>)
        EXCEPT !.decoded_[id_host] = Len(addr) + 2, !.host_type_ = "ipv6", !.ip_addr_ = addr]

set_host_ipvfuture(u, s) ==
    IF s \notin IPvFutures THEN u
    ELSE [set_host_impl(u, <<"[">> \o s \o <<"]">>)
            EXCEPT !.decoded_[id_host] = Len(s) + 2, !.host_type_ = "ipvfuture"]

Bracketed(s) == Len(s) > 2 /\ s[1] = "[" /\ s[Len(s)] = "]"
Unbracketed(s) == SubSeq(s, 2, Len(s) - 1)

\* What set_host() and set_encoded_host() share; e is s encoded as a reg-name.
HostOrName(u, s, e) ==
    CASE Bracketed(s) /\ Unbracketed(s) \in IPv6Addresses -> set_host_ipv6(u, Unbracketed(s))
      [] Bracketed(s) /\ Unbracketed(s) \in IPvFutures    -> set_host_ipvfuture(u, Unbracketed(s))
      [] s \in IPv4Addresses                              -> set_host_ipv4(u, s)
      [] OTHER                                            -> HostName(u, e)

set_host(u, s) == HostOrName(u, s, encode(s, host_chars))
set_encoded_host(u, s) == HostOrName(u, s, re_encode(s, host_chars))

AddressOrName(u, s, e) ==
    CASE s \in IPv6Addresses -> set_host_ipv6(u, s)
      [] s \in IPvFutures    -> set_host_ipvfuture(u, s)
      [] s \in IPv4Addresses -> set_host_ipv4(u, s)
      [] OTHER               -> HostName(u, e)

set_host_address(u, s) == AddressOrName(u, s, encode(s, host_chars))
set_encoded_host_address(u, s) == AddressOrName(u, s, re_encode(s, host_chars))

NameChars(s) == IF s \in IPv4Addresses THEN host_chars \ {"."} ELSE host_chars
set_host_name(u, s) == HostName(u, encode(s, NameChars(s)))
set_encoded_host_name(u, s) == HostName(u, re_encode(s, NameChars(s)))

set_port_impl(u, s) ==
    LET slash == make_absolute(u)
        u1 == resize_impl(u, id_user, 3 + Len(s) + OneIf(slash))
        u2 == Write(u1, offset(u, id_user), <<"/", "/", ":">> \o s \o SlashIf(slash))
        u3 == split(split(split(u2, id_user, 2), id_pass, 0), id_host, 0)
    IN  IF len(u, id_user) # 0
        THEN Write(resize_impl(u, id_port, Len(s) + 1), offset(u, id_port), <<":">> \o s)
        ELSE IF slash
        THEN [split(u3, id_port, Len(s) + 1) EXCEPT !.decoded_[id_path] = @ + 1]
        ELSE u3

Printed[n \in Nat] ==
    LET digit == CHOOSE d \in Digits : DigitValue[d] = n % 10
    IN  IF n < 10 THEN <<digit>> ELSE Append(Printed[n \div 10], digit)

set_port_number(u, n) == [set_port_impl(u, Printed[n]) EXCEPT !.port_number_ = n]

set_port(u, s) ==
    IF \E i \in 1..Len(s) : s[i] \notin Digits THEN u
    ELSE [set_port_impl(u, s) EXCEPT !.port_number_ = PortNumber(s)]

remove_port(u) == [resize_impl(u, id_port, 0) EXCEPT !.port_number_ = 0]

-----------------------------------------------------------------------------
\* Path

\* A path that is read as a scheme once its leading '/' is gone.
no_scheme_hidden(path) == FALSE
scheme_hidden(path) ==
    \E i \in 2..Len(path) : path[i] = ":" /\ \A k \in 2..(i - 1) : path[k] # "/"

set_path_absolute(u, absolute) ==
    LET path == get(u, id_path)
        po == offset(u, id_path)
        n == len(u, id_port)
        AddDecoded(v, d) == [v EXCEPT !.decoded_[id_path] = (@ + d) % SizeT]
    IN  CASE path = <<>> /\ absolute ->
                 AddDecoded(Write(resize_impl(u, id_path, 1), po, <<"/">>), 1)
          [] is_path_absolute(u) /\ ~absolute /\ ~(has_authority(u) /\ Len(path) > 1) ->
                 IF scheme_hidden(path)
                 THEN AddDecoded(Write(resize_impl(u, id_path, Len(path) + 1), po,
                                       <<".">> \o path), 1)
                 ELSE AddDecoded(resize_impl(split(u, id_port, n + 1), id_port, n), -1)
          [] path # <<>> /\ ~is_path_absolute(u) /\ absolute ->
                 AddDecoded(split(Write(resize_impl(u, id_port, n + 1), po, <<"/">>),
                                  id_port, n), 1)
          [] OTHER -> u

\* The segment count of set_path() and set_encoded_path(): slashes after the
\* first character, plus one.
count_segments(s) ==
    IF s \in {<<>>, <<"/">>} THEN 0
    ELSE Count(Drop(IF StartsWith(s, <<"/", ".", "/">>) THEN Drop(s, 2) ELSE s, 1), "/") + 1

\* A path that is read as an authority, and so gets the prefix "/.".
reads_as_authority(s) == StartsWith(s, <<"/", "/">>)

\* The first segment, when nothing in front of the path keeps a colon in it
\* from reading as the end of a scheme.
exposed(u, s) ==
    IF has_scheme(u) \/ has_authority(u) THEN <<>>
    ELSE IF find(s, "/") = 0 THEN s ELSE Take(s, find(s, "/") - 1)

\* What set_path() and set_encoded_path() share: e is the encoded path, and
\* dot_always tells whether a path that starts with "//" gets the "/." prefix
\* even when there is an authority.
write_path(u, s, e, dot_always) ==
    LET absolute == has_authority(u) /\ ~StartsWith(s, <<"/">>) /\ s # <<>>
        dot == (dot_always \/ ~has_authority(u)) /\ reads_as_authority(s)
        path == (IF absolute THEN <<"/">> ELSE IF dot THEN <<"/", ".">> ELSE <<>>) \o e
    IN  [Write(resize_impl(u, id_path, Len(path)), offset(u, id_path), path)
            EXCEPT !.decoded_[id_path] = decoded_size(path), !.nseg_ = count_segments(s)]

set_path(u, s) ==
    LET first == exposed(u, s)
    IN  write_path(u, s, encode(first, segment_chars \ {":"})
                             \o encode(Drop(s, Len(first)), path_chars), TRUE)

set_encoded_path(u, s) ==
    LET first == exposed(u, s)
    IN  write_path(u, s, re_encode(first, segment_chars \ {":"})
                             \o re_encode(Drop(s, Len(first)), path_chars), FALSE)

-----------------------------------------------------------------------------
\* Query and fragment

\* set_query() replaces the whole range of params through edit_params(), which
\* adds to the decoded size the difference between the new and the old range.
set_query(u, s) ==
    LET u1 == Write(resize_impl(u, id_query, 1 + Len(encode(s, query_chars))),
                    offset(u, id_query), <<"?">> \o encode(s, query_chars))
        DecodedRange(v) == decoded_size(get(v, id_query)) - OneIf(len(v, id_query) > 0)
    IN  [u1 EXCEPT !.nparam_ = CountParams(s),
                   !.decoded_[id_query] = @ + DecodedRange(u1) - DecodedRange(u)]

set_encoded_query(u, s) ==
    LET e == re_encode(s, query_chars)
    IN  [Write(resize_impl(u, id_query, Len(e) + 1), offset(u, id_query), <<"?">> \o e)
            EXCEPT !.nparam_ = CountParams(s), !.decoded_[id_query] = decoded_size(e)]

remove_query_not_count(u) == [resize_impl(u, id_query, 0) EXCEPT !.decoded_[id_query] = 0]
remove_query(u) ==
    [resize_impl(u, id_query, 0) EXCEPT !.nparam_ = 0, !.decoded_[id_query] = 0]

FragmentSetter(u, e) ==
    [Write(resize_impl(u, id_frag, Len(e) + 1), offset(u, id_frag), <<"#">> \o e)
        EXCEPT !.decoded_[id_frag] = decoded_size(e)]

set_fragment(u, s) == FragmentSetter(u, encode(s, fragment_chars))
set_encoded_fragment(u, s) == FragmentSetter(u, re_encode(s, fragment_chars))

remove_fragment(u) == [resize_impl(u, id_frag, 0) EXCEPT !.decoded_[id_frag] = 0]
=============================================================================
