------------------------------ MODULE UrlParse ------------------------------
(***************************************************************************)
(* The parser of a URI reference: the rules of rfc/*.cpp and               *)
(* rfc/detail/*.cpp.  A rule takes the string and either the position it   *)
(* where it starts or the record t of what the rules before it have        *)
(* matched, and returns a record of what has been matched so far, with the *)
(* position it after it and ok = FALSE when the rule fails.                *)
(*                                                                         *)
(* IP addresses are data here: the sets below name the addresses that the  *)
(* strings of the model may contain, each in the form that to_buffer()     *)
(* prints.  Zone identifiers (ipv6_addrz_rule) are left out.               *)
(***************************************************************************)
EXTENDS UrlImpl

IPv4Addresses == {<<"0", ".", "0", ".", "0", ".", "0">>}
IPv6Addresses == {<<":", ":">>}
IPvFutures == {<<"v", "1", ".", "a">>}

At(s, i) == IF i <= Len(s) THEN s[i] ELSE "end"
Fail == [ok |-> FALSE]

\* scheme.cpp; "ws" stands for the six schemes with an enumerator.
string_to_scheme(s) ==
    IF s = <<>> THEN "none" ELSE IF s = <<"w", "s">> THEN "ws" ELSE "unknown"

IsAlpha(c) == c \notin Special \cup Digits \cup {"end", Unset}
IsSchemeChar(c) == IsAlpha(c) \/ c \in Digits \cup {"+", "."}

scheme_rule(s, it) ==
    LET stop == Min({j \in it..(Len(s) + 1) : ~IsSchemeChar(At(s, j))})
    IN  IF IsAlpha(At(s, it))
        THEN [ok |-> TRUE, it |-> stop, scheme |-> SubSeq(s, it, stop - 1)]
        ELSE Fail

\* [ userinfo "@" ]; pass keeps the ':' before it and the '@' after it.
Userinfo(s, it, user_end, pass_end) ==
    IF At(s, pass_end) = "@"
    THEN [ok |-> TRUE, it |-> pass_end + 1,
          user |-> SubSeq(s, it, user_end - 1), pass |-> SubSeq(s, user_end, pass_end)]
    ELSE [ok |-> TRUE, it |-> it, user |-> <<>>, pass |-> <<>>]

userinfo_rule(s, it, user_end) ==
    Userinfo(s, it, user_end,
             IF At(s, user_end) = ":" THEN RunEnd(s, user_end + 1, password_chars) ELSE user_end)

optional_userinfo(s, it) == userinfo_rule(s, it, RunEnd(s, it, user_chars))

HostPart(s, t, stop, type, addr) ==
    [it |-> stop, host |-> SubSeq(s, t.it, stop - 1), host_type_ |-> type, ip_addr_ |-> addr] @@ t

\* Addresses of the set that stand in brackets at the start of what is left.
Literals(s, t, addresses) ==
    {a \in addresses : SubSeq(s, t.it, t.it + Len(a) + 1) = <<"[">> \o a \o <<"]">>}

ip_literal_rule(s, t, ipv6, ipvfuture) ==
    IF ipv6 # {} THEN LET a == CHOOSE a \in ipv6 : TRUE
                      IN  HostPart(s, t, t.it + Len(a) + 2, "ipv6", a)
    ELSE IF ipvfuture # {} THEN LET a == CHOOSE a \in ipvfuture : TRUE
                                IN  HostPart(s, t, t.it + Len(a) + 2, "ipvfuture", <<>>)
    ELSE Fail

reg_name_rule(s, t, stop) ==
    LET name == SubSeq(s, t.it, stop - 1)
        is_ipv4 == name \in IPv4Addresses
    IN  HostPart(s, t, stop, IF is_ipv4 THEN "ipv4" ELSE "name", IF is_ipv4 THEN name ELSE <<>>)

host_rule(s, t) ==
    IF At(s, t.it) = "["
    THEN ip_literal_rule(s, t, Literals(s, t, IPv6Addresses), Literals(s, t, IPvFutures))
    ELSE reg_name_rule(s, t, RunEnd(s, t.it, host_chars))

\* The number of a port: 0 when it does not fit 16 bits.
Uint16(n) == IF n > 65535 THEN 0 ELSE n
PortNumber(s) == Uint16(FoldLeft(LAMBDA v, d : 10 * v + DigitValue[d], 0, s))

\* [ ":" port ]; port keeps the ':' before it.
PortPart(t, port) ==
    [it |-> t.it + Len(port), port |-> port, port_number_ |-> PortNumber(Drop(port, 1))] @@ t
port_part_rule(s, t) ==
    IF ~t.ok THEN Fail
    ELSE IF At(s, t.it) # ":" THEN PortPart(t, <<>>)
    ELSE PortPart(t, SubSeq(s, t.it, Min({j \in (t.it + 1)..(Len(s) + 1) :
                                            At(s, j) \notin Digits}) - 1))

authority_rule(s, it) == port_part_rule(s, host_rule(s, optional_userinfo(s, it)))

\* "//" authority, when the string continues with "//".
optional_authority(s, it) ==
    IF At(s, it) = "/" /\ At(s, it + 1) = "/"
    THEN authority_rule(s, it + 2) @@ [has_authority |-> TRUE]
    ELSE [ok |-> TRUE, it |-> it, has_authority |-> FALSE]

\* One count for a rootless start and one for every '/'.
segment_count(path) ==
    Count(path, "/") + (IF path # <<>> /\ path[1] # "/" THEN 1 ELSE 0)

WithPath(t, s, stop) == [it |-> stop, path |-> SubSeq(s, t.it, stop - 1)] @@ t

hier_path(s, t) ==
    IF ~t.ok THEN Fail
    ELSE WithPath(t, s, IF t.has_authority /\ At(s, t.it) \notin {"/", "?", "#"}
                        THEN t.it ELSE RunEnd(s, t.it, path_chars))
hier_part_rule(s, it) == hier_path(s, optional_authority(s, it))

\* A first segment without a '/' in front must not hold a colon.
relative_path(s, t, first) ==
    IF At(s, t.it) # "/" /\ first > t.it /\ At(s, first) = ":" THEN Fail
    ELSE WithPath(t, s, IF At(s, t.it) # "/" /\ first = t.it
                        THEN t.it ELSE RunEnd(s, t.it, path_chars))
after_authority(s, t) ==
    IF t.ok THEN relative_path(s, t, RunEnd(s, t.it, pchars \ {":"})) ELSE Fail
relative_part_rule(s, it) == after_authority(s, optional_authority(s, it))

\* The params that set_query() and set_encoded_query() count.
CountParamsNotLast(query) == Count(query, "&")
CountParams(query) == Count(query, "&") + 1

\* The params that the parser counts: query_rule counts none when the string
\* ends at the '?', and the callers of query_part_rule add one for an empty
\* query, "map "?" to { {} }".
ParsedParams(query, at_end) ==
    (IF at_end /\ query = <<>> THEN 0 ELSE CountParams(query))
        + (IF query = <<>> THEN 1 ELSE 0)

\* url_impl::apply_*
apply_scheme(u, s) ==
    [set_size(u, id_scheme, Len(s) + 1) EXCEPT !.scheme_ = string_to_scheme(s)]

PassDecoded(pass) == IF Len(pass) > 1 THEN decoded_size(SubSeq(pass, 2, Len(pass) - 1)) ELSE 0

apply_authority(u, a) ==
    LET u1 == set_size(u, id_user, Len(a.user) + 2)
        u2 == set_size(u1, id_pass, Len(a.pass))
        u3 == set_size(u2, id_host, Len(a.host))
        u4 == set_size(u3, id_port, Len(a.port))
    IN  [u4 EXCEPT !.decoded_[id_user] = decoded_size(a.user),
                   !.decoded_[id_pass] = PassDecoded(a.pass),
                   !.decoded_[id_host] = decoded_size(a.host),
                   !.host_type_ = a.host_type_,
                   !.ip_addr_ = a.ip_addr_,
                   !.port_number_ = a.port_number_]

apply_path(u, s, nseg) ==
    [set_size(u, id_path, Len(s)) EXCEPT !.decoded_[id_path] = decoded_size(s),
                                         !.nseg_ = path_segments(s, nseg)]

apply_query(u, s, n) ==
    [set_size(u, id_query, 1 + Len(s)) EXCEPT !.decoded_[id_query] = decoded_size(s),
                                              !.nparam_ = n]

apply_frag(u, s) ==
    [set_size(u, id_frag, 1 + Len(s)) EXCEPT !.decoded_[id_frag] = decoded_size(s)]

\* [ "?" query ] and [ "#" fragment ], from position it to position stop.
query_part(s, u, it, stop) ==
    LET query == SubSeq(s, it + 1, stop - 1)
    IN  [it |-> stop, u |-> apply_query(u, query, ParsedParams(query, stop = Len(s) + 1))]
query_part_rule(s, u, it) ==
    IF At(s, it) = "?" THEN query_part(s, u, it, RunEnd(s, it + 1, query_chars))
    ELSE [it |-> it, u |-> u]

fragment_part(s, u, it, stop) ==
    [it |-> stop, u |-> apply_frag(u, SubSeq(s, it + 1, stop - 1))]
fragment_part_rule(s, t) ==
    IF At(s, t.it) = "#" THEN fragment_part(s, t.u, t.it, RunEnd(s, t.it + 1, fragment_chars))
    ELSE t

\* ok is false when characters are left over.
construct(s, t) == [ok |-> t.it = Len(s) + 1, u |-> [t.u EXCEPT !.cs_ = s]]

\* Everything after the scheme: t is what hier_part_rule or relative_part_rule
\* matched.
finish_parse(s, u, t) ==
    LET u1 == IF t.has_authority THEN apply_authority(u, t) ELSE u
        u2 == apply_path(u1, t.path, segment_count(t.path))
    IN  construct(s, fragment_part_rule(s, query_part_rule(s, u2, t.it)))

\* uri_rule fails as a whole before the leftover check, so the variant of
\* uri_reference_rule falls back to relative_ref_rule exactly when uri_rule
\* has no scheme or no valid authority.
after_scheme(s, sch) ==
    IF sch.ok /\ At(s, sch.it) = ":"
    THEN hier_part_rule(s, sch.it + 1) @@ [scheme |-> sch.scheme] ELSE Fail
uri_rule(s) == after_scheme(s, scheme_rule(s, 1))

relative_ref_rule(s, t) == IF t.ok THEN finish_parse(s, empty_url, t) ELSE Fail
uri_reference_rule(s, uri) ==
    IF uri.ok THEN finish_parse(s, apply_scheme(empty_url, uri.scheme), uri)
    ELSE relative_ref_rule(s, relative_part_rule(s, 1))
parse_uri_reference(s) == uri_reference_rule(s, uri_rule(s))

whole_authority(s, a) == IF a.ok /\ a.it = Len(s) + 1 THEN a ELSE Fail
parse_authority(s) == whole_authority(s, authority_rule(s, 1))
=============================================================================
