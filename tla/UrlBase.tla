------------------------------- MODULE UrlBase -------------------------------
(***************************************************************************)
(* A modifiable url (class url_base): one url object, and one action for   *)
(* every modifier that a caller may invoke on it.                          *)
(*                                                                         *)
(* Calls gives the arguments a caller may pass: a set of pairs             *)
(* <<modifier, argument>>.  A url starts from one of the strings of Parsed *)
(* (constructed from a string) or empty (default constructed, or clear()). *)
(* Capacity is the capacity of a static_url, or the largest size that the  *)
(* allocator grants to a url: a modifier that needs more throws and leaves *)
(* the url as it was.  MaxDecoded bounds the cached decoded size of the    *)
(* path, which some sequences of modifiers make drift away from the path:  *)
(* beyond it only clear() is called.                                       *)
(***************************************************************************)
EXTENDS UrlSetters

CONSTANTS Calls, Parsed, Capacity, MaxDecoded

ASSUME ParsedAssumption ==
    \A s \in Parsed : parse_uri_reference(s).ok /\ Len(s) <= Capacity

VARIABLE u

\* What the caller of a modifier is left with: r is the url_impl that the
\* modifier computes.
Commit(v, r) == IF r.reserved <= Capacity THEN [r EXCEPT !.reserved = 0] ELSE v

Init == u \in {empty_url} \cup {parse_uri_reference(s).u : s \in Parsed}

Args(name) == {c[2] : c \in {d \in Calls : d[1] = name}}
Within == u.decoded_[id_path] <= MaxDecoded
Call(name, F(_, _)) == Within /\ \E s \in Args(name) : u' = Commit(u, F(u, s))
Call0(name, F(_)) == Within /\ <<name>> \in Calls /\ u' = Commit(u, F(u))

SetScheme == Call("set_scheme", set_scheme)
SetSchemeId == Call("set_scheme_id", set_scheme_id)
RemoveScheme == Call0("remove_scheme", remove_scheme)
SetEncodedAuthority == Call("set_encoded_authority", set_encoded_authority)
RemoveAuthority == Call0("remove_authority", remove_authority)
SetUserinfo == Call("set_userinfo", set_userinfo)
SetEncodedUserinfo == Call("set_encoded_userinfo", set_encoded_userinfo)
RemoveUserinfo == Call0("remove_userinfo", remove_userinfo)
SetUser == Call("set_user", set_user)
SetEncodedUser == Call("set_encoded_user", set_encoded_user)
SetPassword == Call("set_password", set_password)
SetEncodedPassword == Call("set_encoded_password", set_encoded_password)
RemovePassword == Call0("remove_password", remove_password)
SetHost == Call("set_host", set_host)
SetEncodedHost == Call("set_encoded_host", set_encoded_host)
SetHostAddress == Call("set_host_address", set_host_address)
SetEncodedHostAddress == Call("set_encoded_host_address", set_encoded_host_address)
SetHostIPv4 == Call("set_host_ipv4", set_host_ipv4)
SetHostIPv6 == Call("set_host_ipv6", set_host_ipv6)
SetHostIPvFuture == Call("set_host_ipvfuture", set_host_ipvfuture)
SetHostName == Call("set_host_name", set_host_name)
SetEncodedHostName == Call("set_encoded_host_name", set_encoded_host_name)
SetPortNumber == Call("set_port_number", set_port_number)
SetPort == Call("set_port", set_port)
RemovePort == Call0("remove_port", remove_port)
SetPathAbsolute == Call("set_path_absolute", set_path_absolute)
SetPath == Call("set_path", set_path)
SetEncodedPath == Call("set_encoded_path", set_encoded_path)
SetQuery == Call("set_query", set_query)
SetEncodedQuery == Call("set_encoded_query", set_encoded_query)
RemoveQuery == Call0("remove_query", remove_query)
SetFragment == Call("set_fragment", set_fragment)
SetEncodedFragment == Call("set_encoded_fragment", set_encoded_fragment)
RemoveFragment == Call0("remove_fragment", remove_fragment)

\* remove_origin() is two modifiers in a row.
RemoveOrigin ==
    /\ Within /\ <<"remove_origin">> \in Calls
    /\ LET v == Commit(u, remove_authority(u)) IN u' = Commit(v, remove_scheme(v))

Clear == <<"clear">> \in Calls /\ u' = empty_url

Next ==
    \/ SetScheme \/ SetSchemeId \/ RemoveScheme
    \/ SetEncodedAuthority \/ RemoveAuthority \/ RemoveOrigin
    \/ SetUserinfo \/ SetEncodedUserinfo \/ RemoveUserinfo
    \/ SetUser \/ SetEncodedUser
    \/ SetPassword \/ SetEncodedPassword \/ RemovePassword
    \/ SetHost \/ SetEncodedHost \/ SetHostAddress \/ SetEncodedHostAddress
    \/ SetHostIPv4 \/ SetHostIPv6 \/ SetHostIPvFuture
    \/ SetHostName \/ SetEncodedHostName
    \/ SetPortNumber \/ SetPort \/ RemovePort
    \/ SetPathAbsolute \/ SetPath \/ SetEncodedPath
    \/ SetQuery \/ SetEncodedQuery \/ RemoveQuery
    \/ SetFragment \/ SetEncodedFragment \/ RemoveFragment
    \/ Clear

Spec == Init /\ [][Next]_u
-----------------------------------------------------------------------------
\* The components as the accessors of url_view_base return them, decoded.
\* One that is absent is <<>>, one that is present is <<text>>.

Opt(present, s) == IF present THEN <<s>> ELSE <<>>
Inner(s) == SubSeq(s, 2, Len(s) - 1)
Decoded(ss) == [i \in 1..Len(ss) |-> decode(ss[i])]

Scheme(v) == Opt(has_scheme(v), Take(get(v, id_scheme), len(v, id_scheme) - 1))
User(v) == Opt(len(v, id_pass) > 0, decode(Drop(get(v, id_user), 2)))
Password(v) == Opt(len(v, id_pass) > 1, decode(Inner(get(v, id_pass))))
Host(v) == decode(get(v, id_host))
Port(v) == Opt(len(v, id_port) > 0, Drop(get(v, id_port), 1))
PathSegments(v) == Decoded(Segments(get(v, id_path)))
Query(v) == Opt(len(v, id_query) > 0, decode(Drop(get(v, id_query), 1)))
Fragment(v) == Opt(len(v, id_frag) > 0, decode(Drop(get(v, id_frag), 1)))

Components(v) ==
    [scheme |-> Scheme(v), authority |-> has_authority(v), user |-> User(v),
     pass |-> Password(v), host |-> Host(v), port |-> Port(v), absolute |-> is_path_absolute(v),
     segments |-> PathSegments(v), query |-> Query(v), fragment |-> Fragment(v)]

-----------------------------------------------------------------------------
\* Properties

\* check_invariants(), the assertion that url_base makes before and after its
\* modifiers, holds of every url: each part starts and ends with its
\* delimiters, wherever earlier modifiers have moved it.
CheckInvariants ==
    LET Starts(id, s) == len(u, id) = 0 \/ StartsWith(get(u, id), s)
    IN  /\ len(u, id_scheme) = 0 \/ Last(get(u, id_scheme)) = ":"
        /\ Starts(id_user, <<"/", "/">>)
        /\ len2(u, id_pass, id_path) = 0 \/ StartsWith(get(u, id_user), <<"/", "/">>)
        /\ \/ len(u, id_pass) = 0
           \/ get(u, id_pass) = <<"@">>
           \/ Starts(id_pass, <<":">>) /\ Last(get(u, id_pass)) = "@"
        /\ u.decoded_[id_path] >= (len(u, id_path) + 2) \div 3
        /\ Starts(id_port, <<":">>)
        /\ Starts(id_query, <<"?">>)
        /\ len(u, id_query) = 0 <=> u.nparam_ = 0
        /\ Starts(id_frag, <<"#">>)

\* The string is a valid URI reference and parsing it again finds every part
\* where the table of offsets says it is: no sequence of modifiers makes one
\* component read as another (a path as a scheme or an authority).
ReparsesToItself ==
    \E r \in {parse_uri_reference(u.cs_)} :
        r.ok /\ r.u.offset_ = u.offset_ /\ r.u.scheme_ = u.scheme_

\* The cached counts are the numbers of segments and of params that are in
\* the string: the iterators of segments() and params() rely on them for their
\* end.  A query that is present and empty is one param.
SegmentCountIsExact == u.nseg_ = Len(Segments(get(u, id_path)))
ParamCountIsExact ==
    len(u, id_query) > 0 => u.nparam_ = Len(SplitAt(Drop(get(u, id_query), 1), "&"))
CountsAreExact == SegmentCountIsExact /\ ParamCountIsExact

\* The cached host type, address and port number are those of a fresh parse.
\* With an authority and no host the type may still be none.
HostAndPortAreExact ==
    \E r \in {parse_uri_reference(u.cs_).u} :
        /\ \/ u.host_type_ = r.host_type_
           \/ u.host_type_ = "none" /\ len(u, id_host) = 0
        /\ u.host_type_ \in {"ipv4", "ipv6"} => u.ip_addr_ = r.ip_addr_
        /\ len(u, id_port) > 0 => u.port_number_ = r.port_number_

\* The cached decoded sizes are those of the parts that are not empty: user(),
\* host(), query() and the others allocate that many characters before they
\* decode.  The path is left out: its size is not kept exact by set_user() and
\* the other functions that put an authority in front of a relative path.
DecodedSizesAreExact ==
    \E fresh \in {parse_uri_reference(u.cs_).u.decoded_} :
        LET Exact(id) == u.decoded_[id] = fresh[id]
        IN
        /\ Exact(id_query) /\ Exact(id_frag)
        /\ len(u, id_user) > 2 => Exact(id_user)
        /\ len(u, id_pass) > 1 => Exact(id_pass)
        /\ len(u, id_host) > 0 => Exact(id_host)

\* Everything that is cached beside the string is what a fresh parse of the
\* string finds, whatever modifiers have set, moved and removed the parts.
CachesAreExact == CountsAreExact /\ HostAndPortAreExact /\ DecodedSizesAreExact

\* first_segment() asserts that the '/' it searched for lies in the path.
FirstSegmentEnds ==
    u.nseg_ > 1 =>
        find(Drop(get(u, id_path), path_prefix(get(u, id_path))), "/") # 0


\* The path starts with the prefix that hides a colon in the first segment.
DotPrefix(v) == StartsWith(get(v, id_path), <<".", "/">>)
Promise == INSTANCE UrlComponents WITH c <- u

\* c: the components of u; a: the same with an authority.
PromisesKept(c, a) ==
    LET Gives(r, d) == r.reserved <= Capacity => Components(r) = d
        Gives0(name, r, d) == <<name>> \in Calls => Gives(r, d)
        Valid(b, d) == IF b THEN d ELSE c
    IN  /\ \A s \in Args("set_scheme") :
              Gives(set_scheme(u, s), Valid(s[1] \notin Digits, [c EXCEPT !.scheme = <<s>>]))
        /\ ~DotPrefix(u) =>
              Gives0("remove_scheme", remove_scheme(u), [c EXCEPT !.scheme = <<>>])
        /\ Gives0("remove_authority", remove_authority(u), Promise!WithoutAuthority(c))
        /\ \A s \in Args("set_user") : Gives(set_user(u, s), [a EXCEPT !.user = <<s>>])
        /\ \A s \in Args("set_encoded_user") :
              Gives(set_encoded_user(u, s), [a EXCEPT !.user = <<decode(s)>>])
        /\ \A s \in Args("set_password") : Gives(set_password(u, s), Promise!WithPassword(a, s))
        /\ \A s \in Args("set_encoded_password") :
              Gives(set_encoded_password(u, s), Promise!WithPassword(a, decode(s)))
        /\ Gives0("remove_password", remove_password(u), [c EXCEPT !.pass = <<>>])
        /\ Gives0("remove_userinfo", remove_userinfo(u), [c EXCEPT !.user = <<>>, !.pass = <<>>])
        /\ \A s \in Args("set_host") : Gives(set_host(u, s), [a EXCEPT !.host = s])
        /\ \A s \in Args("set_encoded_host") :
              Gives(set_encoded_host(u, s), [a EXCEPT !.host = decode(s)])
        /\ \A s \in Args("set_host_name") : Gives(set_host_name(u, s), [a EXCEPT !.host = s])
        /\ \A n \in Args("set_port_number") :
              Gives(set_port_number(u, n), [a EXCEPT !.port = <<Printed[n]>>])
        /\ \A s \in Args("set_port") :
              Gives(set_port(u, s), Valid(s \in Seq(Digits), [a EXCEPT !.port = <<s>>]))
        /\ Gives0("remove_port", remove_port(u), [c EXCEPT !.port = <<>>])
        /\ \A s \in Args("set_path") :
              Gives(set_path(u, s),
                    [c EXCEPT !.segments = Segments(s),
                              !.absolute = StartsWith(s, <<"/">>) \/ (c.authority /\ s # <<>>)])
        /\ \A b \in Args("set_path_absolute") :
              Gives(set_path_absolute(u, b),
                    Valid(b \/ ~c.authority \/ c.segments = <<>>, [c EXCEPT !.absolute = b]))
        /\ \A s \in Args("set_query") : Gives(set_query(u, s), [c EXCEPT !.query = <<s>>])
        /\ \A s \in Args("set_encoded_query") :
              Gives(set_encoded_query(u, s), [c EXCEPT !.query = <<decode(s)>>])
        /\ Gives0("remove_query", remove_query(u), [c EXCEPT !.query = <<>>])
        /\ \A s \in Args("set_fragment") : Gives(set_fragment(u, s), [c EXCEPT !.fragment = <<s>>])
        /\ Gives0("remove_fragment", remove_fragment(u), [c EXCEPT !.fragment = <<>>])

\* What the documentation of each modifier promises, whatever was called
\* before: reading the component back returns what was set, and every other
\* component is what it was.  An authority makes the path behind it absolute,
\* and a modifier that throws changes nothing.  One case is left out because
\* the code fails it: remove_scheme() searches the first segment for colons
\* behind the prefix "./" but escapes them from the start of the path, so that
\* "s:./a:" becomes "././a:", with one segment more.
ModifiersKeepPromises == PromisesKept(Components(u), Promise!WithAuthority(Components(u)))
=============================================================================
