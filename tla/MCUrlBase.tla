----------------------------- MODULE MCUrlBase -----------------------------
(***************************************************************************)
(* Arguments for the modifiers of UrlBase, chosen so that every branch of  *)
(* the modifiers is taken: text with and without characters that must be   *)
(* escaped, empty text, paths that would read as a scheme or an authority, *)
(* the four kinds of host.                                                 *)
(***************************************************************************)
EXTENDS UrlBase

To(name, args) == {<<name, s>> : s \in args}
Removers(names) == {<<n>> : n \in names}

IPv4 == <<"0", ".", "0", ".", "0", ".", "0">>
IPv6 == <<":", ":">>
IPvFuture == <<"v", "1", ".", "a">>
Brackets(s) == <<"[">> \o s \o <<"]">>
Colon == <<"%", "3", "A">>

\* Userinfo, the four kinds of host and the port, in front of a path.
AuthorityCalls ==
    To("set_user", {<<":">>}) \cup To("set_encoded_user", {<<"a">>})
    \cup To("set_password", {<<"@">>}) \cup To("set_encoded_password", {<<"@">>})
    \cup To("set_userinfo", {<<"a">>}) \cup To("set_encoded_userinfo", {<<"a", ":", "@">>})
    \cup To("set_encoded_authority", {<<>>, <<"a", "@", "b", ":", "8">>, <<"a", "/">>})
    \cup To("set_host", {<<>>, IPv4, <<"[">>}) \cup To("set_encoded_host", {Colon, Brackets(IPv6)})
    \cup To("set_host_address", {IPv6, IPvFuture}) \cup To("set_encoded_host_address", {IPv4, <<"a">>})
    \cup To("set_host_ipv4", {IPv4}) \cup To("set_host_ipv6", {IPv6})
    \cup To("set_host_ipvfuture", {IPvFuture, <<"a">>})
    \cup To("set_host_name", {IPv4}) \cup To("set_encoded_host_name", {Colon})
    \cup To("set_port_number", {65535}) \cup To("set_port", {<<>>, <<"0", "8">>, <<"a">>})
    \cup To("set_path", {<<>>, <<"p">>})
    \cup Removers({"remove_userinfo", "remove_password", "remove_port", "remove_authority", "clear"})

\* Paths that must not read as something else once the parts in front of them
\* come and go.
PathCalls ==
    To("set_scheme", {<<"s">>, <<"8">>}) \cup To("set_scheme_id", {"none", "unknown", "ws"})
    \cup To("set_host", {<<>>, <<"h">>})
    \cup To("set_path", {<<>>, <<"/">>, <<"a">>, <<"a", ":">>, <<"/", "a", ":">>, <<"/", ":">>,
                         <<"/", "/", "a">>, <<"/", ".">>, <<"a", "/", ":">>})
    \cup To("set_encoded_path", {Colon, <<"/", "/">>, <<"/", ".", "/", "a", ":">>})
    \cup To("set_path_absolute", {TRUE, FALSE})
    \cup To("set_query", {<<>>, <<"a", "&", "#">>}) \cup To("set_encoded_query", {<<"a", "&", "#">>})
    \cup To("set_fragment", {<<"#">>}) \cup To("set_encoded_fragment", {<<"#">>})
    \cup Removers({"remove_scheme", "remove_authority", "remove_origin", "remove_query",
                   "remove_fragment", "clear"})

\* Short sequences after which the code departs from what it states.
RemoveSchemeCalls == Removers({"remove_scheme", "clear"})
DotPathCalls == To("set_path", {<<".", "/", "a">>}) \cup Removers({"clear"})

\* Strings that a url is constructed from.
None == {}
Simple == {<<"s", ":", "a">>, <<"/", "/", "h", "/", "/">>}
Full == Simple \cup {<<"s", ":", "/", "/", "a", "@", "h", "/", "p", "?", "q", "#", "f">>}
ManyColons == {<<"s", ":", "a", ":", "b", ":", "c", "?", "q">>}
EmptyQuery == {<<"?", "#">>}

-----------------------------------------------------------------------------
\* The components of u, in a variable of their own so that the refinement
\* mapping is evaluated once in every step.
VARIABLE c

\* remove_scheme() is not called on a path with the prefix "./", which it
\* prefixes again (see ModifiersKeepPromises).
NotOnDotPrefix ==
    DotPrefix(u) /\ has_scheme(u) => has_scheme(u') \/ u' = empty_url

MCInit == Init /\ c = Components(u)
MCNext == (Next /\ NotOnDotPrefix) /\ c' = Components(u')
MCSpec == MCInit /\ [][MCNext]_<<u, c>>

\* Every modifier changes the component it is named after and no other
\* (UrlComponents), for all the ways the buffer can be laid out before it.
Abstract == INSTANCE UrlComponents
ImplementsComponents == Abstract!Spec
=============================================================================
