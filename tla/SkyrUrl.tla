------------------------------- MODULE SkyrUrl -------------------------------
(***************************************************************************)
(* The class skyr::url (url/url.cpp) and its search parameters             *)
(* (url/url_search_parameters.cpp).  A setter runs the parser of           *)
(* SkyrParser on a copy of the record, in a state of its own choice, and   *)
(* then replaces the record, the string and the parameters.                *)
(*                                                                         *)
(* One url is constructed; then its setters and the modifiers of its       *)
(* parameters are called in any order.  Between two calls the string may   *)
(* be parsed again into another url (reparse), and a reference may be      *)
(* parsed against the url as its base (resolve).                           *)
(***************************************************************************)
EXTENDS SkyrParser

CONSTANTS Urls,        \* texts for the constructor, each with how many changes follow
          References,  \* texts that are parsed with the url as base
          Protocols, Names, HostTexts, Ports, Paths, Queries, Fragments,
          ParameterTexts,  \* names and values of parameters
          MaxParameters    \* bound on the length of parameters_

VARIABLES url_, href_, parameters_,
          call,   \* the member that runs the parser, or "none"
          calls,  \* how many more changes of the url the model explores
          asked   \* the list of parameters that update() was called with

vars == <<context, url_, href_, parameters_, call, calls, asked>>

Optional(flag, s) == IF flag THEN s ELSE <<>>

\* core/serialize.hpp
serialize_excluding_fragment(r) ==
    LET credentials == Optional(includes_credentials(r),
            r.username \o Optional(r.password # <<>>, <<":">> \o r.password) \o <<"@">>)
        port == Optional(r.port # <<>>, <<":">> \o ToText(r.port[1], 10))
        path == IF r.cannot_be_a_base_url THEN r.path[1]
                ELSE FlattenSeq([i \in DOMAIN r.path |-> <<"/">> \o r.path[i]])
    IN  r.scheme \o <<":">>
        \o Optional(r.host # <<>>, <<"/", "/">> \o credentials \o serialize_host(r.host[1]) \o port)
        \o Optional(r.host = <<>> /\ r.scheme = <<"file">>, <<"/", "/">>)
        \o path
        \o Optional(r.query # <<>>, <<"?">> \o r.query[1])

serialize(r) ==
    serialize_excluding_fragment(r) \o Optional(r.fragment # <<>>, <<"#">> \o r.fragment[1])

-----------------------------------------------------------------------------
(* The list of parameters and its text.                                     *)

Decoded(s) == IF Decodes(s) THEN percent_decode(s) ELSE s

\* url_search_parameters::initialize(): the parameters of a query.
parameters_of(query) ==
    LET text == Optional(query # <<>>, query[1])
        Pair(s) == LET i == Find(s, "=")
                   IN  IF i = 0 THEN <<Decoded(s), <<>>>>
                       ELSE <<Decoded(SubSeq(s, 1, i - 1)), Decoded(SubSeq(s, i + 1, Len(s)))>>
        parts == Split(IF text # <<>> /\ text[1] = "?" THEN Tail(text) ELSE text, {"&", ";"})
    IN  [i \in DOMAIN parts |-> Pair(parts[i])]

to_string(list) ==
    LET Text(p) == percent_encode(p[1], component_bytes) \o <<"=">>
                   \o percent_encode(p[2], component_bytes)
    IN  FlattenSeq([i \in DOMAIN list |-> Optional(i > 1, <<"&">>) \o Text(list[i])])

-----------------------------------------------------------------------------

Init ==
    /\ input = <<>> /\ base = <<>> /\ state_override = None
    /\ it = 0 /\ url = NoUrl /\ state = "scheme_start" /\ buffer = <<>>
    /\ at_flag = FALSE /\ square_braces_flag = FALSE /\ password_token_seen_flag = FALSE
    /\ result = "idle" /\ odd = FALSE
    /\ url_ = NoUrl /\ href_ = <<>> /\ parameters_ = <<>>
    /\ call = "none" /\ calls = 0 /\ asked = <<>>

\* update_record(): parameters_.initialize() adds to the parameters that are there.
update_record(r, list) ==
    /\ url_' = r
    /\ href_' = serialize(r)
    /\ parameters_' = list \o parameters_of(r.query)
    /\ calls' = IF call = "initialize" THEN calls ELSE calls - 1

\* The context of the parser is gone when basic_parse() has returned.
Leave ==
    /\ input' = <<>> /\ base' = <<>> /\ state_override' = None
    /\ it' = 0 /\ url' = NoUrl /\ state' = "scheme_start" /\ buffer' = <<>>
    /\ at_flag' = FALSE /\ square_braces_flag' = FALSE /\ password_token_seen_flag' = FALSE
    /\ result' = "idle" /\ odd' = FALSE
    /\ call' = "none"

Idle == call = "none" /\ url_ # NoUrl /\ calls > 0
CanSet == Idle /\ Len(parameters_) + Len(parameters_of(url_.query)) <= MaxParameters

Call(c, text, b, r, override) ==
    /\ basic_parse(text, b, r, override)
    /\ call' = c
    /\ UNCHANGED asked

\* url::url(input), make_url()
initialize(text, n) ==
    /\ call = "none" /\ url_ = NoUrl
    /\ Call("initialize", text, <<>>, NoUrl, None)
    /\ calls' = n
    /\ UNCHANGED <<url_, href_, parameters_>>

set_href(text) ==
    /\ CanSet
    /\ Call("set_href", text, <<>>, NoUrl, None)
    /\ UNCHANGED <<url_, href_, parameters_, calls>>

set_protocol(text) ==
    /\ CanSet
    /\ Call("set_protocol", IF Last(text) = ":" THEN text ELSE Append(text, ":"),
            <<>>, url_, "scheme_start")
    /\ UNCHANGED <<url_, href_, parameters_, calls>>

set_username(text) ==
    /\ CanSet /\ ~cannot_have_a_username_password_or_port(url_)
    /\ update_record([url_ EXCEPT !.username = percent_encode(text, userinfo_bytes)], parameters_)
    /\ UNCHANGED <<context, call, asked>>

set_password(text) ==
    /\ CanSet /\ ~cannot_have_a_username_password_or_port(url_)
    /\ update_record([url_ EXCEPT !.password = percent_encode(text, userinfo_bytes)], parameters_)
    /\ UNCHANGED <<context, call, asked>>

set_host(text) ==
    /\ CanSet /\ ~url_.cannot_be_a_base_url
    /\ Call("set_host", text, <<>>, url_, "host")
    /\ UNCHANGED <<url_, href_, parameters_, calls>>

set_hostname(text) ==
    /\ CanSet /\ ~url_.cannot_be_a_base_url
    /\ Call("set_hostname", text, <<>>, url_, "hostname")
    /\ UNCHANGED <<url_, href_, parameters_, calls>>

set_port(text) ==
    /\ CanSet /\ ~cannot_have_a_username_password_or_port(url_)
    /\ IF text = <<>>
       THEN /\ update_record([url_ EXCEPT !.port = <<>>], parameters_)
            /\ UNCHANGED <<context, call, asked>>
       ELSE /\ Call("set_port", text, <<>>, url_, "port")
            /\ UNCHANGED <<url_, href_, parameters_, calls>>

\* The path is cleared in the url itself, before the new one is parsed.
set_pathname(text) ==
    /\ CanSet /\ ~url_.cannot_be_a_base_url
    /\ url_' = [url_ EXCEPT !.path = <<>>]
    /\ Call("set_pathname", text, <<>>, url_', "path_start")
    /\ UNCHANGED <<href_, parameters_, calls>>

WithoutFirst(text, c) == IF text[1] = c THEN Tail(text) ELSE text

\* set_search(), when the list of parameters is as given.
SetSearch(text, c, list) ==
    IF text = <<>>
    THEN /\ update_record([url_ EXCEPT !.query = <<>>], list)
         /\ UNCHANGED <<context, call>>
    ELSE /\ basic_parse(WithoutFirst(text, "?"), <<>>, [url_ EXCEPT !.query = << <<>> >>], "query")
         /\ call' = c
         /\ parameters_' = list
         /\ UNCHANGED <<url_, href_, calls>>

set_search(text) ==
    /\ CanSet
    /\ SetSearch(text, "set_search", parameters_)
    /\ UNCHANGED asked

set_hash(text) ==
    /\ CanSet
    /\ IF text = <<>>
       THEN /\ update_record([url_ EXCEPT !.fragment = <<>>], parameters_)
            /\ UNCHANGED <<context, call, asked>>
       ELSE /\ url_' = [url_ EXCEPT !.fragment = << <<>> >>]
            /\ Call("set_hash", WithoutFirst(text, "#"), <<>>, url_', "fragment")
            /\ UNCHANGED <<href_, parameters_, calls>>

-----------------------------------------------------------------------------
(* url_search_parameters: every modifier ends with update().                *)

\* The list is not cleared before set_search() reads the query back.
updateKeeps(list) ==
    /\ asked' = list
    /\ SetSearch(to_string(list), "update", list)

\* update(): the list is written down, cleared, and read back by set_search().
update(list) ==
    /\ asked' = list
    /\ SetSearch(to_string(list), "update", <<>>)

\* The order of std::string, on the symbols of names.
Code(c) == CHOOSE i \in 1..7 : <<"%", "&", "'", "=", "p", "q", "v">>[i] = c
Less(s, t) ==
    \/ s # t /\ IsPrefix(s, t)
    \/ \E i \in DOMAIN s \cap DOMAIN t : /\ \A j \in 1..(i - 1) : s[j] = t[j]
                                         /\ Code(s[i]) < Code(t[i])

append(name, value) ==
    /\ Idle /\ Len(parameters_) < MaxParameters
    /\ update(Append(parameters_, <<name, value>>))

remove(name) ==
    /\ Idle
    /\ update(SelectSeq(parameters_, LAMBDA p : p[1] # name))

set(name, value) ==
    /\ Idle
    /\ LET first == Find([i \in DOMAIN parameters_ |-> parameters_[i][1]], name)
           rest == SelectSeq(SubSeq(parameters_, first + 1, Len(parameters_)),
                             LAMBDA p : p[1] # name)
       IN  IF first # 0
           THEN update(SubSeq(parameters_, 1, first - 1) \o << <<name, value>> >> \o rest)
           ELSE /\ Len(parameters_) < MaxParameters
                /\ update(Append(parameters_, <<name, value>>))

clear == Idle /\ update(<<>>)

\* ranges::sort() may exchange parameters of the same name.
sort ==
    /\ Idle
    /\ \E f \in Bijection(DOMAIN parameters_, DOMAIN parameters_) :
          LET list == [i \in DOMAIN parameters_ |-> parameters_[f[i]]]
          IN  /\ \A i, j \in DOMAIN list : i < j => ~Less(list[j][1], list[i][1])
              /\ update(list)

-----------------------------------------------------------------------------

\* Another url is made from the string of this one.
reparse ==
    /\ call = "none" /\ url_ # NoUrl
    /\ Call("reparse", href_, <<>>, NoUrl, None)
    /\ UNCHANGED <<url_, href_, parameters_, calls>>

\* A reference is parsed with this url as its base.
resolve(text) ==
    /\ Idle
    /\ Call("resolve", text, <<url_>>, NoUrl, None)
    /\ UNCHANGED <<url_, href_, parameters_, calls>>

Discarded == call \in {"reparse", "resolve"}

\* set_host() ignores a port that it cannot read.
SetHostAgain ==
    /\ call = "set_host" /\ result = "invalid_port"
    /\ Call("set_host_again", input, <<>>, url_, "hostname")
    /\ UNCHANGED <<url_, href_, parameters_, calls>>

Succeed ==
    /\ call # "none" /\ ~Discarded /\ result = "success"
    /\ update_record(url, parameters_)
    /\ Leave
    /\ UNCHANGED asked

Fail ==
    /\ call # "none" /\ result \notin {"parsing", "success"}
    /\ ~(call = "set_host" /\ result = "invalid_port")
    /\ Leave
    /\ calls' = IF url_ = NoUrl THEN 0 ELSE calls
    /\ UNCHANGED <<url_, href_, parameters_, asked>>

Discard ==
    /\ Discarded /\ result = "success"
    /\ Leave
    /\ UNCHANGED <<url_, href_, parameters_, calls, asked>>

Parse == parse_next /\ UNCHANGED <<url_, href_, parameters_, call, calls, asked>>
Finish == SetHostAgain \/ Succeed \/ Fail \/ Discard

Next ==
    \/ Parse
    \/ Finish
    \/ reparse
    \/ \E u \in Urls : initialize(u[1], u[2])
    \/ \E s \in References : resolve(s) \/ set_href(s)
    \/ \E s \in Protocols : set_protocol(s)
    \/ \E s \in Names : set_username(s) \/ set_password(s)
    \/ \E s \in HostTexts : set_host(s) \/ set_hostname(s)
    \/ \E s \in Ports : set_port(s)
    \/ \E s \in Paths : set_pathname(s)
    \/ \E s \in Queries : set_search(s)
    \/ \E s \in Fragments : set_hash(s)
    \/ \E n, v \in ParameterTexts : append(n, v) \/ set(n, v)
    \/ \E n \in ParameterTexts : remove(n)
    \/ clear
    \/ sort

\* A member that has been called runs: weak fairness of Parse \/ Finish, which
\* is enabled exactly when call # "none" and always changes the state.
Fairness == []<>(call = "none") \/ []<><<Parse \/ Finish>>_vars

Spec == Init /\ [][Next]_vars /\ Fairness

-----------------------------------------------------------------------------
(* Properties.                                                              *)

Records ==
    (IF call \in {"none", "reparse", "resolve"} THEN {url_} \ {NoUrl} ELSE {})
    \cup (IF result = "success" THEN {url} ELSE {})

\* However the parser goes back and forth, its position stays in the input:
\* the assertions of increment() and decrement() in url_parser_context.hpp
\* hold, and restart_from_buffer() goes back no further than the authority.
PositionInInput == result # "assertion"

\* Every call of the parser returns, from any state it is started in: no two
\* states send it back to each other for ever.
ParsesEnd == call # "none" ~> call = "none"

\* A user, a password or a port is only ever found beside a host that is not
\* empty, and never in a file.
CredentialsNeedHost(r) ==
    includes_credentials(r) \/ r.port # <<>> => ~cannot_have_a_username_password_or_port(r)

\* A special scheme has a host, which is not empty unless it is a file, and a
\* path; a record that cannot be a base has one path and no host.
IsComplete(r) ==
    /\ is_special(r.scheme) => /\ r.host # <<>> /\ r.path # <<>>
                               /\ r.host = <<Empty>> => r.scheme = <<"file">>
                               /\ ~r.cannot_be_a_base_url
    /\ r.cannot_be_a_base_url => r.host = <<>> /\ Len(r.path) = 1

\* A port fits into 16 bits and is not the default port of the scheme.
PortIsOwn(r) == r.port # <<>> => r.port[1] \in 0..65535 /\ r.port # default_port(r.scheme)

\* Whatever setters, references and texts made a record, its parts do not
\* contradict each other: what set_username() or set_port() refuses cannot be
\* had by way of set_protocol(), set_host() or a base either.
RecordsAreValid == \A r \in Records : CredentialsNeedHost(r) /\ IsComplete(r) /\ PortIsOwn(r)

Touches ==
    [set_protocol |-> {"scheme", "port"}, set_host |-> {"host", "port"},
     set_host_again |-> {"host"}, set_hostname |-> {"host"}, set_port |-> {"port"},
     set_pathname |-> {"path"}, set_search |-> {"query"}, update |-> {"query"},
     set_hash |-> {"fragment"}]

\* A setter changes its own part of the record, whatever delimiters its text
\* has; only the path of a file may also drop the host, for a drive letter.
SetterConfined ==
    call \in DOMAIN Touches /\ result = "success" =>
        \A f \in DOMAIN url \ Touches[call] :
            url[f] = url_[f] \/ (call = "set_pathname" /\ f = "host" /\ url.scheme = <<"file">>)

\* The records whose string says something else.  Without a host, a path that
\* is empty or starts with an empty segment reads as another kind of url.  A
\* file that set_protocol() or set_host() made may have a path or a host that
\* parse_path() and parse_file_host() would have changed.
Ambiguous(r) ==
    \/ r.host = <<>> /\ ~r.cannot_be_a_base_url
       /\ (r.path = <<>> \/ (Len(r.path) > 1 /\ r.path[1] = <<>>))
    \/ r.scheme = <<"file">>
       /\ \/ r.path # <<>> /\ is_windows_drive_letter(r.path[1]) /\ r.host # <<Empty>>
          \/ Len(r.path) > 1 /\ r.path[1] = <<>>
          \/ LET host == serialize_host(r.host[1])
             IN  host = <<"localhost">> \/ is_windows_drive_letter(host)

\* Every other record is what its string parses to: parsing the string of a url
\* gives the same url, also after a setter that failed.
HrefReadsBack ==
    call = "reparse" /\ result # "parsing" /\ ~Ambiguous(url_) =>
        result = "success" /\ url = url_

\* After a change of the parameters the list is what the change made of it,
\* although it has been written into the query, cleared and read back.
SearchReadsBack == [][call = "update" /\ call' = "none" => parameters_' = asked]_vars

\* The dotted texts of up to four numbers: parse_ipv4_address() takes each for
\* the address that it denotes, or for an overflow, and what serialize() writes
\* is read back, for every address.
Ipv4IsExact ==
    /\ \A a \in 0..(ByteSize^4 - 1) : parse_ipv4_address(serialize_ipv4(a)) = <<a>>
    /\ \A n \in 1..4 :
         LET last == ByteSize^(5 - n)  \* what the last of n numbers stays below
         IN  \A f \in [1..n -> {ByteSize - 1, ByteSize, last - 1, last}] :
               LET read == parse_ipv4_address(
                               Tail(FlattenSeq([i \in 1..n |-> <<".">> \o ToText(f[i], 10)])))
               IN  IF f[n] < last /\ \A i \in 1..(n - 1) : f[i] < ByteSize
                   THEN /\ read[1] % last = f[n]
                        /\ \A i \in 1..(n - 1) : (read[1] \div ByteSize^(4 - i)) % ByteSize = f[i]
                   ELSE read = Overflow

\* However many pieces stand before and behind "::", and whether an IPv4
\* address ends the text, parse_ipv6_address() puts them at the two ends of the
\* address; what serialize() writes is read back.
Ipv6IsExact ==
    LET Digit(d) == HexDigits[d + 1]
        Joined(m, n) == [k \in 1..(2 * (n - m) + 1) |-> IF k % 2 = 1 THEN Digit(m + k \div 2) ELSE ":"]
        Text(l, r, tail) ==
            Joined(1, l) \o <<":", ":">> \o Joined(l + 1, l + r)
            \o Optional(tail, Optional(r > 0, <<":">>) \o <<"1", ".", "2", ".", "3", ".", "4">>)
        Behind(l, r, tail) == [j \in 1..r |-> l + j] \o Optional(tail, <<258, 772>>)
        Denoted(l, right) ==
            IF l + Len(right) > 7 THEN <<>>
            ELSE <<[i \in 0..7 |-> IF i < l THEN i + 1
                                   ELSE IF i >= 8 - Len(right) THEN right[i - 7 + Len(right)] ELSE 0]>>
    IN  /\ \A a \in [0..7 -> {0, 171}] : parse_ipv6_address(serialize_ipv6(a)) = <<a>>
        /\ \A l, r \in 0..7, tail \in BOOLEAN :
              parse_ipv6_address(Text(l, r, tail)) = Denoted(l, Behind(l, r, tail))

\* Addresses are read as what they denote and written as what they are read
\* from, asked once, before there is a url.
AddressesAreExact == result = "idle" /\ url_ = NoUrl => Ipv4IsExact /\ Ipv6IsExact

=============================================================================
