----------------------------- MODULE SkyrParser -----------------------------
(***************************************************************************)
(* The URL parser of skyr (core/url_parser_context.cpp, core/parse.cpp): a *)
(* state machine that reads one byte at a time, moves its position back to *)
(* read a byte again in another state, and may start in the middle         *)
(* (state_override) on an existing record.  One action is one call of      *)
(* parse_next() with what the loop of basic_parse() does after it.         *)
(*                                                                         *)
(* Positions count from 0, as iterators do.  Left out: validation_error,   *)
(* which the parser only writes, and the removal of control characters and *)
(* spaces, which the alphabet does not have.                               *)
(***************************************************************************)
EXTENDS SkyrHost

VARIABLES input, base, state_override,  \* the arguments of basic_parse
          it, url, state, buffer,       \* url_parser_context
          at_flag, square_braces_flag, password_token_seen_flag,
          result,                       \* "parsing", "success" or the error
          odd                           \* parity of the calls of parse_next: a call that
                                        \* changes nothing else is a step all the same

arguments == <<input, base, state_override>>
flags == <<at_flag, square_braces_flag, password_token_seen_flag>>
context == <<arguments, it, url, state, buffer, flags, result, odd>>

None == "none"  \* no state override

\* struct url_record
NoUrl == [scheme |-> <<>>, username |-> <<>>, password |-> <<>>, host |-> <<>>,
          port |-> <<>>, path |-> <<>>, query |-> <<>>, fragment |-> <<>>,
          cannot_be_a_base_url |-> FALSE]

includes_credentials(r) == r.username # <<>> \/ r.password # <<>>

cannot_have_a_username_password_or_port(r) ==
    \/ r.host \in {<<>>, <<Empty>>}
    \/ r.cannot_be_a_base_url
    \/ r.scheme = <<"file">>

\* The loop of basic_parse() after a call that ends at position i.
is_eof == it = Len(input)
byte == IF is_eof THEN "NUL" ELSE input[it + 1]
remaining == SubSeq(input, it + 1, Len(input))
remaining_starts_with(s) == IsPrefix(s, Tail(remaining))

\* increment() and decrement() assert that the position stays in the input.
Increment(i) ==
    IF i \notin 0..Len(input) THEN result' = "assertion" /\ UNCHANGED it
    ELSE IF i = Len(input) THEN it' = i /\ result' = "success"
    ELSE it' = i + 1 /\ UNCHANGED result

Continue(i) == it' = i /\ UNCHANGED result
Return(r) == result' = r /\ UNCHANGED it

RereadAnyway == Increment(it - 1)  \* also at the start of the input

\* Reads the byte again in another state.
Reread == IF it = 0 THEN Continue(0) ELSE Increment(it - 1)

is_windows_drive_letter(s) ==
    /\ Len(s) >= 2
    /\ s[1] \in Letters
    /\ s[2] \in {":", "|"}
    /\ Len(s) > 2 => s[3] \in {"/", "\\", "?", "#"}

is_single_dot_path_segment(s) == s \in {<<".">>, <<"%2e">>}
is_double_dot_path_segment(s) == Len(s) = 2 /\ \A i \in 1..2 : s[i] \in {".", "%2e"}

shorten_path(scheme, path) ==
    IF path = <<>> \/ (scheme = <<"file">> /\ Len(path) = 1 /\ is_windows_drive_letter(path[1]))
    THEN path
    ELSE Front(path)

\* Drops the empty segments at the front of the path of a file.
RECURSIVE trim_path(_)
trim_path(path) ==
    IF Len(path) > 1 /\ path[1] = <<>> THEN trim_path(Tail(path)) ELSE path

\* An unsigned long above 65535 is an error; the texts of the model are short.
port_number(s) == IF ToNumber(s, 10) > 65535 THEN <<>> ELSE <<ToNumber(s, 10)>>

Special == is_special(url.scheme)
Slash == byte = "/" \/ (Special /\ byte = "\\")
EndOfAuthority == is_eof \/ byte \in {"/", "?", "#"} \/ (Special /\ byte = "\\")

With(r, from, fields) == [f \in DOMAIN r |-> IF f \in fields THEN from[f] ELSE r[f]]
Authority == {"username", "password", "host", "port"}

-----------------------------------------------------------------------------

parse_scheme_start ==
    /\ state = "scheme_start"
    /\ \/ /\ byte \in Alpha
          /\ buffer' = Append(buffer, Lower(byte))
          /\ state' = "scheme"
          /\ Increment(it)
       \/ /\ byte \notin Alpha /\ state_override = None
          /\ state' = "no_scheme"
          /\ Continue(0)
          /\ UNCHANGED buffer
       \/ /\ byte \notin Alpha /\ state_override # None
          /\ Return("invalid_scheme_character")
          /\ UNCHANGED <<state, buffer>>
    /\ UNCHANGED <<url, flags>>

\* Any scheme may become special.
cannot_override_schemeAcross ==
    \/ (includes_credentials(url) \/ url.port # <<>>) /\ buffer = <<"file">>
    \/ url.scheme = <<"file">> /\ url.host \in {<<>>, <<Empty>>}

cannot_override_scheme ==
    \/ Special # is_special(buffer)
    \/ (includes_credentials(url) \/ url.port # <<>>) /\ buffer = <<"file">>
    \/ url.scheme = <<"file">> /\ url.host \in {<<>>, <<Empty>>}

OverriddenPort == IF url.port = default_port(buffer) THEN <<>> ELSE url.port

SchemeOverridden ==
    /\ IF cannot_override_scheme
       THEN Return("cannot_override_scheme") /\ UNCHANGED url
       ELSE Return("success") /\ url' = [url EXCEPT !.scheme = buffer, !.port = OverriddenPort]
    /\ UNCHANGED <<state, buffer>>

SchemeRead ==
    /\ buffer' = <<>>
    /\ LET r == [url EXCEPT !.scheme = buffer]
           Goto(s, i) == state' = s /\ url' = r /\ Increment(i)
       IN  \/ /\ buffer = <<"file">>
              /\ Goto("file", it)
           \/ /\ buffer # <<"file">> /\ is_special(buffer)
              /\ Goto(IF base # <<>> /\ base[1].scheme = buffer
                      THEN "special_relative_or_authority"
                      ELSE "special_authority_slashes", it)
           \/ /\ ~is_special(buffer) /\ remaining_starts_with(<<"/">>)
              /\ Goto("path_or_authority", it + 1)
           \/ /\ ~is_special(buffer) /\ ~remaining_starts_with(<<"/">>)
              /\ state' = "cannot_be_a_base_url_path"
              /\ url' = [r EXCEPT !.cannot_be_a_base_url = TRUE, !.path = Append(@, <<>>)]
              /\ Increment(it)

parse_scheme ==
    /\ state = "scheme"
    /\ LET part == byte \in Alpha \cup Digits \cup {"+", "-", "."}
       IN  \/ /\ part
              /\ buffer' = Append(buffer, Lower(byte))
              /\ Increment(it)
              /\ UNCHANGED <<url, state>>
           \/ byte = ":" /\ state_override # None /\ SchemeOverridden
           \/ byte = ":" /\ state_override = None /\ SchemeRead
           \/ /\ ~part /\ byte # ":" /\ state_override = None
              /\ buffer' = <<>>
              /\ state' = "no_scheme"
              /\ Continue(0)
              /\ UNCHANGED url
           \/ /\ ~part /\ byte # ":" /\ state_override # None
              /\ Return("invalid_scheme_character")
              /\ UNCHANGED <<url, state, buffer>>
    /\ UNCHANGED flags

parse_no_scheme ==
    /\ state = "no_scheme"
    /\ \/ /\ base # <<>> => base[1].cannot_be_a_base_url /\ byte # "#"
          /\ Return("not_an_absolute_url_with_fragment")
          /\ UNCHANGED <<url, state>>
       \/ /\ base # <<>> /\ base[1].cannot_be_a_base_url /\ byte = "#"
          /\ url' = [With(url, base[1], {"scheme", "path", "query"})
                        EXCEPT !.fragment = << <<>> >>, !.cannot_be_a_base_url = TRUE]
          /\ state' = "fragment"
          /\ Increment(it)
       \/ /\ base # <<>> /\ ~base[1].cannot_be_a_base_url
          /\ state' = IF base[1].scheme = <<"file">> THEN "file" ELSE "relative"
          /\ Continue(0)
          /\ UNCHANGED url
    /\ UNCHANGED <<buffer, flags>>

parse_special_relative_or_authority ==
    /\ state = "special_relative_or_authority"
    /\ IF byte = "/" /\ remaining_starts_with(<<"/">>)
       THEN state' = "special_authority_ignore_slashes" /\ Increment(it + 1)
       ELSE state' = "relative" /\ Increment(it - 1)
    /\ UNCHANGED <<url, buffer, flags>>

parse_path_or_authority ==
    /\ state = "path_or_authority"
    /\ IF byte = "/"
       THEN state' = "authority" /\ Increment(it)
       ELSE state' = "path" /\ Increment(it - 1)
    /\ UNCHANGED <<url, buffer, flags>>

parse_relative ==
    /\ state = "relative"
    /\ LET r == [url EXCEPT !.scheme = base[1].scheme]
           all == With(r, base[1], Authority \cup {"path", "query"})
           special == is_special(r.scheme)
       IN  \/ /\ is_eof
              /\ url' = all
              /\ Increment(it)
              /\ UNCHANGED state
           \/ /\ byte = "/" \/ (special /\ byte = "\\")
              /\ url' = r
              /\ state' = "relative_slash"
              /\ Increment(it)
           \/ /\ byte = "?"
              /\ url' = [all EXCEPT !.query = << <<>> >>]
              /\ state' = "query"
              /\ Increment(it)
           \/ /\ byte = "#"
              /\ url' = [all EXCEPT !.fragment = << <<>> >>]
              /\ state' = "fragment"
              /\ Increment(it)
           \/ /\ ~is_eof /\ byte \notin {"/", "?", "#"} /\ ~(special /\ byte = "\\")
              /\ url' = [With(r, base[1], Authority)
                           EXCEPT !.path = IF base[1].path = <<>> THEN <<>> ELSE Front(base[1].path)]
              /\ state' = "path"
              /\ Reread
    /\ UNCHANGED <<buffer, flags>>

parse_relative_slash ==
    /\ state = "relative_slash"
    /\ \/ /\ Special /\ byte \in {"/", "\\"}
          /\ state' = "special_authority_ignore_slashes"
          /\ Increment(it)
          /\ UNCHANGED url
       \/ /\ ~Special /\ byte = "/"
          /\ state' = "authority"
          /\ Increment(it)
          /\ UNCHANGED url
       \/ /\ ~Slash
          /\ url' = With(url, base[1], Authority)
          /\ state' = "path"
          /\ Increment(it - 1)
    /\ UNCHANGED <<buffer, flags>>

parse_special_authority_slashes ==
    /\ state = "special_authority_slashes"
    /\ state' = "special_authority_ignore_slashes"
    /\ IF byte = "/" /\ remaining_starts_with(<<"/">>) THEN Increment(it + 1) ELSE Increment(it - 1)
    /\ UNCHANGED <<url, buffer, flags>>

\* A byte that is no slash is read again in the same state.
parse_special_authority_ignore_slashesAgain ==
    /\ state = "special_authority_ignore_slashes"
    /\ IF byte \in {"/", "\\"} THEN Increment(it) ELSE Increment(it - 1)
    /\ UNCHANGED <<url, state, buffer, flags>>

parse_special_authority_ignore_slashes ==
    /\ state = "special_authority_ignore_slashes"
    /\ IF byte \in {"/", "\\"}
       THEN Increment(it) /\ UNCHANGED state
       ELSE Increment(it - 1) /\ state' = "authority"
    /\ UNCHANGED <<url, buffer, flags>>

\* What a run of userinfo adds to the name and to the password.
ReadUserinfo ==
    LET text == (IF at_flag THEN <<"%40">> ELSE <<>>) \o buffer
        colon == Find(text, ":")
        cut == IF password_token_seen_flag THEN 0 ELSE IF colon = 0 THEN Len(text) + 1 ELSE colon
    IN  /\ url' = [url EXCEPT
                     !.username = @ \o percent_encode(SubSeq(text, 1, cut - 1), userinfo_bytes),
                     !.password = @ \o percent_encode(SubSeq(text, cut + 1, Len(text)), userinfo_bytes)]
        /\ password_token_seen_flag' = (password_token_seen_flag \/ colon # 0)

parse_authority ==
    /\ state = "authority"
    /\ \/ /\ byte = "@"
          /\ ReadUserinfo
          /\ at_flag' = TRUE
          /\ buffer' = <<>>
          /\ Increment(it)
          /\ UNCHANGED <<state, square_braces_flag>>
       \/ /\ EndOfAuthority /\ at_flag /\ buffer = <<>>
          /\ Return("empty_hostname")
          /\ UNCHANGED <<url, state, buffer, flags>>
       \/ /\ EndOfAuthority /\ ~(at_flag /\ buffer = <<>>)
          /\ state' = "host"
          /\ buffer' = <<>>
          /\ Increment(it - Len(buffer) - 1)
          /\ UNCHANGED <<url, flags>>
       \/ /\ byte # "@" /\ ~EndOfAuthority
          /\ buffer' = Append(buffer, byte)
          /\ Increment(it)
          /\ UNCHANGED <<url, state, flags>>

\* The host is read: it is stored, or its error returned.
TakeHost(next, outcome) ==
    LET h == parse_host(buffer, ~Special)
    IN  IF h.host = <<>>
        THEN Return(h.error) /\ UNCHANGED <<url, state, buffer>>
        ELSE /\ url' = [url EXCEPT !.host = h.host]
             /\ buffer' = <<>>
             /\ state' = next
             /\ outcome

parse_hostname ==
    /\ state \in {"host", "hostname"}
    /\ \/ /\ state_override # None /\ url.scheme = <<"file">>
          /\ state' = "file_host"
          /\ Reread
          /\ UNCHANGED <<url, buffer, flags>>
       \/ /\ state_override # None => url.scheme # <<"file">>
          /\ \/ /\ byte = ":" /\ ~square_braces_flag
                /\ IF buffer = <<>>
                   THEN Return("empty_hostname") /\ UNCHANGED <<url, state, buffer>>
                   ELSE TakeHost("port", IF state_override = "hostname"
                                         THEN Return("success") ELSE Increment(it))
                /\ UNCHANGED flags
             \/ /\ EndOfAuthority /\ buffer = <<>>
                /\ \/ Special /\ Return("empty_hostname")
                   \/ /\ ~Special /\ state_override # None
                      /\ includes_credentials(url) \/ url.port # <<>>
                      /\ Return("success")
                /\ UNCHANGED <<url, state, buffer, flags>>
             \/ /\ EndOfAuthority
                /\ buffer = <<>> => /\ ~Special
                                    /\ state_override # None =>
                                          ~includes_credentials(url) /\ url.port = <<>>
                /\ TakeHost("path_start", IF state_override # None
                                          THEN Return("success") ELSE Increment(it - 1))
                /\ UNCHANGED flags
             \/ /\ ~EndOfAuthority /\ (byte = ":" => square_braces_flag)
                /\ buffer' = Append(buffer, byte)
                /\ square_braces_flag' = (byte = "[" \/ (square_braces_flag /\ byte # "]"))
                /\ Increment(it)
                /\ UNCHANGED <<url, state, at_flag, password_token_seen_flag>>

StorePort ==
    LET port == port_number(buffer)
    IN  url' = [url EXCEPT !.port = IF port = default_port(url.scheme) THEN <<>> ELSE port]

parse_port ==
    /\ state = "port"
    /\ LET ends == EndOfAuthority \/ state_override # None
           outcome == /\ IF state_override # None
                         THEN Return("success") /\ UNCHANGED state
                         ELSE Increment(it - 1) /\ state' = "path_start"
       IN  \/ /\ byte \in Digits
              /\ buffer' = Append(buffer, byte)
              /\ Increment(it)
              /\ UNCHANGED <<url, state>>
           \/ /\ byte \notin Digits /\ ends
              /\ \/ buffer = <<>> /\ outcome /\ UNCHANGED <<url, buffer>>
                 \/ /\ buffer # <<>> /\ port_number(buffer) = <<>>
                    /\ Return("invalid_port")
                    /\ UNCHANGED <<url, state, buffer>>
                 \/ /\ buffer # <<>> /\ port_number(buffer) # <<>>
                    /\ StorePort
                    /\ buffer' = <<>>
                    /\ outcome
           \/ /\ byte \notin Digits /\ ~ends
              /\ Return("invalid_port")
              /\ UNCHANGED <<url, state, buffer>>
    /\ UNCHANGED flags

parse_file ==
    /\ state = "file"
    /\ LET r == [url EXCEPT !.scheme = <<"file">>, !.host = <<Empty>>]
           based == base # <<>> /\ base[1].scheme = <<"file">>
           all == With(r, base[1], {"host", "path", "query"})
           cut == IF is_windows_drive_letter(remaining) THEN <<>>
                  ELSE shorten_path(<<"file">>, base[1].path)
       IN  \/ /\ byte \in {"/", "\\"}
              /\ url' = r
              /\ state' = "file_slash"
              /\ Increment(it)
           \/ /\ based /\ byte = "?"
              /\ url' = [all EXCEPT !.query = << <<>> >>]
              /\ state' = "query"
              /\ Increment(it)
           \/ /\ based /\ byte = "#"
              /\ url' = [all EXCEPT !.fragment = << <<>> >>]
              /\ state' = "fragment"
              /\ Increment(it)
           \/ /\ based /\ byte \notin {"/", "\\", "?", "#"}
              /\ url' = [all EXCEPT !.query = <<>>, !.path = cut]
              /\ state' = "path"
              /\ Reread
           \/ /\ ~based /\ byte \notin {"/", "\\"}
              /\ url' = r
              /\ state' = "path"
              /\ Reread
    /\ UNCHANGED <<buffer, flags>>

parse_file_slash ==
    /\ state = "file_slash"
    /\ \/ /\ byte \in {"/", "\\"}
          /\ state' = "file_host"
          /\ Increment(it)
          /\ UNCHANGED url
       \/ /\ byte \notin {"/", "\\"}
          /\ state' = "path"
          /\ Increment(it - 1)
          /\ IF base # <<>> /\ base[1].scheme = <<"file">>
             THEN IF /\ ~is_windows_drive_letter(remaining)
                     /\ base[1].path # <<>> /\ is_windows_drive_letter(base[1].path[1])
                  THEN url' = [url EXCEPT !.path = Append(@, base[1].path[1])]
                  ELSE url' = [url EXCEPT !.host = base[1].host]
             ELSE UNCHANGED url
    /\ UNCHANGED <<buffer, flags>>

parse_file_host ==
    /\ state = "file_host"
    /\ LET ends == is_eof \/ byte \in {"/", "\\", "?", "#"}
           drive == state_override = None /\ is_windows_drive_letter(buffer)
           h == parse_host(buffer, ~Special)
           local == h.host # <<>> /\ serialize_host(h.host[1]) \in {<<>>, <<"localhost">>}
       IN  \/ /\ ends /\ drive
              /\ state' = "path"
              /\ Increment(it - 1)
              /\ UNCHANGED <<url, buffer>>
           \/ /\ ends /\ ~drive /\ h.host = <<>>
              /\ Return(h.error)
              /\ UNCHANGED <<url, state, buffer>>
           \/ /\ ends /\ ~drive /\ h.host # <<>>
              /\ url' = [url EXCEPT !.host = IF local THEN <<Empty>> ELSE h.host]
              /\ buffer' = <<>>
              /\ state' = "path_start"
              /\ IF state_override # None THEN Return("success") ELSE Increment(it - 1)
           \/ /\ ~ends
              /\ buffer' = Append(buffer, byte)
              /\ Increment(it)
              /\ UNCHANGED <<url, state>>
    /\ UNCHANGED flags

parse_path_start ==
    /\ state = "path_start"
    /\ \/ /\ Special \/ (~is_eof /\ (state_override = None => byte \notin {"?", "#"}))
          /\ state' = "path"
          /\ IF Slash THEN Increment(it) ELSE Reread
          /\ UNCHANGED url
       \/ /\ ~Special /\ state_override = None /\ byte = "?"
          /\ url' = [url EXCEPT !.query = << <<>> >>]
          /\ state' = "query"
          /\ Increment(it)
       \/ /\ ~Special /\ state_override = None /\ byte = "#"
          /\ url' = [url EXCEPT !.fragment = << <<>> >>]
          /\ state' = "fragment"
          /\ Increment(it)
       \/ /\ ~Special /\ is_eof
          /\ Increment(it)
          /\ UNCHANGED <<url, state>>
    /\ UNCHANGED <<buffer, flags>>

\* The record after the segment in the buffer.
SegmentRead ==
    LET drive == url.scheme = <<"file">> /\ url.path = <<>> /\ is_windows_drive_letter(buffer)
        shorter == shorten_path(url.scheme, url.path)
    IN  CASE is_double_dot_path_segment(buffer) ->
               [url EXCEPT !.path = IF Slash THEN shorter ELSE Append(shorter, <<>>)]
          [] is_single_dot_path_segment(buffer) ->
               [url EXCEPT !.path = IF Slash THEN @ ELSE Append(@, <<>>)]
          [] drive ->
               [url EXCEPT !.host = <<Empty>>, !.path = << [buffer EXCEPT ![2] = ":"] >>]
          [] OTHER ->
               [url EXCEPT !.path = Append(@, buffer)]

\* "?" and "#" end the path; the first starts the query, the second the fragment.
EndPath(r) ==
    IF byte = "?" THEN [r EXCEPT !.query = << <<>> >>]
    ELSE IF byte = "#" THEN [r EXCEPT !.fragment = << <<>> >>]
    ELSE r

\* "?" ends the path also when only the path is to be set.
PathEndsAnyway == is_eof \/ Slash \/ byte \in {"?", "#"}

PathEnds == is_eof \/ Slash \/ (state_override = None /\ byte \in {"?", "#"})

parse_path ==
    /\ state = "path"
    /\ \/ /\ PathEnds
          /\ LET r == SegmentRead
                 trimmed == [r EXCEPT !.path = trim_path(@)]
             IN  url' = EndPath(IF r.scheme = <<"file">> /\ ~Slash THEN trimmed ELSE r)
          /\ state' = CASE byte = "?" -> "query" [] byte = "#" -> "fragment" [] OTHER -> state
          /\ buffer' = <<>>
          /\ Increment(it)
       \/ /\ ~PathEnds
          /\ buffer' = Append(buffer, percent_encode_byte(byte, path_bytes))
          /\ Increment(it)
          /\ UNCHANGED <<url, state>>
    /\ UNCHANGED flags

parse_cannot_be_a_base_url ==
    /\ state = "cannot_be_a_base_url_path"
    /\ url' = IF is_eof \/ byte \in {"?", "#"} THEN EndPath(url)
              ELSE [url EXCEPT !.path[1] = Append(@, byte)]
    /\ state' = CASE byte = "?" -> "query" [] byte = "#" -> "fragment" [] OTHER -> state
    /\ Increment(it)
    /\ UNCHANGED <<buffer, flags>>

parse_query ==
    /\ state = "query"
    /\ LET bytes == query_bytes \cup (IF Special THEN {"'"} ELSE {})
           hash == state_override = None /\ byte = "#"
       IN  /\ url' = IF hash THEN [url EXCEPT !.fragment = << <<>> >>]
                     ELSE IF is_eof THEN url
                     ELSE [url EXCEPT !.query[1] = Append(@, percent_encode_byte(byte, bytes))]
           /\ state' = IF hash THEN "fragment" ELSE state
    /\ Increment(it)
    /\ UNCHANGED <<buffer, flags>>

parse_fragment ==
    /\ state = "fragment"
    /\ url' = IF is_eof THEN url
              ELSE [url EXCEPT !.fragment[1] = Append(@, percent_encode_byte(byte, fragment_bytes))]
    /\ Increment(it)
    /\ UNCHANGED <<state, buffer, flags>>

-----------------------------------------------------------------------------

\* parse_next(): one byte in the current state.
parse_next ==
    /\ result = "parsing"
    /\ \/ parse_scheme_start
       \/ parse_scheme
       \/ parse_no_scheme
       \/ parse_special_relative_or_authority
       \/ parse_path_or_authority
       \/ parse_relative
       \/ parse_relative_slash
       \/ parse_special_authority_slashes
       \/ parse_special_authority_ignore_slashes
       \/ parse_authority
       \/ parse_hostname
       \/ parse_port
       \/ parse_file
       \/ parse_file_slash
       \/ parse_file_host
       \/ parse_path_start
       \/ parse_path
       \/ parse_cannot_be_a_base_url
       \/ parse_query
       \/ parse_fragment
    /\ odd' = ~odd
    /\ UNCHANGED arguments

\* basic_parse(): a new context for its arguments.
basic_parse(text, b, r, override) ==
    /\ input' = text
    /\ base' = b
    /\ state_override' = override
    /\ it' = 0
    /\ url' = r
    /\ state' = IF override = None THEN "scheme_start" ELSE override
    /\ buffer' = <<>>
    /\ at_flag' = FALSE
    /\ square_braces_flag' = FALSE
    /\ password_token_seen_flag' = FALSE
    /\ result' = "parsing"
    /\ odd' = FALSE

=============================================================================
