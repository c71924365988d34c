---------------------------- MODULE UrlNormalize ----------------------------
(***************************************************************************)
(* Syntax-based normalization and reference resolution: the normalize_*    *)
(* members and resolve() of url_base.cpp, and remove_dot_segments() of     *)
(* detail/normalize.cpp.                                                   *)
(*                                                                         *)
(* These modifiers are several steps in a row, any of which may ask for    *)
(* more room than the url can get.  cap is that limit; an operation        *)
(* returns [u |-> url, threw |-> BOOLEAN], with the url as the steps       *)
(* before the one that throws have left it.                                *)
(***************************************************************************)
EXTENDS UrlEdit

Start(u) == [u |-> u, threw |-> FALSE]

\* One step: r is the url that the step computes from t.u.
Step(t, cap, r) ==
    IF t.threw THEN t
    ELSE IF r.reserved > cap THEN [t EXCEPT !.threw = TRUE]
    ELSE Start([r EXCEPT !.reserved = 0])

\* reserve_impl() of the whole operation, before its steps.
Reserve(u, cap, n) == Step(Start(u), cap, reserve_impl(u, n))

-----------------------------------------------------------------------------
\* Octets

reg_name_chars == {"."}

\* Escapes of allowed characters are decoded, the others get capital digits.
NormalOctet(s, i, allowed) ==
    LET e == Upper(SubSeq(s, i, i + 2))
    IN  IF Allowed(Unescape(e), allowed) THEN <<Unescape(e)>> ELSE e
normal_octets(s, allowed) ==
    FlattenSeq([i \in 1..Len(s) |->
        IF InEscape(s, i) THEN <<>>
        ELSE IF s[i] = "%" THEN NormalOctet(s, i, allowed) ELSE <<s[i]>>])

normalize_octets_impl(u, id, allowed) ==
    LET s == normal_octets(get(u, id), allowed)
    IN  resize_impl(Write(u, offset(u, id), s), id, Len(s))

LowerCase(s) == MapChars(s, LAMBDA c : <<to_lower(c)>>)
DecodedLowerCase(s) ==
    [i \in 1..Len(s) |-> IF s[i] = "%" \/ InEscape(s, i) THEN s[i] ELSE to_lower(s[i])]

normalize_scheme(u) == Write(u, 0, LowerCase(get(u, id_scheme)))

normalize_authority(u) ==
    LET u1 == IF u.host_type_ = "name"
              THEN normalize_octets_impl(u, id_host, reg_name_chars) ELSE u
        u2 == Write(u1, offset(u1, id_host), DecodedLowerCase(get(u1, id_host)))
        u3 == normalize_octets_impl(u2, id_pass, password_chars)
    IN  normalize_octets_impl(u3, id_user, user_chars)

normalize_query(u) == normalize_octets_impl(u, id_query, query_chars)
normalize_fragment(u) == normalize_octets_impl(u, id_frag, fragment_chars)

-----------------------------------------------------------------------------
\* remove_dot_segments(), by the rules of RFC 3986 5.2.4 as the code orders
\* them.  The escapes of dots that it also accepts have been decoded by
\* normalize_octets_impl() before.

SlashDot == <<"/", ".">>
DotSlash == <<".", "/">>
DotDot == <<".", ".">>
SlashDotDot == <<"/", ".", ".">>

\* Rule A; "../" is kept (RFC errata 4547).
RECURSIVE rule_a(_, _)
rule_a(out, in) ==
    IF StartsWith(in, DotDot \o <<"/">>) THEN rule_a(out \o Take(in, 3), Drop(in, 3))
    ELSE IF StartsWith(in, DotSlash) THEN rule_a(out, Drop(in, 2))
    ELSE [out |-> out, in |-> in]

\* Rule D.
rule_d(t) ==
    CASE t.in = <<".">> -> [t EXCEPT !.in = <<>>]
      [] t.in = DotDot  -> [out |-> t.out \o DotDot, in |-> <<>>]
      [] OTHER          -> t

last_slash(s) == Max({0} \cup Positions(s, "/"))

\* Rule C: ".." removes the last segment of out, unless that is ".." too or
\* there is none.
drop_last_always(out, absolute) == Take(out, Max({0, last_slash(out) - 1}))
drop_last(out, absolute) ==
    LET p == last_slash(out)
    IN  CASE p > 0 /\ Drop(out, p - 1) # SlashDotDot        -> Take(out, p - 1)
          [] p = 0 /\ out # <<>> /\ out # DotDot            -> <<>>
          [] p = 0 /\ out = <<>> /\ ~absolute               -> DotDot
          [] OTHER                                          -> out \o SlashDotDot

\* A relative path whose only segment was removed loses the '/' after it.
only_segment(out, absolute) ==
    ~absolute /\ last_slash(out) = 0 /\ out \notin {<<>>, DotDot}

\* Rules B, C and E.
RECURSIVE rules_bce(_, _, _)
rules_bce(out, in, absolute) ==
    LET p == IF find(Drop(in, 1), "/") = 0 THEN Len(in) ELSE find(Drop(in, 1), "/")
        dropped == drop_last(out, absolute)
        slash == last_slash(out) > 0 /\ Drop(out, last_slash(out) - 1) # SlashDotDot
    IN  IF in = <<>> THEN out
        ELSE IF StartsWith(in, SlashDot \o <<"/">>) THEN rules_bce(out, Drop(in, 2), absolute)
        ELSE IF in = SlashDot THEN out \o <<"/">>
        ELSE IF StartsWith(in, SlashDotDot \o <<"/">>)
        THEN rules_bce(dropped, Drop(in, IF only_segment(out, absolute) THEN 4 ELSE 3), absolute)
        ELSE IF in = SlashDotDot THEN dropped \o SlashIf(slash)
        ELSE rules_bce(out \o Take(in, p), Drop(in, p), absolute)

after_rule_d(t, absolute) == rules_bce(t.out, t.in, absolute)
remove_dot_segments(s) == after_rule_d(rule_d(rule_a(<<>>, s)), StartsWith(s, <<"/">>))

-----------------------------------------------------------------------------
\* normalize_path()

\* The offset after the "/./" that follow one another from offset k.
RECURSIVE skip_dots(_, _)
skip_dots(p, k) == IF StartsWith(Drop(p, k), <<"/", ".", "/">>) THEN skip_dots(p, k + 2) ELSE k

\* Without its dot segments the path would start with "//".
hides_slashes(p, k) == StartsWith(Drop(p, skip_dots(p, k)), <<"/", "/">>)

\* The characters at the front that stay because of that.
skip_dot(u, p) ==
    CASE has_authority(u) -> 0
      [] ~has_authority(u) /\ StartsWith(p, <<"/", ".", "/">>) ->
            IF hides_slashes(p, 2) THEN 2 ELSE 0
      [] ~has_authority(u) /\ ~has_scheme(u) /\ StartsWith(p, DotSlash) ->
            IF hides_slashes(p, 1) THEN 2 ELSE 0
      [] OTHER -> 0

RECURSIVE strip_dots(_)
strip_dots(p) == IF StartsWith(p, DotSlash) THEN strip_dots(Drop(p, 2)) ELSE p

\* The first segment, when a colon in it must be escaped.
colon_segment(u, p) ==
    LET rest == strip_dots(p)
    IN  IF has_authority(u) \/ has_scheme(u) \/ skip_dot(u, p) > 0 \/ find(rest, "/") = 1
        THEN <<>>
        ELSE IF find(rest, "/") = 0 THEN rest ELSE Take(rest, find(rest, "/") - 1)

escape_colons(u, p, first) ==
    LET k == Len(p) - Len(strip_dots(p))
        e == MapChars(first, LAMBDA c : IF c = ":" THEN Escape[c] ELSE <<c>>)
        s == Take(p, k) \o e \o Drop(p, k + Len(first))
    IN  Write(resize_impl(u, id_path, Len(s)), offset(u, id_path), s)

\* nseg_ counts the slashes after the first character.
normal_nseg(p) == IF p \in {<<>>, <<"/">>} THEN 0 ELSE Count(Drop(p, 1), "/") + 1

without_dots(u, skip) ==
    LET p == path(u)
        q == remove_dot_segments(Drop(p, skip))
        u1 == Write(u, offset(u, id_path) + skip, q)
        u2 == resize_impl(u1, id_path, Len(q) + skip)
    IN  IF Len(q) = Len(p) THEN u1
        ELSE [u2 EXCEPT !.nseg_ = normal_nseg(path(u2)),
                        !.decoded_[id_path] = decoded_size(path(u2))]

path_of_octets(t, cap, p, first) ==
    Step(t, cap, IF HasColon(first) THEN without_dots(escape_colons(t.u, p, first), 0)
                 ELSE without_dots(t.u, skip_dot(t.u, p)))
after_octets(u, cap) == path_of_octets(Start(u), cap, path(u), colon_segment(u, path(u)))
normalize_path(t, cap) ==
    IF t.threw THEN t ELSE after_octets(normalize_octets_impl(t.u, id_path, segment_chars), cap)

\* normalize() goes from the last part to the first.
after_path(t, cap) == Step(t, cap, normalize_scheme(normalize_authority(t.u)))
normalize(u, cap) ==
    after_path(normalize_path(Start(normalize_query(normalize_fragment(u))), cap), cap)

-----------------------------------------------------------------------------
\* resolve(): ref is the url_impl of the reference.

encoded_authority(ref) == Drop(get2(ref, id_user, id_path), 2)
encoded_segments(ref) == [i \in 1..ref.nseg_ |-> seg_dereference(ref, seg_nth(ref, i - 1))]

\* The query and the fragment are those of ref, also when it has none.
take_query(t, ref, cap) ==
    Step(t, cap, IF len(ref, id_query) > 0
                 THEN set_encoded_query(t.u, Drop(get(ref, id_query), 1)) ELSE remove_query(t.u))
take_fragment(t, ref, cap) ==
    Step(t, cap, IF len(ref, id_frag) > 0
                 THEN set_encoded_fragment(t.u, Drop(get(ref, id_frag), 1))
                 ELSE remove_fragment(t.u))
take_tail(t, ref, cap) == take_fragment(take_query(t, ref, cap), ref, cap)

resolve_other_scheme(u, ref, cap) ==
    normalize_path(Step(Reserve(u, cap, size(ref)), cap, ref), cap)

take_authority(t, ref, cap) ==
    Step(t, cap, set_encoded_authority(t.u, encoded_authority(ref)))
take_path(t, ref, cap) == Step(t, cap, set_encoded_path(t.u, path(ref)))
path_of_authority(t, ref, cap) ==
    IF len(ref, id_path) = 0 THEN Step(t, cap, set_path_absolute(t.u, FALSE))
    ELSE normalize_path(t, cap)
with_authority(t, ref, cap) ==
    take_tail(path_of_authority(take_path(take_authority(t, ref, cap), ref, cap), ref, cap),
              ref, cap)
resolve_authority(u, ref, cap) ==
    with_authority(Reserve(u, cap, offset(u, id_user) + size(ref)), ref, cap)

\* An empty reference keeps the query and the fragment.
query_if_any(t, ref, cap) == IF len(ref, id_query) > 0 THEN take_query(t, ref, cap) ELSE t
fragment_if_any(t, ref, cap) == IF len(ref, id_frag) > 0 THEN take_fragment(t, ref, cap) ELSE t
resolve_empty_path(u, ref, cap) ==
    LET t == normalize_path(Reserve(u, cap, offset(u, id_query) + size(ref)), cap)
    IN  fragment_if_any(query_if_any(t, ref, cap), ref, cap)

resolve_absolute_path(u, ref, cap) ==
    LET t == take_path(Reserve(u, cap, offset(u, id_path) + size(ref)), ref, cap)
    IN  take_tail(normalize_path(t, cap), ref, cap)

without_last_never(t, cap) == t
without_last(t, cap) ==
    IF t.u.nseg_ > 0 THEN Step(t, cap, segments_pop_back(t.u).u) ELSE t
append_segments(t, ref, cap) ==
    Step(t, cap, encoded_segments_insert_range(t.u, seg_end(t.u), encoded_segments(ref)).u)
resolve_relative_path(u, ref, cap) ==
    LET t == without_last(Reserve(u, cap, offset(u, id_query) + size(ref)), cap)
    IN  take_tail(normalize_path(append_segments(t, ref, cap), cap), ref, cap)

\* Without a scheme in u the result is the error not_a_base.
resolve(u, ref, cap) ==
    CASE ~has_scheme(u) -> Start(u)
      [] has_scheme(u) /\ has_scheme(ref) /\ get(ref, id_scheme) # get(u, id_scheme) ->
            resolve_other_scheme(u, ref, cap)
      [] has_scheme(u) /\ (has_scheme(ref) => get(ref, id_scheme) = get(u, id_scheme)) ->
            IF has_authority(ref) THEN resolve_authority(u, ref, cap)
            ELSE IF len(ref, id_path) = 0 THEN resolve_empty_path(u, ref, cap)
            ELSE IF is_path_absolute(ref) THEN resolve_absolute_path(u, ref, cap)
            ELSE resolve_relative_path(u, ref, cap)
=============================================================================
