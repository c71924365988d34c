---------------------------- MODULE UrlContainers ----------------------------
(***************************************************************************)
(* A url that is edited through its containers, normalized and resolved,   *)
(* besides being changed by the modifiers of UrlBase: one action for every *)
(* member of segments_ref, segments_encoded_ref, params_ref and            *)
(* params_encoded_ref that changes the url, for every normalize_* member   *)
(* and for resolve().                                                      *)
(*                                                                         *)
(* Calls also gives the arguments of these members, and the text of the    *)
(* references that resolve() may be called with.  An iterator is the one   *)
(* that begin() and ++ give for an index.                                  *)
(***************************************************************************)
EXTENDS UrlBase, UrlNormalize

Keep(r) == u' = Commit(u, r.u)
SegmentAt(i) == seg_nth(u, i)
ParamAt(i) == param_nth(u, i)

-----------------------------------------------------------------------------
\* The containers, as a caller sees them.

Splice(s, i, j, new) == Take(s, i) \o new \o Drop(s, j)

Param(text) ==
    IF find(text, "=") = 0 THEN <<decode(text)>>
    ELSE <<decode(Take(text, find(text, "=") - 1)), decode(Drop(text, find(text, "=")))>>
Params(v) ==
    IF len(v, id_query) = 0 THEN <<>>
    ELSE LET ts == SplitAt(Drop(get(v, id_query), 1), "&") IN [i \in 1..Len(ts) |-> Param(ts[i])]

\* The edits of segments that keep the count of segments right.  An edit of
\* nothing at the front writes a prefix all the same, a "." that comes to be the
\* first of several segments is taken for a prefix, unless it is the first of
\* several new ones, and an empty segment that is left alone in "/" is counted.
KeepsCount(i, j, ss) ==
    LET new == Splice(Segments(path(u)), i, j, ss)
    IN  /\ j = 0 => ss # <<>>
        /\ Len(new) > 1 /\ IsDot(new[1]) => i = 0 /\ Len(ss) > 1
        /\ new = <<<<>>>> /\ i > 0 => path_prefix(path(u)) > 1

SegmentsInsert == Within /\ \E s \in Args("segments_insert"), i \in 0..u.nseg_ :
    KeepsCount(i, i, <<s>>) /\ Keep(segments_insert(u, SegmentAt(i), s))
SegmentsInsertRange == Within /\ \E ss \in Args("segments_insert_range"), i \in 0..u.nseg_ :
    KeepsCount(i, i, ss) /\ Keep(segments_insert_range(u, SegmentAt(i), ss))
SegmentsErase == Within /\ <<"segments_erase">> \in Calls /\ \E i, j \in 0..u.nseg_ :
    i < j /\ KeepsCount(i, j, <<>>) /\ Keep(segments_erase(u, SegmentAt(i), SegmentAt(j)))
SegmentsReplaceAt == Within /\ \E s \in Args("segments_replace_at"), i \in 0..(u.nseg_ - 1) :
    KeepsCount(i, i + 1, <<s>>) /\ Keep(segments_replace_at(u, SegmentAt(i), s))
SegmentsReplace == Within /\ \E ss \in Args("segments_replace"), i, j \in 0..u.nseg_ :
    i <= j /\ KeepsCount(i, j, ss) /\ Keep(segments_replace(u, SegmentAt(i), SegmentAt(j), ss))
SegmentsAssign == Within /\ \E ss \in Args("segments_assign") :
    KeepsCount(0, u.nseg_, ss) /\ Keep(segments_assign(u, ss))
SegmentsPushBack == Within /\ \E s \in Args("segments_push_back") :
    KeepsCount(u.nseg_, u.nseg_, <<s>>) /\ Keep(segments_push_back(u, s))
SegmentsPopBack == Within /\ <<"segments_pop_back">> \in Calls /\ u.nseg_ > 0
    /\ KeepsCount(u.nseg_ - 1, u.nseg_, <<>>) /\ Keep(segments_pop_back(u))
SegmentsClear == Within /\ <<"segments_clear">> \in Calls /\ u.nseg_ > 0 /\ Keep(segments_clear(u))

EncodedSegmentsInsert == Within /\ \E s \in Args("encoded_segments_insert"), i \in 0..u.nseg_ :
    KeepsCount(i, i, <<s>>) /\ Keep(encoded_segments_insert(u, SegmentAt(i), s))
EncodedSegmentsReplaceAt ==
    Within /\ \E s \in Args("encoded_segments_replace_at"), i \in 0..(u.nseg_ - 1) :
        KeepsCount(i, i + 1, <<s>>) /\ Keep(encoded_segments_replace_at(u, SegmentAt(i), s))
EncodedSegmentsReplace ==
    Within /\ \E ss \in Args("encoded_segments_replace"), i, j \in 0..u.nseg_ :
        i <= j /\ KeepsCount(i, j, ss)
        /\ Keep(encoded_segments_replace(u, SegmentAt(i), SegmentAt(j), ss))
EncodedSegmentsAssign == Within /\ \E ss \in Args("encoded_segments_assign") :
    KeepsCount(0, u.nseg_, ss) /\ Keep(encoded_segments_assign(u, ss))

-----------------------------------------------------------------------------
ParamsInsert == Within /\ \E ps \in Args("params_insert"), i \in 0..u.nparam_ :
    Keep(params_insert(u, ParamAt(i), ps))
ParamsReplace == Within /\ \E ps \in Args("params_replace"), i, j \in 0..u.nparam_ :
    i <= j /\ Keep(params_replace(u, ParamAt(i), ParamAt(j), ps))
ParamsReplaceAt == Within /\ \E p \in Args("params_replace_at"), i \in 0..(u.nparam_ - 1) :
    Keep(params_replace_at(u, ParamAt(i), p))
ParamsAssign == Within /\ \E ps \in Args("params_assign") : Keep(params_assign(u, ps))
ParamsAppend == Within /\ \E ps \in Args("params_append") : Keep(params_append(u, ps))
ParamsErase == Within /\ <<"params_erase">> \in Calls /\ \E i, j \in 0..u.nparam_ :
    i <= j /\ Keep(params_erase(u, ParamAt(i), ParamAt(j)))
ParamsUnsetAt == Within /\ <<"params_unset_at">> \in Calls /\ \E i \in 0..(u.nparam_ - 1) :
    Keep(params_unset_at(u, ParamAt(i)))
ParamsSetAt == Within /\ \E v \in Args("params_set_at"), i \in 0..(u.nparam_ - 1) :
    Keep(params_set_at(u, ParamAt(i), v))

EncodedParamsInsert == Within /\ \E ps \in Args("encoded_params_insert"), i \in 0..u.nparam_ :
    Keep(encoded_params_insert(u, ParamAt(i), ps))
EncodedParamsReplace ==
    Within /\ \E ps \in Args("encoded_params_replace"), i, j \in 0..u.nparam_ :
        i <= j /\ Keep(encoded_params_replace(u, ParamAt(i), ParamAt(j), ps))
EncodedParamsAssign == Within /\ \E ps \in Args("encoded_params_assign") :
    Keep(encoded_params_assign(u, ps))
EncodedParamsSetAt == Within /\ \E v \in Args("encoded_params_set_at"), i \in 0..(u.nparam_ - 1) :
    Keep(encoded_params_set_at(u, ParamAt(i), v))

\* The members that look for a key; the argument is <<key, ic>> or
\* <<key, value, ic>>.
ParamsEraseKey == Within /\ \E a \in Args("params_erase_key") :
    u' = Commit(u, params_erase_key(u, a[1], a[2]))
EncodedParamsEraseKey == Within /\ \E a \in Args("encoded_params_erase_key") :
    u' = Commit(u, encoded_params_erase_key(u, a[1], a[2]))
ParamsSetKey == Within /\ \E a \in Args("params_set_key") :
    KeyIsFoundAgain(a[2]) /\ Keep(params_set_key(u, a[1], a[2], a[3]))
EncodedParamsSetKey == Within /\ \E a \in Args("encoded_params_set_key") :
    KeyIsFoundAgain(a[2]) /\ Keep(encoded_params_set_key(u, a[1], a[2], a[3]))

-----------------------------------------------------------------------------
\* Dot segments as RFC 3986 5.2.4 means them, on the segments of a path: "."
\* goes, and ".." goes with the segment in front of it.  Without one it stays
\* (RFC errata 4547).

RawSegments(p) == SplitAt(IF StartsWith(p, <<"/">>) THEN Drop(p, 1) ELSE p, "/")
Removes(stack, s) == s = DotDot /\ stack # <<>> /\ Last(stack) # DotDot
Push(stack, s) ==
    IF IsDot(s) THEN stack ELSE IF Removes(stack, s) THEN Front(stack) ELSE Append(stack, s)
NormalSegments(raw) ==
    LET before == FoldLeft(Push, <<>>, Front(raw))
        last == Last(raw)
    IN  IF IsDot(last) \/ Removes(before, last) THEN Append(Push(before, last), <<>>)
        ELSE Push(before, last)

\* The path with these segments, and with the prefix or the escapes that keep
\* it from reading as something else.
PathText(v, absolute, segs) ==
    LET hide == Len(segs) > 1 /\ segs[1] = <<>> /\ ~has_authority(v)
        colons == ~absolute /\ ~has_scheme(v) /\ ~has_authority(v)
        first == IF colons THEN encode(segs[1], Special \ {":"}) ELSE segs[1]
    IN  SlashIf(absolute) \o (IF hide THEN DotSlash ELSE <<>>) \o Join(<<first>> \o Tail(segs), "/")
NormalPath(v, p) ==
    PathText(v, StartsWith(p, <<"/">>), NormalSegments(RawSegments(normal_octets(p, segment_chars))))

\* Paths that normalize_path() does not bring to that form.  When ".." removes
\* the first segment the code does not look at the segment that comes to be
\* the first: an empty one, ".", or one with a colon.  With a scheme, ".//"
\* loses its empty segment.
FirstIsExposed(raw) ==
    \E k \in 2..(Len(raw) - 1) :
        /\ raw[k] = DotDot /\ FoldLeft(Push, <<>>, Take(raw, k)) = <<>>
        /\ raw[k + 1] = <<>> \/ IsDot(raw[k + 1]) \/ HasColon(raw[k + 1])
Exposes(v, q) ==
    \/ FirstIsExposed(RawSegments(q))
    \/ has_scheme(v) /\ StartsWith(q, DotSlash) /\ StartsWith(strip_dots(q), <<"/">>)

\* The path keeps a prefix.  The count of segments then includes it, and ".."
\* does not remove the empty segment behind it.
KeepsPrefix(v, q) == skip_dot(v, q) > 0

Normalizes(v, p) ==
    LET q == normal_octets(p, segment_chars) IN ~Exposes(v, q) /\ ~KeepsPrefix(v, q)

\* A query that normalize_query() does not divide into other params.
SafeQuery(v) == Count(normal_octets(query(v), query_chars), "&") = Count(query(v), "&")

\* A modifier of several steps leaves what the steps before the one that
\* throws have done.
Reach(t) == u' = t.u

NormalizeScheme == Within /\ <<"normalize_scheme">> \in Calls /\ Keep(Start(normalize_scheme(u)))
NormalizeAuthority ==
    Within /\ <<"normalize_authority">> \in Calls /\ Keep(Start(normalize_authority(u)))
NormalizePath == Within /\ <<"normalize_path">> \in Calls /\ Normalizes(u, path(u))
    /\ Reach(normalize_path(Start(u), Capacity))
NormalizeQuery == Within /\ <<"normalize_query">> \in Calls /\ SafeQuery(u)
    /\ Keep(Start(normalize_query(u)))
NormalizeFragment ==
    Within /\ <<"normalize_fragment">> \in Calls /\ Keep(Start(normalize_fragment(u)))
Normalize == Within /\ <<"normalize">> \in Calls /\ Normalizes(u, path(u)) /\ SafeQuery(u)
    /\ Reach(normalize(u, Capacity))

-----------------------------------------------------------------------------
\* RFC 3986 5.2.2, on the text of the parts.

OtherScheme(v, ref) == has_scheme(ref) /\ get(ref, id_scheme) # get(v, id_scheme)
MergedPath(v, ref) ==
    IF has_authority(v) /\ path(v) = <<>> THEN <<"/">> \o path(ref)
    ELSE Take(path(v), last_slash(path(v))) \o path(ref)
TargetPath(v, ref) ==
    CASE OtherScheme(v, ref) \/ has_authority(ref) \/ StartsWith(path(ref), <<"/">>) -> path(ref)
      [] path(ref) = <<>> -> path(v)
      [] OTHER -> MergedPath(v, ref)

\* The text of the target.  A reference with an empty path leaves the fragment
\* of the base in place when it has none, which RFC 3986 does not.
KeepsTail(v, ref) == ~OtherScheme(v, ref) /\ ~has_authority(ref) /\ path(ref) = <<>>
Target(v, ref) ==
    LET base == IF OtherScheme(v, ref) THEN ref ELSE v
        front == IF has_authority(ref) THEN ref ELSE base
        Tail2(id) == IF get(ref, id) = <<>> /\ KeepsTail(v, ref) THEN get(v, id) ELSE get(ref, id)
    IN  get(base, id_scheme) \o get2(front, id_user, id_path)
            \o NormalPath(front, TargetPath(v, ref)) \o Tail2(id_query) \o Tail2(id_frag)

\* Outside of the cases that normalize_path() gets wrong.  An authority that
\* relative_part_rule accepts in front of a relative path is left out too.
FrontOf(v, ref) == IF OtherScheme(v, ref) \/ has_authority(ref) THEN ref ELSE v
Resolves(v, ref) ==
    /\ Normalizes(FrontOf(v, ref), TargetPath(v, ref))
    /\ has_authority(ref) => path(ref) = <<>> \/ is_path_absolute(ref)

Resolve == Within /\ \E ref \in {parse_uri_reference(s).u : s \in Args("resolve")} :
    Resolves(u, ref) /\ Reach(resolve(u, ref, Capacity))

EditNext ==
    \/ SegmentsInsert \/ SegmentsInsertRange \/ SegmentsErase
    \/ SegmentsReplaceAt \/ SegmentsReplace \/ SegmentsAssign
    \/ SegmentsPushBack \/ SegmentsPopBack \/ SegmentsClear
    \/ EncodedSegmentsInsert \/ EncodedSegmentsReplaceAt
    \/ EncodedSegmentsReplace \/ EncodedSegmentsAssign
    \/ ParamsInsert \/ ParamsReplace \/ ParamsReplaceAt \/ ParamsAssign
    \/ ParamsAppend \/ ParamsErase \/ ParamsUnsetAt \/ ParamsSetAt
    \/ EncodedParamsInsert \/ EncodedParamsReplace \/ EncodedParamsAssign
    \/ EncodedParamsSetAt
    \/ ParamsEraseKey \/ EncodedParamsEraseKey \/ ParamsSetKey \/ EncodedParamsSetKey
    \/ NormalizeScheme \/ NormalizeAuthority \/ NormalizePath \/ NormalizeQuery
    \/ NormalizeFragment \/ Normalize \/ Resolve

SpecEdit == Init /\ [][EditNext \/ Clear]_u
-----------------------------------------------------------------------------
\* Properties

\* Everything that an edit of the path, or of the query, leaves alone.
AroundPath(v) ==
    [Components(v) EXCEPT !.segments = <<>>, !.absolute = FALSE]
AroundQuery(v) == [Components(v) EXCEPT !.query = <<>>]

\* r is the result of an edit that replaces the segments from i to j by ss.
SplicesSegments(r, i, j, ss) ==
    LET new == Splice(PathSegments(u), i, j, ss)
    IN  r.u.reserved <= Capacity =>
          /\ PathSegments(r.u) = new
          /\ r.u.nseg_ = Len(new)
          /\ AroundPath(r.u) = AroundPath(u)
          /\ is_path_absolute(r.u) = IF has_authority(u) THEN new # <<>> ELSE is_path_absolute(u)
          /\ r.it.index = i
          /\ i < Len(new) => decode(seg_dereference(r.u, r.it)) = new[i + 1]

\* An edit through segments() or encoded_segments() replaces exactly the
\* segments between its iterators, wherever they are and whatever the segments
\* look like (empty, ".", with a colon or a slash): the prefix that the path
\* gets never becomes part of a segment, nothing else of the url changes, and
\* the iterator returned points to the first new segment.
SegmentEditsSplice ==
    \A i, j \in 0..u.nseg_ : i <= j =>
        LET a == SegmentAt(i)
            b == SegmentAt(j)
            Encoded(ss) == [k \in 1..Len(ss) |-> encode(ss[k], pchars)]
        IN  \A ss \in Args("segments_replace") : KeepsCount(i, j, ss) =>
                /\ SplicesSegments(segments_replace(u, a, b, ss), i, j, ss)
                /\ SplicesSegments(encoded_segments_replace(u, a, b, Encoded(ss)), i, j, ss)

SplicesParams(r, i, j, ps) ==
    LET new == Splice(Params(u), i, j, ps)
    IN  r.u.reserved <= Capacity =>
          /\ Params(r.u) = new
          /\ r.u.nparam_ = Len(new)
          /\ AroundQuery(r.u) = AroundQuery(u)
          /\ r.it = param_nth(r.u, i)
          /\ i < Len(new) => param_dereference(r.u, r.it) = new[i + 1]

\* The same for params() and encoded_params(): also when the edit is at the
\* front, where '?' and '&' change places, and when a value is set or removed
\* behind a key that stays in place.
ParamEditsSplice ==
    \A i, j \in 0..u.nparam_ : i <= j =>
        LET a == ParamAt(i)
            b == ParamAt(j)
            key == <<Params(u)[i + 1][1]>>
        IN  /\ \A ps \in Args("params_replace") :
                  SplicesParams(params_replace(u, a, b, ps), i, j, ps)
            /\ SplicesParams(params_erase(u, a, b), i, j, <<>>)
            /\ j = i + 1 =>
                  /\ SplicesParams(params_unset_at(u, a), i, j, <<key>>)
                  /\ \A v \in Args("params_set_at") :
                        SplicesParams(params_set_at(u, a, v), i, j, <<Append(key, v)>>)

\* The params with and without a key.
WithoutKey(ps, key, ic) == SelectSeq(ps, LAMBDA p : ~SameKey(p[1], key, ic))
WithKey(ps, key, v, ic) ==
    LET ks == {k \in 1..Len(ps) : SameKey(ps[k][1], key, ic)}
        first == Min(ks)
    IN  IF ks = {} THEN Append(ps, <<key, v>>)
        ELSE Take(ps, first - 1) \o <<<<ps[first][1], v>>>> \o WithoutKey(Drop(ps, first), key, ic)

\* What erase(key) and set(key, value) are confused by: a second '=' in a
\* param, which shifts the key that find_last() compares, and a '+' in a key,
\* which erase(key) of params_ref reads as a space from the second match on.
PlainParams == \A i \in 1..u.nparam_ :
    LET text == param_text(u, ParamAt(i - 1).pos)
    IN  Count(text, "=") < 2 /\ "+" \notin Range(text)

SetsKey(r, key, v, ic) ==
    r.u.reserved <= Capacity =>
        /\ Params(r.u) = WithKey(Params(u), key, v, ic) /\ params_count(r.u, key, ic) = 1
        /\ param_dereference(r.u, r.it)[2] = v

\* erase(key) leaves no param with the key and set(key, value) exactly one, in
\* the place of the first; the other params stay, in their order.  Both find
\* their params from the end, by iterators of a query they have edited.
KeysAreErasedAndSet ==
    PlainParams =>
        /\ \A a \in Args("params_erase_key") :
              {Params(params_erase_key(u, a[1], a[2])),
               Params(encoded_params_erase_key(u, encode(a[1], param_key_chars), a[2]))}
              = {WithoutKey(Params(u), a[1], a[2])}
        /\ \A a \in Args("params_set_key") :
              SetsKey(params_set_key(u, a[1], a[2], a[3]), a[1], a[2], a[3])

\* The same url but for its path, its escapes and its capital letters.
Folded(c) ==
    [c EXCEPT !.scheme = [i \in 1..Len(@) |-> LowerCase(@[i])], !.host = LowerCase(@),
              !.segments = <<>>]

IsNormalForm(t) ==
    IF t.threw THEN Components(t.u) = Components(u)
    ELSE /\ path(t.u) = NormalPath(u, path(u))
         /\ Folded(Components(t.u)) = Folded(Components(u))
         /\ normalize(t.u, Capacity) = t

\* normalize() brings the path to the form of RFC 3986, keeps the meaning of
\* every other part, and has nothing left to do when it is called again.  When
\* it throws, for want of room to escape colons, no component has changed.
NormalFormIsReached ==
    Normalizes(u, path(u)) /\ SafeQuery(u) => IsNormalForm(normalize(u, Capacity))

IsTarget(t, ref) == t.threw \/ t.u.cs_ = Target(u, ref)

\* resolve() computes the target of RFC 3986 5.2.2, character by character:
\* the scheme, authority, path and query each from the base or from the
\* reference, the paths merged and their dot segments removed.
ResolveFollowsRFC ==
    has_scheme(u) =>
        \A ref \in {parse_uri_reference(s).u : s \in Args("resolve")} :
            Resolves(u, ref) => IsTarget(resolve(u, ref, Capacity), ref)
=============================================================================
