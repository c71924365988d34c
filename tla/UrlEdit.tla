------------------------------- MODULE UrlEdit -------------------------------
(***************************************************************************)
(* Editing a url through its containers of segments and of params:         *)
(* url_base::edit_segments and edit_params, the iterators they take and    *)
(* return (detail/*_iter_impl.cpp), and the members of segments_ref,       *)
(* segments_encoded_ref, params_ref and params_encoded_ref.                *)
(*                                                                         *)
(* As in UrlSetters an operation is a function of the url_impl.  One that  *)
(* returns an iterator returns the pair [u |-> url, it |-> iterator].      *)
(* Offsets in an iterator count from the start of the path or of the query *)
(* and a container holds elements 0 .. nseg_ - 1 or 0 .. nparam_ - 1.      *)
(***************************************************************************)
EXTENDS UrlSetters

param_key_chars == (pchars \cup {"/", "?", "[", "]"}) \ {"&", "="}
param_value_chars == (pchars \cup {"/", "?"}) \ {"&"}

Join(ss, sep) ==
    FlattenSeq([i \in 1..Len(ss) |-> IF i = 1 THEN ss[i] ELSE <<sep>> \o ss[i]])

-----------------------------------------------------------------------------
\* segments_iter_impl.  start and next delimit the view s_ that dereference()
\* returns; pos is where an edit at the iterator begins: at the '/' in front
\* of the segment, except for the first segment.

path(u) == get(u, id_path)
segment_end(s, k) == Min({j \in k..Len(s) : j = Len(s) \/ s[j + 1] = "/"})

seg_update(u, pos, index) ==
    [index |-> index, pos |-> pos, start |-> pos, next |-> segment_end(path(u), pos)]

seg_begin(u) == seg_update(u, path_prefix(path(u)), 0)

seg_end(u) ==
    [index |-> u.nseg_, pos |-> len(u, id_path), start |-> len(u, id_path),
     next |-> len(u, id_path)]

\* The iterator that edit_segments() returns.
seg_at_slash(u, pos, index) ==
    seg_update(u, IF index = 0 THEN path_prefix(path(u)) ELSE pos, index)
seg_at(u, pos, index) ==
    seg_update(u, IF index = 0 THEN path_prefix(path(u))
                  ELSE IF pos # len(u, id_path) THEN pos + 1 ELSE pos, index)

seg_increment(u, it) ==
    IF it.index + 1 = u.nseg_ THEN [it EXCEPT !.index = @ + 1, !.pos = it.next]
    ELSE [index |-> it.index + 1, pos |-> it.next, start |-> it.next + 1,
          next |-> segment_end(path(u), it.next + 1)]

seg_decrement(u, it) ==
    LET prefix == path_prefix(path(u))
        slash == Max({prefix} \cup {j \in prefix..(it.pos - 1) : path(u)[j + 1] = "/"})
    IN  IF it.index = 1
        THEN [index |-> 0, pos |-> prefix, start |-> prefix, next |-> it.pos]
        ELSE [index |-> it.index - 1, pos |-> slash, start |-> slash + 1, next |-> it.pos]

seg_dereference(u, it) == SubSeq(path(u), it.start + 1, it.next)

\* begin() incremented i times.
seg_nth(u, i) ==
    LET at[k \in 0..i] == IF k = 0 THEN seg_begin(u) ELSE seg_increment(u, at[k - 1])
    IN  at[i]

-----------------------------------------------------------------------------
\* edit_segments().  The new segments are segs, and kind says whether the
\* any_segments_iter is one over plain or over encoded text.

\* 1 when the edited path is to start with '/'.
edit_absolute(u, it0, it1, segs) ==
    IF has_authority(u)
    THEN OneIf(segs # <<>> \/ it0.index # 0 \/ it1.index # u.nseg_)
    ELSE OneIf(is_path_absolute(u))

IsDot(s) == s = <<".">>
HasColon(s) == ":" \in Range(s)

\* The first segment becomes part of a relative path without a scheme in
\* front, and its colons are escaped.
edit_encode_colons_never(u, it0, segs, absolute) == FALSE
edit_encode_colons(u, it0, segs, absolute) ==
    /\ it0.index = 0 /\ segs # <<>> /\ absolute = 0
    /\ HasColon(segs[1]) /\ ~has_scheme(u)

prefix_of_front(segs, absolute) ==
    IF segs[1] = <<>> \/ (IsDot(segs[1]) /\ Len(segs) > 1) THEN 2 + absolute ELSE absolute

\* The first segment of the result is the one it1 points to.
prefix_of_rest(u, it1, absolute) ==
    LET rest == Drop(path(u), it1.pos)
    IN  IF rest = <<>> THEN absolute
        ELSE IF Len(rest) = 1 \/ rest[2] = "/" THEN 2 + absolute
        ELSE IF absolute = 1 THEN 1
        ELSE IF has_scheme(u) \/ ~HasColon(seg_dereference(u, it1)) THEN 0
        ELSE 2

edit_prefix(u, it0, it1, segs, absolute) ==
    IF it0.index > 0 THEN OneIf(segs # <<>>)
    ELSE IF segs # <<>> THEN prefix_of_front(segs, absolute)
    ELSE prefix_of_rest(u, it1, absolute)

PrefixText(n) == <<<<>>, <<"/">>, <<".", "/">>, <<"/", ".", "/">>>>[n + 1]

\* An iterator over plain text encodes it; one over encoded text keeps its escapes.
iter_text(kind, s, charset) ==
    IF kind = "plain" THEN encode(s, charset) ELSE re_encode(s, charset)

\* any_segments_iter: what measure() counts and copy() writes.
segment_texts(segs, colons, kind) ==
    [i \in 1..Len(segs) |-> iter_text(kind, segs[i], IF i = 1 /\ colons THEN pchars \ {":"} ELSE pchars)]

edit_segments(u, it0, it1, segs, kind) ==
    LET absolute == edit_absolute(u, it0, it1, segs)
        colons == edit_encode_colons(u, it0, segs, absolute)
        suffix == it1.index = 0 /\ u.nseg_ > 0 /\ segs # <<>>
        text == PrefixText(edit_prefix(u, it0, it1, segs, absolute))
                    \o Join(segment_texts(segs, colons, kind), "/") \o SlashIf(suffix)
        pos0 == IF it0.index = 0 THEN 0 ELSE it0.pos
        pos1 == IF it1.index = 0 THEN path_prefix(path(u))
                ELSE IF it0.index = 0 /\ it1.index < u.nseg_ /\ segs = <<>> THEN it1.pos + 1
                ELSE it1.pos
        dest == offset(u, id_path) + pos0
        from == offset(u, id_path) + pos1
        grown == Len(text) - (pos1 - pos0)
        u1 == Move(reserve_impl(u, size(u) + grown), dest + Len(text), from, size(u) - from)
        u2 == Terminate(set_size(u1, id_path, len(u, id_path) + grown))
        u3 == [Write(u2, dest, text)
                 EXCEPT !.nseg_ = @ + Len(segs) - (it1.index - it0.index),
                        !.decoded_[id_path] =
                            (@ + decoded_size(text)
                               - decoded_size(SubSeq(path(u), pos0 + 1, pos1))) % SizeT]
    IN  [u |-> u3, it |-> seg_at(u3, pos0, it0.index)]

-----------------------------------------------------------------------------
\* The members of segments_ref and, named encoded_, of segments_encoded_ref.

segments_insert(u, before, s) == edit_segments(u, before, before, <<s>>, "plain")
segments_insert_range(u, before, ss) == edit_segments(u, before, before, ss, "plain")
segments_erase(u, first, last) == edit_segments(u, first, last, <<>>, "encoded")
segments_erase_at(u, pos) == segments_erase(u, pos, seg_increment(u, pos))
segments_replace_at(u, pos, s) == edit_segments(u, pos, seg_increment(u, pos), <<s>>, "plain")
segments_replace(u, from, to, ss) == edit_segments(u, from, to, ss, "plain")
segments_assign(u, ss) == edit_segments(u, seg_begin(u), seg_end(u), ss, "plain")
segments_push_back(u, s) == segments_insert(u, seg_end(u), s)
segments_pop_back(u) == segments_erase_at(u, seg_decrement(u, seg_end(u)))
segments_clear(u) == segments_erase(u, seg_begin(u), seg_end(u))

encoded_segments_insert(u, before, s) == edit_segments(u, before, before, <<s>>, "encoded")
encoded_segments_insert_range(u, before, ss) == edit_segments(u, before, before, ss, "encoded")
encoded_segments_replace_at(u, pos, s) ==
    edit_segments(u, pos, seg_increment(u, pos), <<s>>, "encoded")
encoded_segments_replace(u, from, to, ss) == edit_segments(u, from, to, ss, "encoded")
encoded_segments_assign(u, ss) == edit_segments(u, seg_begin(u), seg_end(u), ss, "encoded")

-----------------------------------------------------------------------------
\* params_iter_impl.  pos is the offset of the '?' or '&' in front of the
\* param, nk the size of the key with it, nv the size of the value with its
\* '=' (0 when there is none), and dk the decoded size of the key.

query(u) == get(u, id_query)

\* The text in front of the first c, or all of it.
Until(s, c) == Take(s, Min({i \in 1..(Len(s) + 1) : i > Len(s) \/ s[i] = c}) - 1)

\* The text of the param that starts after offset pos.
param_text(u, pos) == Until(Drop(query(u), pos + 1), "&")
key_size(text) == Len(Until(text, "="))

param_setup(u, pos, index) ==
    LET text == param_text(u, pos)
        k == key_size(text)
    IN  [index |-> index, pos |-> pos, nk |-> 1 + k, nv |-> Len(text) - k,
         dk |-> decoded_size(Take(text, k))]

\* An iterator that points to the end has no sizes.
param_past(u, pos) == [index |-> u.nparam_, pos |-> pos, nk |-> 0, nv |-> 0, dk |-> 0]
param_end(u) == param_past(u, len(u, id_query))
param_at(u, pos, index) ==
    IF index < u.nparam_ THEN param_setup(u, pos, index) ELSE param_past(u, pos)
param_begin(u) == param_at(u, 0, 0)
param_increment(u, it) == param_at(u, it.pos + it.nk + it.nv, it.index + 1)

\* decrement() looks for the start of the param and for its first '=' from the
\* right.  When it passes a second '=' it restarts the count of the key's
\* escapes without the one for the '?' or '&'.
count_restarted(text) == OneIf(Count(text, "=") > 1)
param_decrement(u, it) ==
    LET pos == Max({0} \cup {j \in 0..(it.pos - 1) : query(u)[j + 1] = "&"})
        found == param_setup(u, pos, it.index - 1)
    IN  [found EXCEPT !.dk = @ + count_restarted(param_text(u, pos))]

\* The decoded key as it is compared: dk characters from its start.
param_key(u, it) == Take(decode(Drop(query(u), it.pos + 1)), it.dk)

\* dereference(): <<key>> or <<key, value>>, decoded.
param_dereference(u, it) ==
    LET text == param_text(u, it.pos)
        key == decode(Take(text, it.nk - 1))
    IN  IF it.nv = 0 THEN <<key>> ELSE <<key, decode(Drop(text, it.nk))>>

param_nth(u, i) ==
    LET at[k \in 0..i] == IF k = 0 THEN param_begin(u) ELSE param_increment(u, at[k - 1])
    IN  at[i]

-----------------------------------------------------------------------------
\* edit_params().  The any_params_iter is a sequence of [skip, text]: the
\* characters of the old param that stay in place, and the text after them.

TextSize(src) == FoldLeft(LAMBDA n, p : n + p.skip + Len(p.text), 0, src)

\* Each element is written after a separator: '?' only at the front.
WriteParams(u, pos, index, src) ==
    LET at[i \in 1..(Len(src) + 1)] ==
            IF i = 1 THEN pos ELSE at[i - 1] + 1 + src[i - 1].skip + Len(src[i - 1].text)
        Sep(i) == IF i = 1 /\ index = 0 THEN <<"?">> ELSE <<"&">>
        Element(v, i) == Write(Write(v, at[i], Sep(i)), at[i] + 1 + src[i].skip, src[i].text)
    IN  FoldLeft(Element, u, [i \in 1..Len(src) |-> i])

SetFirst(u, c, b) == IF b THEN Write(u, offset(u, id_query), <<c>>) ELSE u

\* The decoded size of a range of the query, without one of its separators.
decoded_range_whole(v, a, b) == decoded_size(SubSeq(v.cs_, a + 1, b))
decoded_range(v, a, b) ==
    decoded_size(SubSeq(v.cs_, a + 1, b)) - OneIf(len(v, id_query) > 0)

\* The decoded size of the query after nchar characters replaced those of v
\* from pos0 to pos1.
CountDecoded(u, nchar, v, pos0, pos1) ==
    [u EXCEPT !.decoded_[id_query] =
        (@ + decoded_range(u, pos0, pos0 + nchar) - decoded_range(v, pos0, pos1)) % SizeT]

AtParam(u, it) == [u |-> u, it |-> param_at(u, it.pos, it.index)]

edit_params(u, it0, it1, src) ==
    LET pos0 == offset(u, id_query) + it0.pos
        pos1 == offset(u, id_query) + it1.pos
        nchar == Len(src) + TextSize(src)
        grown == nchar - (pos1 - pos0)
        nparam == u.nparam_ + Len(src) - (it1.index - it0.index)
        u1 == SetFirst(reserve_impl(u, size(u) + grown), "&", u.nparam_ > 0)
        u2 == Move(u1, pos0 + nchar, pos1, size(u) - pos1)
        u3 == [set_size(u2, id_query, len(u, id_query) + grown) EXCEPT !.nparam_ = nparam]
        u4 == Terminate(SetFirst(u3, "?", nparam > 0))
        u5 == WriteParams(u4, pos0, it0.index, src)
    IN  AtParam(CountDecoded(u5, nchar, u, pos0, pos1), it0)

-----------------------------------------------------------------------------
\* The members of params_ref and, named encoded_, of params_encoded_ref.
\* A param is <<key>> or <<key, value>>.

ParamText(p, kind) ==
    iter_text(kind, p[1], param_key_chars)
        \o (IF Len(p) = 1 THEN <<>> ELSE <<"=">> \o iter_text(kind, p[2], param_value_chars))
Written(ps, kind) == [i \in 1..Len(ps) |-> [skip |-> 0, text |-> ParamText(ps[i], kind)]]

params_insert(u, before, ps) == edit_params(u, before, before, Written(ps, "plain"))
params_replace(u, from, to, ps) == edit_params(u, from, to, Written(ps, "plain"))
params_replace_at(u, pos, p) == params_replace(u, pos, param_increment(u, pos), <<p>>)
params_assign(u, ps) == params_replace(u, param_begin(u), param_end(u), ps)
params_append(u, ps) == params_insert(u, param_end(u), ps)
params_erase(u, first, last) == edit_params(u, first, last, <<>>)
params_erase_at(u, pos) == params_erase(u, pos, param_increment(u, pos))

\* param_value_iter leaves the key where it is.
KeepKeyAndSign(it, text) == <<[skip |-> it.nk, text |-> text]>>
KeepKey(it, text) == <<[skip |-> it.nk - 1, text |-> text]>>
params_unset_at(u, pos) == edit_params(u, pos, param_increment(u, pos), KeepKey(pos, <<>>))
params_set_at(u, pos, v) ==
    edit_params(u, pos, param_increment(u, pos),
                KeepKey(pos, <<"=">> \o encode(v, param_value_chars)))

encoded_params_insert(u, before, ps) == edit_params(u, before, before, Written(ps, "encoded"))
encoded_params_replace(u, from, to, ps) == edit_params(u, from, to, Written(ps, "encoded"))
encoded_params_assign(u, ps) == encoded_params_replace(u, param_begin(u), param_end(u), ps)
encoded_params_set_at(u, pos, v) ==
    edit_params(u, pos, param_increment(u, pos),
                KeepKey(pos, <<"=">> \o re_encode(v, param_value_chars)))

\* Comparison of keys; ic is ignore_case.  "A" stands for the capital letters.
to_lower(c) == IF c = "A" THEN "a" ELSE c
SameKey(a, b, ic) ==
    \/ a = b
    \/ ic /\ Len(a) = Len(b) /\ \A i \in 1..Len(a) : to_lower(a[i]) = to_lower(b[i])

\* find() increments from begin(), find_last() decrements from it; both return
\* the end when no key matches.
params_find(u, key, ic) ==
    LET ks == {k \in 0..(u.nparam_ - 1) : SameKey(param_key(u, param_nth(u, k)), key, ic)}
    IN  IF ks = {} THEN param_end(u) ELSE param_nth(u, Min(ks))

params_find_last(u, it, key, ic) ==
    LET Before(k) == param_decrement(u, param_nth(u, k + 1))
        ks == {k \in 0..(it.index - 1) : SameKey(param_key(u, Before(k)), key, ic)}
    IN  IF ks = {} THEN param_end(u) ELSE Before(Max(ks))

params_count(u, key, ic) ==
    Cardinality({k \in 0..(u.nparam_ - 1) : SameKey(param_key(u, param_nth(u, k)), key, ic)})

\* operator* of params_ref reads '+' as a space, find() and find_last() do not.
space_as_plus(u, it) ==
    LET text == Take(param_text(u, it.pos), it.nk - 1)
    IN  Pad(decode(MapChars(text, LAMBDA c : IF c = "+" THEN <<" ">> ELSE <<c>>)), it.dk)

\* erase(key): from the last match to the first.  The key to look for next is
\* taken from the param about to be erased (plus: as operator* of params_ref
\* reads it), because key may point into the url.
RECURSIVE erase_from(_, _, _, _)
erase_prev(u, prev, found, ic, plus) == IF found THEN erase_from(u, prev, ic, plus) ELSE u
erase_and(u, it, prev, ic, plus) ==
    erase_prev(params_erase_at(u, it).u, prev, prev.index # u.nparam_, ic, plus)
erase_from(u, it, ic, plus) ==
    LET key == IF plus THEN space_as_plus(u, it) ELSE param_key(u, it)
    IN  erase_and(u, it, params_find_last(u, it, key, ic), ic, plus)

ErasedKeyOnce(u, last, ic, plus) ==
    IF last.index = u.nparam_ THEN u ELSE params_erase_at(u, last).u
ErasedKey(u, last, ic, plus) ==
    IF last.index = u.nparam_ THEN u ELSE erase_from(u, last, ic, plus)

params_erase_key(u, key, ic) ==
    ErasedKey(u, params_find_last(u, param_end(u), key, ic), ic, TRUE)
encoded_params_erase_key(u, key, ic) ==
    ErasedKey(u, params_find_last(u, param_end(u), decode(key), ic), ic, FALSE)

\* set(key, value): the first match gets the value and the others are erased,
\* from the last.  When find_last() does not find the first match again the
\* code erases at the end iterator; KeyIsFoundAgain says when that is.
RECURSIVE erase_down_to(_, _, _, _)
erase_last(u, last, it0, key, ic) ==
    IF last.index \in {it0.index, u.nparam_} THEN [u |-> u, it |-> it0]
    ELSE erase_down_to(params_erase_at(u, last), it0, key, ic)
erase_down_to(r, it0, key, ic) ==
    erase_last(r.u, params_find_last(r.u, r.it, key, ic), it0, key, ic)

EraseOthers(set, key, ic) == erase_down_to([set EXCEPT !.it = param_end(set.u)], set.it, key, ic)
SetKey(u, it0, set, appended, key, ic) ==
    IF it0.index = u.nparam_ THEN appended ELSE EraseOthers(set, key, ic)

params_set_key(u, key, v, ic) ==
    LET it0 == params_find(u, key, ic)
    IN  SetKey(u, it0, params_set_at(u, it0, v), params_append(u, <<<<key, v>>>>), key, ic)
encoded_params_set_key(u, key, v, ic) ==
    LET it0 == params_find(u, decode(key), ic)
    IN  SetKey(u, it0, encoded_params_set_at(u, it0, v),
               encoded_params_insert(u, param_end(u), <<<<key, v>>>>), decode(key), ic)

KeyIsFoundAgain(v) == "=" \notin Range(v)
=============================================================================
