------------------------------- MODULE UrlImpl -------------------------------
(***************************************************************************)
(* url_impl: the character buffer of a url together with the table that    *)
(* says where each part starts, and the primitive operations on it         *)
(* (detail/url_impl.cpp, and resize_impl/shrink_impl of url_base.cpp).     *)
(*                                                                         *)
(* A url_impl is a record and every operation is a function from records   *)
(* to records, so a setter of url_base is a composition of these           *)
(* operators in the order of the calls in the code.                        *)
(*                                                                         *)
(* Offsets count characters from the start of the buffer, as in the code:  *)
(* the character at offset k is cs_[k + 1].                                *)
(***************************************************************************)
EXTENDS UrlChars

\* detail/parts_base.hpp
id_scheme == -1
id_user == 0
id_pass == 1
id_host == 2
id_port == 3
id_path == 4
id_query == 5
id_frag == 6
id_end == 7

Parts == id_scheme..id_frag
HostTypes == {"none", "name", "ipv4", "ipv6", "ipvfuture"}

\* A default constructed url_impl.  reserved is not a field of the code: it
\* records the largest size passed to reserve_impl() by the operation being
\* evaluated, and is 0 between operations.
empty_url ==
    [cs_ |-> <<>>,
     offset_ |-> [i \in id_user..id_end |-> 0],
     decoded_ |-> [i \in id_user..id_frag |-> 0],
     nseg_ |-> 0,
     nparam_ |-> 0,
     ip_addr_ |-> <<>>,
     port_number_ |-> 0,
     host_type_ |-> "none",
     scheme_ |-> "none",
     reserved |-> 0]

offset(u, id) == IF id = id_scheme THEN 0 ELSE u.offset_[id]
len2(u, first, last) == offset(u, last) - offset(u, first)
len(u, id) == IF id = id_end THEN 0 ELSE len2(u, id, id + 1)
size(u) == offset(u, id_end)
get2(u, first, last) == SubSeq(u.cs_, offset(u, first) + 1, offset(u, last))
get(u, id) == get2(u, id, id + 1)

\* The offset table.
split(u, id, n) == [u EXCEPT !.offset_[id + 1] = offset(u, id) + n]

adjust_right(u, first, last, n) ==
    [u EXCEPT !.offset_ = [i \in first..last |-> @[i] + n] @@ @]

adjust_left(u, first, last, n) == adjust_right(u, first, last, -n)

collapse(u, first, last, n) ==
    [u EXCEPT !.offset_ = [i \in (first + 1)..(last - 1) |-> n] @@ @]

set_size(u, id, n) == adjust_right(u, id + 1, id_end, n - len(u, id))

\* The buffer.  Write copies s to offset pos, Move is op_t::move (a memmove of
\* n characters), and Terminate is s_[size()] = '\0': what lies beyond size()
\* is no longer part of the url.  Unset is the content of a character that no
\* operation wrote.
Unset == "~"

Pad(s, n) == IF n <= Len(s) THEN s ELSE s \o [k \in 1..(n - Len(s)) |-> Unset]

Write(u, pos, s) ==
    [u EXCEPT !.cs_ = Take(Pad(@, pos), pos) \o s \o Drop(@, pos + Len(s))]

Move(u, dest, src, n) == Write(u, dest, SubSeq(u.cs_, src + 1, src + n))

Terminate(u) == [u EXCEPT !.cs_ = Take(Pad(@, size(u)), size(u))]

reserve_impl(u, n) == [u EXCEPT !.reserved = Max({u.reserved, n})]

shrink_impl(u, first, last, new_len) ==
    LET n == len2(u, first, last) - new_len
        pos == offset(u, last)
        moved == Move(u, pos - n, pos, size(u) - pos)
    IN  Terminate(adjust_left(collapse(moved, first, last, pos - n), last, id_end, n))

grow_impl(u, first, last, new_len) ==
    LET n == new_len - len2(u, first, last)
        pos == offset(u, last)
        moved == Move(reserve_impl(u, size(u) + n), pos + n, pos, size(u) - pos)
    IN  Terminate(adjust_right(collapse(moved, first, last, pos + n), last, id_end, n))

resize2(u, first, last, new_len) ==
    LET n0 == len2(u, first, last)
    IN  IF new_len = 0 /\ n0 = 0 THEN u
        ELSE IF new_len <= n0 THEN shrink_impl(u, first, last, new_len)
        ELSE grow_impl(u, first, last, new_len)

resize_impl(u, id, new_len) == resize2(u, id, id + 1, new_len)

\* detail/path.hpp
path_prefix(s) ==
    IF StartsWith(s, <<"/", ".", "/">>) THEN 3
    ELSE IF StartsWith(s, <<"/">>) THEN 1
    ELSE IF StartsWith(s, <<".", "/">>) THEN 2
    ELSE 0

\* nseg is the number of segments that the parser counted.
path_segments(s, nseg) ==
    IF s = <<"/">> THEN 0
    ELSE IF path_prefix(s) > 1 THEN nseg - 1
    ELSE nseg

\* The segments of a path, without the prefix that is not part of them.
Segments(s) ==
    LET rest == Drop(s, path_prefix(s))
    IN  IF s \in {<<>>, <<"/">>} THEN <<>> ELSE SplitAt(rest, "/")
=============================================================================
