----------------------------- MODULE UrlBuffer -----------------------------
(***************************************************************************)
(* The memory of a url: the buffer s_ each url owns, the op_t object of a  *)
(* modifier in progress, the characters it moves, and the views (url_view, *)
(* string_view) that point into a buffer meanwhile.  A static_url behaves  *)
(* as a url that reserved its capacity and whose allocations fail since.   *)
(*                                                                         *)
(* A modifier replaces the cells first .. last-1 of a url by `room' cells  *)
(* and fills them from its arguments.  Each argument is a string_view: a   *)
(* run of cells of some buffer, perhaps the very one that is about to move.*)
(* The modifier runs in the steps of the code: reserve_impl, op_t::move,   *)
(* the copy of the arguments, and the destructor of op_t.                  *)
(***************************************************************************)
EXTENDS Integers

CONSTANTS
  Urls,       \* the url objects
  Views,      \* the url_view objects
  Args,       \* the string_view arguments of a modifier (s0, s1 of op_t)
  Buffers,    \* addresses of character arrays
  Literal,    \* an array no url owns: the text of a caller's literal
  Null,       \* nullptr
  Chars,      \* what a cell may hold, Nul included
  Nul,        \* the null terminator
  MaxSize,    \* max_size()
  Text0,      \* the cells of Literal
  StaleViews  \* TRUE: a url_view may be copied from after its url changed

ASSUME BufferAssumption ==
  /\ Literal \in Buffers /\ Urls \intersect Views = {}
  /\ Null \notin Buffers \union Urls \union Views \union 0 .. MaxSize
  /\ Nul \in Chars
  /\ MaxSize \in Nat
  /\ Text0 \in [0 .. MaxSize -> Chars]
  /\ StaleViews \in BOOLEAN

VARIABLES
  s_,     \* url_base::s_
  cap_,   \* url_base::cap_
  cs_,    \* impl_.cs_, Null for the static empty string
  pi_,    \* whose impl_ the pi_ of a url points to
  size,   \* impl_.offset(id_end)
  vpi,    \* whose impl_ the pi_ of a view points to, Null for its own
  vsize,  \* the size in the impl_ of a view, a copy from its construction
  mem,    \* the cells of every array
  live,   \* the arrays allocated
  step,   \* where the modifier in progress is
  who,    \* the url it modifies
  old,    \* op.old
  first, last, room, dot,
          \* it replaces first .. last-1 by room cells and drops "./" at dot
  arg,    \* the arguments, string_views that op_t::move adjusts
  told,   \* those that op_t was told of
  given,  \* what they held when it was called
  before, \* what the url held when it was called
  source  \* the url or view that copy() reads

url == <<s_, cap_, cs_, pi_, size>>
views == <<vpi, vsize>>
heap == <<mem, live>>
call == <<who, first, last, room, dot, told, given, before, source>>
vars == <<url, views, heap, call, step, old, arg>>

Cells == 0 .. MaxSize
Sizes == 0 .. MaxSize
Slice == [buf : Buffers, pos : Cells, len : Sizes]

(* The text of a run of cells. *)
Text(cells, pos, len) == [i \in 0 .. len - 1 |-> cells[pos + i]]

(***************************************************************************)
(* The array `to' after memmove or memcpy of the cells src .. src+n-1 of   *)
(* the array `from' to its cell dest.                                      *)
(***************************************************************************)
memmove(to, dest, from, src, n) ==
  [i \in Cells |-> IF dest <= i /\ i < dest + n THEN from[i - dest + src]
                                                ELSE to[i]]

(* The cells from .. to-1 hold c. *)
fill(cells, from, to, c) ==
  [i \in Cells |-> IF from <= i /\ i < to THEN c ELSE cells[i]]

(***************************************************************************)
(* url(): no buffer.                                                       *)
(***************************************************************************)
Init ==
  /\ s_ = [x \in Urls |-> Null]
  /\ cap_ = [x \in Urls |-> 0]
  /\ cs_ = s_
  /\ pi_ = [x \in Urls |-> x]
  /\ size = [x \in Urls |-> 0]
  /\ vpi = [v \in Views |-> Null]
  /\ vsize = [v \in Views |-> 0]
  /\ mem = [b \in Buffers |->
              IF b = Literal THEN Text0 ELSE [i \in Cells |-> Nul]]
  /\ live = {Literal}
  /\ step = "idle" /\ old = Null
  /\ who \in Urls
  /\ first = 0 /\ last = 0 /\ room = 0 /\ dot = Null /\ source = Null
  /\ arg = [k \in Args |-> [buf |-> Literal, pos |-> 0, len |-> 0]]
  /\ told = Args
  /\ given = [k \in Args |-> Text(Text0, 0, 0)]
  /\ before = Text(Text0, 0, 0)

------------------------------------------------------------------------------
(***************************************************************************)
(* The views.  A url_view made from a url copies its impl_ and points pi_  *)
(* to the url's own; one that is assigned a url only moves pi_.            *)
(***************************************************************************)
ViewOf(v, x) ==
  /\ step = "idle"
  /\ vpi' = [vpi EXCEPT ![v] = x]
  /\ vsize' = [vsize EXCEPT ![v] = size[x]]
  /\ UNCHANGED <<url, heap, call, step, old, arg>>

ViewAssign(v, x) ==
  /\ step = "idle" /\ vpi[v] # x
  /\ vpi' = [vpi EXCEPT ![v] = x]
  /\ UNCHANGED <<url, vsize, heap, call, step, old, arg>>

(* No view is left on a url that goes away. *)
Unviewed(x) == \A v \in Views : vpi[v] # x

------------------------------------------------------------------------------
(***************************************************************************)
(* Members that move buffers between urls, each in one step.               *)
(***************************************************************************)
(* Mutant: the url that was moved from keeps s_. *)
TakeKept(x, y) ==
  /\ s_' = [s_ EXCEPT ![x] = s_[y]]
  /\ cap_' = [cap_ EXCEPT ![x] = cap_[y]]
  /\ cs_' = [cs_ EXCEPT ![x] = cs_[y]]
  /\ size' = [size EXCEPT ![x] = size[y]]

(* u.s_ = nullptr, u.cap_ = 0, u.impl_ = {from::url}, after x took them. *)
Take(x, y) ==
  /\ s_' = [s_ EXCEPT ![x] = s_[y], ![y] = Null]
  /\ cap_' = [cap_ EXCEPT ![x] = cap_[y], ![y] = 0]
  /\ cs_' = [cs_ EXCEPT ![x] = cs_[y], ![y] = Null]
  /\ size' = [size EXCEPT ![x] = size[y], ![y] = 0]

deallocate(b) == live' = live \ {b}

MoveAssign(x, y) ==
  /\ step = "idle"
  /\ deallocate(s_[x])
  /\ Take(x, y)
  /\ UNCHANGED <<pi_, views, mem, call, step, old, arg>>

(* The object x is destroyed and constructed again from y. *)
MoveConstruct(x, y) ==
  /\ step = "idle" /\ x # y /\ Unviewed(x)
  /\ deallocate(s_[x])
  /\ Take(x, y)
  /\ pi_' = [pi_ EXCEPT ![x] = x]
  /\ UNCHANGED <<views, mem, call, step, old, arg>>

(* The object x is destroyed and constructed again without arguments. *)
Destroy(x) ==
  /\ step = "idle" /\ Unviewed(x)
  /\ deallocate(s_[x])
  /\ s_' = [s_ EXCEPT ![x] = Null]
  /\ cap_' = [cap_ EXCEPT ![x] = 0]
  /\ cs_' = [cs_ EXCEPT ![x] = Null]
  /\ size' = [size EXCEPT ![x] = 0]
  /\ pi_' = [pi_ EXCEPT ![x] = x]
  /\ UNCHANGED <<views, mem, call, step, old, arg>>

Exchanged(f, x, y) == [f EXCEPT ![x] = f[y], ![y] = f[x]]

(* Mutant: pi_ is only exchanged. *)
swap_pi_only(x, y) == Exchanged(pi_, x, y)

(* pi_ is exchanged too, then brought home. *)
swap_pi(x, y) ==
  LET p == Exchanged(pi_, x, y)
  IN  [p EXCEPT ![x] = IF p[x] = y THEN x ELSE p[x],
                ![y] = IF p[y] = x THEN y ELSE p[y]]

Swap(x, y) ==
  /\ step = "idle" /\ x # y
  /\ s_' = Exchanged(s_, x, y)
  /\ cap_' = Exchanged(cap_, x, y)
  /\ cs_' = Exchanged(cs_, x, y)
  /\ size' = Exchanged(size, x, y)
  /\ pi_' = swap_pi(x, y)
  /\ UNCHANGED <<views, heap, call, step, old, arg>>

(* clear_impl: the capacity stays. *)
cleared(x) ==
  /\ size' = [size EXCEPT ![x] = 0]
  /\ mem' = IF s_[x] = Null THEN mem ELSE [mem EXCEPT ![s_[x]][0] = Nul]
  /\ cs_' = [cs_ EXCEPT ![x] = s_[x]]

Clear(x) ==
  /\ step = "idle"
  /\ cleared(x)
  /\ UNCHANGED <<s_, cap_, pi_, views, live, call, step, old, arg>>

------------------------------------------------------------------------------
(***************************************************************************)
(* reserve_impl(n, op), then the step `next'.  It throws when n is too     *)
(* large or the allocation fails, before anything has changed.             *)
(***************************************************************************)
grown(cap, n) ==
  LET h == cap \div 2
      c == IF cap <= MaxSize - h THEN cap + h ELSE MaxSize
  IN  IF c < n THEN n ELSE c

Fits(n) ==
  /\ n <= cap_[who]
  /\ UNCHANGED <<url, heap, old>>

Allocate(b, n) ==
  /\ cap_' = [cap_ EXCEPT ![who] = n]
  /\ s_' = [s_ EXCEPT ![who] = b]
  /\ cs_' = [cs_ EXCEPT ![who] = b]
  /\ live' = live \union {b}

FirstAllocation(b, n) ==
  /\ n > cap_[who] /\ n <= MaxSize /\ s_[who] = Null
  /\ Allocate(b, n)
  /\ mem' = [mem EXCEPT ![b][0] = Nul]
  /\ UNCHANGED <<pi_, size, old>>

(* Mutant: the old array is freed by nobody. *)
ReallocationForgets(b, n) ==
  /\ n > cap_[who] /\ n <= MaxSize /\ s_[who] # Null
  /\ Allocate(b, grown(cap_[who], n))
  /\ mem' = [mem EXCEPT ![b] = memmove(mem[b], 0, mem[s_[who]], 0, size[who] + 1)]
  /\ UNCHANGED <<pi_, size, old>>

Reallocation(b, n) ==
  /\ n > cap_[who] /\ n <= MaxSize /\ s_[who] # Null
  /\ Allocate(b, grown(cap_[who], n))
  /\ mem' = [mem EXCEPT ![b] = memmove(mem[b], 0, mem[s_[who]], 0, size[who] + 1)]
  /\ old' = s_[who]
  /\ UNCHANGED <<pi_, size>>

reserve_impl(n, next) ==
  /\ \/ Fits(n)
     \/ \E b \in Buffers \ live : FirstAllocation(b, n) \/ Reallocation(b, n)
  /\ step' = next

(* The exception leaves the modifier through the destructor of op_t. *)
Throw(n) ==
  /\ n > cap_[who]
  /\ step' = "thrown"
  /\ UNCHANGED <<url, heap, old>>

------------------------------------------------------------------------------
(***************************************************************************)
(* The call of a modifier.  An argument is a run of characters of a literal*)
(* or of the text of some url.  op_t adjusts those it was told of;         *)
(* set_encoded_query does not tell it of any.                              *)
(***************************************************************************)
UrlText(x) == IF s_[x] = Null THEN Text(Text0, 0, 0)
                              ELSE Text(mem[s_[x]], 0, size[x])

Passed == {t \in Slice : \/ t.buf = Literal /\ t.pos = 0
                         \/ \E y \in Urls : t.buf = s_[y] /\ t.pos + t.len <= size[y]}

(* Mutant: the difference is taken the wrong way round. *)
NewSizeSwapped(x, a, b, n) == size[x] - n + (b - a)

(* What reserve_impl is asked for, first by set_scheme_impl, which drops   *)
(* "./" from the path, and then by resize_impl.                            *)
AheadSize(x, n) == size[x] + n - 2
NewSize(x, a, b, n) == size[x] + n - (b - a)

(* The argument k is out of the way of the moves: in another buffer, before*)
(* or behind the cells that are replaced, or among those that remain in    *)
(* place; or the url gets a new buffer.  An argument from the end of the   *)
(* part it replaces is overwritten by what moves there, and one from behind*)
(* op_t was not told of is not adjusted.                                   *)
OutOfTheWay(x, a, b, n, d, k, t, o) ==
  t[k].buf = s_[x] =>
    LET pos == t[k].pos
        end == t[k].pos + t[k].len
    IN  \/ end <= a
        \/ a <= pos /\ end <= b /\ end <= a + n
        \/ b <= pos /\ k \in o /\ (d # Null => end <= d \/ d + 2 <= pos)
        \/ cap_[x] < IF d = Null THEN NewSize(x, a, b, n) ELSE AheadSize(x, n)

(* The constructor of op_t, with the views s0 and s1. *)
Begin(x, a, b, n, d, w, t, o, start) ==
  /\ step = "idle" /\ step' = start
  /\ who' = x /\ first' = a /\ last' = b /\ room' = n /\ dot' = d /\ source' = w
  /\ arg' = t /\ told' = o
  /\ given' = [k \in Args |-> Text(mem[t[k].buf], t[k].pos, t[k].len)]
  /\ before' = UrlText(x)
  /\ UNCHANGED <<url, views, heap, old>>

(* A modifier that calls resize_impl for the parts in a .. b-1. *)
Replace(x, a, b, n, t, o) ==
  /\ a <= b /\ b <= size[x] /\ (n > 0 \/ a < b)
  /\ \A k \in Args : t[k].len <= n /\ OutOfTheWay(x, a, b, n, Null, k, t, o)
  /\ Begin(x, a, b, n, Null, Null, t, o, "resize")

(* Mutant: "./" is dropped before anything is reserved. *)
SetSchemeDropsFirst(x, b, n, d, t) ==
  /\ n > 0 /\ b <= d /\ d + 2 <= size[x]
  /\ \A k \in Args : t[k].len <= n /\ OutOfTheWay(x, 0, b, n, d, k, t, Args)
  /\ Begin(x, 0, b, n, d, Null, t, Args, "drop")

(* set_scheme_impl on a url whose path starts with "./" at d. *)
SetScheme(x, b, n, d, t) ==
  /\ n > 0 /\ b <= d /\ d + 2 <= size[x]
  /\ \A k \in Args : t[k].len <= n /\ OutOfTheWay(x, 0, b, n, d, k, t, Args)
  /\ Begin(x, 0, b, n, d, Null, t, Args, "ahead")

NoArgs == [k \in Args |-> [buf |-> Literal, pos |-> 0, len |-> 0]]

(* reserve(n); the Nul it writes at the end is there already. *)
Reserve(x, n) == Begin(x, 0, 0, n, Null, Null, NoArgs, Args, "keep")

(* The url whose impl_ the pi_ of w points to, and the impl_ of w itself. *)
Owner(w) == IF w \in Views THEN vpi[w] ELSE w
OwnSize(w) == IF w \in Views THEN vsize[w] ELSE size[w]
LiveSize(w) == IF Owner(w) = Null THEN 0 ELSE size[Owner(w)]

Copy(x, w) ==
  /\ x # w /\ LiveSize(w) > 0
  /\ StaleViews \/ OwnSize(w) = LiveSize(w)
  /\ Begin(x, 0, 0, LiveSize(w), Null, w, NoArgs, Args, "duplicate")

(* copy() of an empty url clears. *)
CopyEmpty(x, w) ==
  /\ x # w /\ LiveSize(w) = 0
  /\ Clear(x)

------------------------------------------------------------------------------
(***************************************************************************)
(* The steps of a modifier.                                                *)
(***************************************************************************)
Asked == CASE step = "ahead"  -> AheadSize(who, room)
           [] step = "resize" -> NewSize(who, first, last, room)
           [] OTHER           -> room

AfterReserve == [ahead |-> "drop", resize |-> "move", keep |-> "end", duplicate |-> "copy"]

DoReserve ==
  /\ step \in DOMAIN AfterReserve
  /\ reserve_impl(Asked, AfterReserve[step]) \/ Throw(Asked)
  /\ UNCHANGED <<views, call, arg>>

is_overlapping(t, src) ==
  t.buf = s_[who] /\ src < t.pos + t.len /\ t.pos <= size[who]

(* Mutants: the terminator stays behind; no argument is adjusted. *)
op_moveWithoutEnd(dest, src) ==
  /\ mem' = [mem EXCEPT ![s_[who]] = memmove(@, dest, @, src, size[who] - src)]
  /\ size' = [size EXCEPT ![who] = @ + dest - src]
  /\ arg' = [k \in Args |-> IF k \in told /\ is_overlapping(arg[k], src)
                            THEN [arg[k] EXCEPT !.pos = @ + dest - src] ELSE arg[k]]

op_moveOnly(dest, src) ==
  /\ mem' = [mem EXCEPT ![s_[who]] = memmove(@, dest, @, src, size[who] + 1 - src)]
  /\ size' = [size EXCEPT ![who] = @ + dest - src]
  /\ arg' = arg

(* op.move(s_ + dest, s_ + src, ...) of everything from src, Nul included. *)
op_move(dest, src) ==
  /\ mem' = [mem EXCEPT ![s_[who]] = memmove(@, dest, @, src, size[who] + 1 - src)]
  /\ size' = [size EXCEPT ![who] = @ + dest - src]
  /\ arg' = [k \in Args |-> IF k \in told /\ is_overlapping(arg[k], src)
                            THEN [arg[k] EXCEPT !.pos = @ + dest - src] ELSE arg[k]]

DropDot ==
  /\ step = "drop" /\ step' = "resize"
  /\ op_move(dot, dot + 2)
  /\ UNCHANGED <<s_, cap_, cs_, pi_, views, live, call, old>>

Move ==
  /\ step = "move" /\ step' = "write"
  /\ op_move(first + room, last)
  /\ UNCHANGED <<s_, cap_, cs_, pi_, views, live, call, old>>

(* The new text, made from the arguments: some character c. *)
Write(c) ==
  /\ step = "write" /\ step' = "end"
  /\ mem' = [mem EXCEPT ![s_[who]] = fill(@, first, first + room, c)]
  /\ UNCHANGED <<url, views, live, call, old, arg>>

(* Mutant: one character less. *)
CopyTextShort ==
  /\ step = "copy" /\ step' = "copied"
  /\ size' = [size EXCEPT ![who] = OwnSize(source)]
  /\ mem' = [mem EXCEPT ![s_[who]] =
               [memmove(@, 0, mem[cs_[Owner(source)]], 0, room - 1)
                  EXCEPT ![OwnSize(source)] = Nul]]
  /\ UNCHANGED <<s_, cap_, cs_, pi_, views, live, call, old, arg>>

CopyText ==
  /\ step = "copy" /\ step' = "copied"
  /\ size' = [size EXCEPT ![who] = OwnSize(source)]
  /\ mem' = [mem EXCEPT ![s_[who]] =
               [memmove(@, 0, mem[cs_[Owner(source)]], 0, room)
                  EXCEPT ![OwnSize(source)] = Nul]]
  /\ UNCHANGED <<s_, cap_, cs_, pi_, views, live, call, old, arg>>

(* ~op_t *)
Cleanup ==
  /\ step \in {"end", "copied", "thrown"} /\ step' = "idle"
  /\ deallocate(old)
  /\ old' = Null
  /\ first' = 0 /\ last' = 0 /\ room' = 0 /\ dot' = Null /\ source' = Null
  /\ arg' = NoArgs
  /\ told' = Args
  /\ given' = [k \in Args |-> Text(Text0, 0, 0)]
  /\ before' = Text(Text0, 0, 0)
  /\ UNCHANGED <<url, views, mem, who>>

(* What the program that owns the urls may call. *)
Calls ==
  /\ step = "idle"
  /\ \/ \E x, y \in Urls : MoveAssign(x, y) \/ MoveConstruct(x, y) \/ Swap(x, y)
     \/ \E x \in Urls : Destroy(x) \/ Clear(x)
     \/ \E v \in Views, x \in Urls : ViewOf(v, x) \/ ViewAssign(v, x)
     \/ \E x \in Urls, a, b \in Cells, n \in Sizes, t \in [Args -> Passed],
          o \in {{}, Args} : Replace(x, a, b, n, t, o)
     \/ \E x \in Urls, b, d \in Cells, n \in Sizes, t \in [Args -> Passed] :
          SetScheme(x, b, n, d, t)
     \/ \E x \in Urls, n \in Sizes : Reserve(x, n)
     \/ \E x \in Urls, w \in Urls \union Views : Copy(x, w) \/ CopyEmpty(x, w)

Next ==
  \/ Calls
  \/ DoReserve \/ DropDot \/ Move \/ (\E c \in Chars \ {Nul} : Write(c))
  \/ CopyText \/ Cleanup

Spec == Init /\ [][Next]_vars

------------------------------------------------------------------------------
(***************************************************************************)
(* Properties.                                                             *)
(***************************************************************************)
Steps == {"idle", "ahead", "drop", "resize", "move", "write", "keep",
          "duplicate", "copy", "copied", "thrown", "end"}

(* Every variable has its type. *)
TypeOK ==
  /\ s_ \in [Urls -> Buffers \union {Null}]
  /\ cap_ \in [Urls -> Sizes]
  /\ cs_ \in [Urls -> Buffers \union {Null}]
  /\ pi_ \in [Urls -> Urls]
  /\ size \in [Urls -> Sizes]
  /\ vpi \in [Views -> Urls \union {Null}]
  /\ vsize \in [Views -> Sizes]
  /\ mem \in [Buffers -> [Cells -> Chars]]
  /\ live \subseteq Buffers
  /\ step \in Steps
  /\ who \in Urls
  /\ old \in Buffers \union {Null}
  /\ first \in Cells /\ last \in Cells /\ room \in Sizes
  /\ dot \in Cells \union {Null}
  /\ arg \in [Args -> [buf : Buffers, pos : Int, len : Sizes]]
  /\ told \subseteq Args
  /\ source \in Urls \union Views \union {Null}

(* Every array is owned once: no two urls share one, an op_t owns none that*)
(* a url uses, and an array is allocated exactly while it has an owner, so *)
(* that none is leaked, freed twice or used after delete[].                *)
OwnedOnce ==
  /\ \A x, y \in Urls : s_[x] = s_[y] /\ s_[x] # Null => x = y
  /\ \A x \in Urls : s_[x] # Literal /\ (old # Null => s_[x] # old)
  /\ old # Literal
  /\ live = ({Literal, old} \union {s_[x] : x \in Urls}) \ {Null}

(* A url reads the text it owns: impl_.cs_ is s_ and pi_ is its own impl_, *)
(* whatever was moved, swapped, cleared or reallocated.                    *)
PointersAtHome == \A x \in Urls : cs_[x] = s_[x] /\ pi_[x] = x

(* The text fits its buffer and ends with Nul, as ~url and check_invariants*)
(* assert, at every step of a modifier.                                    *)
EndsInItsBuffer ==
  \A x \in Urls :
    /\ size[x] <= cap_[x]
    /\ IF s_[x] = Null THEN cap_[x] = 0 ELSE mem[s_[x]][size[x]] = Nul

(* When a modifier starts to read its arguments they are in an allocated   *)
(* array and hold what was passed, also when they come from the url it     *)
(* modifies and the characters moved or got a new buffer in between.       *)
ArgumentsIntact ==
  step = "write" =>
    \A k \in Args :
      /\ arg[k].buf \in live
      /\ Text(mem[arg[k].buf], arg[k].pos, arg[k].len) = given[k]

(* The strong guarantee: a modifier that throws leaves the url's text.     *)
StrongGuarantee == step = "thrown" => UrlText(who) = before

(* A copy holds the text of what was copied (url.hpp: this->buffer() ==    *)
(* u.buffer()).                                                            *)
CopyHoldsSource ==
  step = "copied" =>
    /\ size[who] = room
    /\ Text(mem[s_[who]], 0, room) = Text(mem[cs_[Owner(source)]], 0, room)

(* A modifier changes the text of no other url. *)
OthersUntouched ==
  [][step # "idle" => \A x \in Urls : x # who => UrlText(x)' = UrlText(x)]_vars

=============================================================================
