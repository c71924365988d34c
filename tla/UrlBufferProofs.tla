-------------------------- MODULE UrlBufferProofs --------------------------
(***************************************************************************)
(* Ownership and bounds of the arrays of UrlBuffer, for any number of urls,*)
(* views, arguments and arrays, any max_size() and any literal.            *)
(***************************************************************************)
EXTENDS UrlBuffer, TLAPS

(* op.old is set by the one reallocation of a modifier, and not before. *)
OldOnce ==
  (step \in {"idle", "ahead", "keep", "duplicate"} \/ (step = "resize" /\ dot = Null))
    => old = Null

(* A url without array has no capacity; a text fits. *)
Fitting ==
  \A x \in Urls : size[x] <= cap_[x] /\ (s_[x] = Null => cap_[x] = 0)

(* What a modifier still has to do fits what it reserved. *)
Planned ==
  /\ step \in {"ahead", "drop", "resize", "move"} =>
       first <= last /\ last <= size[who] /\ (room > 0 \/ first < last)
  /\ step \in {"ahead", "drop"} =>
       /\ dot \in Cells /\ last <= dot /\ dot + 2 <= size[who]
       /\ room > 0 /\ first = 0
  /\ step = "drop" => AheadSize(who, room) <= cap_[who]
  /\ step = "resize" /\ dot # Null => size[who] + room <= cap_[who]
  /\ step = "move" => NewSize(who, first, last, room) <= cap_[who]
  /\ step = "write" => first + room <= size[who]
  /\ step \in {"duplicate", "copy"} =>
       /\ source \in Urls \union Views /\ Owner(source) \in Urls
       /\ room > 0 /\ room = LiveSize(source) /\ room = OwnSize(source)
  /\ step = "copy" => room <= cap_[who]

Owned == TypeOK /\ OwnedOnce /\ PointersAtHome /\ OldOnce /\ Fitting /\ Planned

(* The types that the steps of a modifier rest on. *)
LEMMA ModifierTypes ==
  ASSUME Owned
  PROVE  /\ who \in Urls /\ first \in Cells /\ last \in Cells /\ room \in Sizes
         /\ s_ \in [Urls -> Buffers \union {Null}] /\ cap_ \in [Urls -> Sizes]
         /\ size \in [Urls -> Sizes] /\ mem \in [Buffers -> [Cells -> Chars]]
BY DEF Owned, TypeOK

LEMMA InitOwned == Init => Owned
<1> SUFFICES ASSUME Init PROVE Owned
  OBVIOUS
<1> USE BufferAssumption DEF Init
<1>1. TypeOK
  BY DEF TypeOK, Steps, Cells, Sizes, Slice
<1>2. OwnedOnce /\ PointersAtHome
  BY DEF OwnedOnce, PointersAtHome
<1>3. OldOnce /\ Fitting /\ Planned
  BY DEF OldOnce, Fitting, Planned
<1> QED
  BY <1>1, <1>2, <1>3 DEF Owned

------------------------------------------------------------------------------
(* Between calls nothing is planned. *)
LEMMA IdlePlanned ==
  ASSUME step' = "idle"
  PROVE  Planned'
BY DEF Planned

LEMMA TakeOwned ==
  ASSUME Owned, step = "idle", NEW x \in Urls, NEW y \in Urls,
         deallocate(s_[x]), Take(x, y), pi_' = pi_,
         UNCHANGED <<views, mem, call, step, old, arg>>
  PROVE  Owned'
<1> USE BufferAssumption
<1>1. TypeOK'
  <2>1. s_' \in [Urls -> Buffers \union {Null}] /\ cs_' \in [Urls -> Buffers \union {Null}]
    BY Zenon DEF Owned, TypeOK, Take
  <2>2. 0 \in Sizes
    BY DEF Sizes
  <2>3. cap_' \in [Urls -> Sizes]
    BY <2>2, Zenon DEF Owned, TypeOK, Take
  <2>4. size' \in [Urls -> Sizes]
    BY <2>2, Zenon DEF Owned, TypeOK, Take
  <2> QED
    BY <2>1, <2>3, <2>4 DEF Owned, TypeOK, deallocate, views, call
<1>2. OwnedOnce'
  <2>1. old = Null /\ old' = Null
    BY DEF Owned, OldOnce
  <2>2. \A z, w \in Urls : s_'[z] = s_'[w] /\ s_'[z] # Null => z = w
    BY DEF Owned, OwnedOnce, Take, TypeOK
  <2>3. \A z \in Urls : s_'[z] # Literal
    BY DEF Owned, OwnedOnce, Take, TypeOK
  <2>4. \A z \in Urls : s_'[z] = IF z = y THEN Null ELSE IF z = x THEN s_[y] ELSE s_[z]
    BY DEF Owned, Take, TypeOK
  <2>5. live' = ({Literal, old'} \union {s_'[z] : z \in Urls}) \ {Null}
    <3>1. live' \subseteq ({Literal, old'} \union {s_'[z] : z \in Urls}) \ {Null}
      BY <2>1, <2>4 DEF Owned, OwnedOnce, deallocate
    <3>2. ({Literal, old'} \union {s_'[z] : z \in Urls}) \ {Null} \subseteq live'
      BY <2>1, <2>4 DEF Owned, OwnedOnce, deallocate
    <3> QED
      BY <3>1, <3>2
  <2> QED
    BY <2>1, <2>2, <2>3, <2>5 DEF Owned, OwnedOnce
<1>3. PointersAtHome'
  BY DEF Owned, PointersAtHome, Take, TypeOK
<1>4. OldOnce' /\ Planned'
  BY IdlePlanned DEF Owned, OldOnce, call
<1>5. Fitting'
  BY DEF Owned, Fitting, Take, TypeOK, Sizes
<1> QED
  BY <1>1, <1>2, <1>3, <1>4, <1>5 DEF Owned

LEMMA MoveOwned ==
  ASSUME Owned, NEW x \in Urls, NEW y \in Urls,
         MoveAssign(x, y) \/ MoveConstruct(x, y)
  PROVE  Owned'
<1>1. pi_' = pi_
  BY DEF Owned, PointersAtHome, TypeOK, MoveAssign, MoveConstruct
<1> QED
  BY <1>1, TakeOwned DEF MoveAssign, MoveConstruct

LEMMA DestroyOwned ==
  ASSUME Owned, NEW x \in Urls, Destroy(x)
  PROVE  Owned'
<1> USE BufferAssumption
<1>1. TypeOK'
  BY DEF Owned, TypeOK, Destroy, deallocate, views, call, Sizes
<1>2. OwnedOnce'
  <2>1. old = Null /\ old' = Null
    BY DEF Owned, OldOnce, Destroy
  <2>2. live' = ({Literal, old'} \union {s_'[z] : z \in Urls}) \ {Null}
    BY <2>1 DEF Owned, OwnedOnce, Destroy, TypeOK, deallocate
  <2> QED
    BY <2>1, <2>2 DEF Owned, OwnedOnce, Destroy, TypeOK
<1>3. PointersAtHome'
  BY DEF Owned, PointersAtHome, Destroy, TypeOK
<1>4. OldOnce' /\ Planned'
  BY IdlePlanned DEF Owned, OldOnce, call, Destroy
<1>5. Fitting'
  BY DEF Owned, Fitting, Destroy, TypeOK, Sizes
<1> QED
  BY <1>1, <1>2, <1>3, <1>4, <1>5 DEF Owned

LEMMA SwapOwned ==
  ASSUME Owned, NEW x \in Urls, NEW y \in Urls, Swap(x, y)
  PROVE  Owned'
<1> USE BufferAssumption
<1>1. pi_' = pi_
  BY DEF Owned, PointersAtHome, Swap, swap_pi, Exchanged, TypeOK
<1>2. TypeOK'
  BY <1>1, Zenon DEF Owned, TypeOK, Swap, Exchanged, views, heap, call
<1>3. OwnedOnce'
  <2>1. {s_'[z] : z \in Urls} = {s_[z] : z \in Urls}
    BY ZenonT(60) DEF Owned, Swap, Exchanged, TypeOK
  <2> QED
    BY <2>1, Zenon DEF Owned, OwnedOnce, Swap, Exchanged, TypeOK, heap
<1>4. PointersAtHome'
  BY <1>1 DEF Owned, PointersAtHome, Swap, Exchanged, TypeOK
<1>5. OldOnce' /\ Planned'
  BY IdlePlanned DEF Owned, OldOnce, call, Swap
<1>6. Fitting'
  BY SMTT(60) DEF Owned, Fitting, Swap, Exchanged, TypeOK, Sizes
<1> QED
  BY <1>1, <1>2, <1>3, <1>4, <1>5, <1>6 DEF Owned

LEMMA ClearOwned ==
  ASSUME Owned, NEW x \in Urls, Clear(x)
  PROVE  Owned'
<1> USE BufferAssumption
<1>1. TypeOK'
  <2>1. mem' \in [Buffers -> [Cells -> Chars]]
    BY DEF Owned, TypeOK, Clear, cleared, Cells
  <2> QED
    BY <2>1 DEF Owned, TypeOK, Clear, cleared, views, call, Sizes
<1>2. OwnedOnce' /\ PointersAtHome'
  BY DEF Owned, OwnedOnce, PointersAtHome, Clear, cleared, TypeOK
<1>3. OldOnce' /\ Planned'
  BY IdlePlanned DEF Owned, OldOnce, call, Clear
<1>4. Fitting'
  BY DEF Owned, Fitting, Clear, cleared, TypeOK, Sizes
<1> QED
  BY <1>1, <1>2, <1>3, <1>4 DEF Owned

LEMMA ViewOwned ==
  ASSUME Owned, NEW v \in Views, NEW x \in Urls, ViewOf(v, x) \/ ViewAssign(v, x)
  PROVE  Owned'
<1>1. TypeOK'
  BY Zenon DEF Owned, TypeOK, ViewOf, ViewAssign, url, heap, call
<1>2. OwnedOnce /\ PointersAtHome /\ OldOnce /\ Fitting
      /\ UNCHANGED <<s_, cap_, cs_, pi_, size, live, old, step, dot, who>>
  BY Zenon DEF Owned, ViewOf, ViewAssign, url, heap, call
<1>3. OwnedOnce' /\ PointersAtHome' /\ OldOnce' /\ Fitting'
  BY <1>2 DEF OwnedOnce, PointersAtHome, OldOnce, Fitting
<1>4. Planned'
  BY IdlePlanned DEF ViewOf, ViewAssign
<1> QED
  BY <1>1, <1>3, <1>4 DEF Owned

------------------------------------------------------------------------------
(* A call reads; it allocates and moves nothing. *)
LEMMA BeginOwned ==
  ASSUME Owned, NEW x \in Urls, NEW a \in Cells, NEW b \in Cells, NEW n \in Sizes,
         NEW d \in Cells \union {Null}, NEW w \in Urls \union Views \union {Null},
         NEW t \in [Args -> Slice], NEW o \in SUBSET Args, NEW start \in {"ahead", "resize", "keep", "duplicate"},
         Begin(x, a, b, n, d, w, t, o, start), start = "resize" => d = Null
  PROVE  TypeOK' /\ OwnedOnce' /\ PointersAtHome' /\ OldOnce' /\ Fitting'
<1>0. t \in [Args -> [buf : Buffers, pos : Int, len : Sizes]]
  BY DEF Slice, Cells
<1>1. TypeOK'
  BY <1>0 DEF Owned, TypeOK, Begin, url, views, heap, Steps
<1>2. OldOnce'
  BY DEF Owned, OldOnce, Begin
<1> QED
  BY <1>1, <1>2 DEF Owned, OwnedOnce, PointersAtHome, Fitting, Begin, url, heap

LEMMA NoArgsType == NoArgs \in [Args -> Slice]
BY BufferAssumption DEF NoArgs, Slice, Cells, Sizes

LEMMA ReplaceOwned ==
  ASSUME Owned, NEW x \in Urls, NEW a \in Cells, NEW b \in Cells, NEW n \in Sizes,
         NEW t \in [Args -> Passed], NEW o \in SUBSET Args, Replace(x, a, b, n, t, o)
  PROVE  Owned'
<1>1. t \in [Args -> Slice]
  BY DEF Passed
<1>2. TypeOK' /\ OwnedOnce' /\ PointersAtHome' /\ OldOnce' /\ Fitting'
  BY <1>1, BeginOwned, Zenon DEF Replace
<1>3. Planned'
  BY BufferAssumption DEF Planned, Replace, Begin, url, Cells, Sizes
<1> QED
  BY <1>2, <1>3 DEF Owned

LEMMA SetSchemeOwned ==
  ASSUME Owned, NEW x \in Urls, NEW b \in Cells, NEW n \in Sizes, NEW d \in Cells,
         NEW t \in [Args -> Passed], SetScheme(x, b, n, d, t)
  PROVE  Owned'
<1>1. t \in [Args -> Slice] /\ 0 \in Cells
  BY BufferAssumption DEF Passed, Cells
<1>2. TypeOK' /\ OwnedOnce' /\ PointersAtHome' /\ OldOnce' /\ Fitting'
  BY <1>1, BeginOwned DEF SetScheme
<1>3. Planned'
  BY BufferAssumption DEF Owned, TypeOK, Planned, SetScheme, Begin, url, Cells, Sizes
<1> QED
  BY <1>2, <1>3 DEF Owned

LEMMA ReserveOwned ==
  ASSUME Owned, NEW x \in Urls, NEW n \in Sizes, Reserve(x, n)
  PROVE  Owned'
<1>1. 0 \in Cells
  BY BufferAssumption DEF Cells
<1>2. TypeOK' /\ OwnedOnce' /\ PointersAtHome' /\ OldOnce' /\ Fitting'
  BY <1>1, NoArgsType, BeginOwned, Zenon DEF Reserve
<1>3. Planned'
  BY DEF Planned, Reserve, Begin
<1> QED
  BY <1>2, <1>3 DEF Owned

LEMMA CopyOwned ==
  ASSUME ~StaleViews, Owned, NEW x \in Urls, NEW w \in Urls \union Views, Copy(x, w)
  PROVE  Owned'
<1> USE BufferAssumption
<1>1. 0 \in Cells
  BY DEF Cells
<1>2. Owner(w) \in Urls /\ LiveSize(w) = size[Owner(w)] /\ LiveSize(w) \in Sizes
  BY DEF Owned, TypeOK, Copy, LiveSize, Owner, Sizes
<1>3. TypeOK' /\ OwnedOnce' /\ PointersAtHome' /\ OldOnce' /\ Fitting'
  BY <1>1, <1>2, NoArgsType, BeginOwned, Zenon DEF Copy
<1>4. Planned'
  BY <1>2 DEF Planned, Copy, Begin, url, views, Owner, LiveSize, OwnSize
<1> QED
  BY <1>3, <1>4 DEF Owned

------------------------------------------------------------------------------
(* The growth policy gives room for n within max_size(). *)
LEMMA GrownFits ==
  ASSUME NEW c \in Sizes, NEW n \in Sizes
  PROVE  grown(c, n) \in Sizes /\ n <= grown(c, n)
BY BufferAssumption DEF grown, Sizes

(* A modifier reserves at least what it asks for, and reallocates at most  *)
(* once.                                                                   *)
LEMMA DoReserveOwned ==
  ASSUME Owned, DoReserve
  PROVE  Owned'
<1> USE BufferAssumption
<1> DEFINE n == Asked
<1>1. n \in Int /\ step \in {"ahead", "resize", "keep", "duplicate"}
  BY DEF DoReserve, AfterReserve, Asked, AheadSize, NewSize, Owned, TypeOK, Cells, Sizes
<1>2. n > cap_[who] => old = Null
  BY DEF DoReserve, AfterReserve, Owned, OldOnce, Planned, Asked, NewSize, TypeOK, Cells, Sizes
<1>3. CASE Throw(n)
  <2>1. TypeOK'
    BY <1>3 DEF Throw, Owned, TypeOK, DoReserve, url, views, heap, call, Steps
  <2>2. OldOnce' /\ Planned'
    BY <1>3 DEF Throw, OldOnce, Planned
  <2> QED
    BY <1>3, <2>1, <2>2 DEF Throw, Owned, OwnedOnce, PointersAtHome, Fitting, url, heap
<1>4. CASE step' = AfterReserve[step] /\ Fits(n)
  <2>1. step' \in {"drop", "move", "end", "copy"}
    BY <1>1, <1>4 DEF AfterReserve
  <2>2. TypeOK'
    BY <1>4, <2>1 DEF Fits, Owned, TypeOK, DoReserve, url, views, heap, call, Steps
  <2>3. OldOnce'
    BY <2>1 DEF OldOnce
  <2>4. Planned'
    BY <1>1, <1>4, <2>1 DEF Fits, DoReserve, Planned, AfterReserve, Asked, Owned, url, views, call,
                            AheadSize, NewSize, Owner, OwnSize, LiveSize
  <2> QED
    BY <1>4, <2>2, <2>3, <2>4 DEF Fits, Owned, OwnedOnce, PointersAtHome, Fitting, url, heap
<1>5. CASE step' = AfterReserve[step] /\ \E b \in Buffers \ live : FirstAllocation(b, n) \/ Reallocation(b, n)
  <2> PICK b \in Buffers \ live : FirstAllocation(b, n) \/ Reallocation(b, n)
    BY <1>5
  <2>1. step' \in {"drop", "move", "end", "copy"} /\ n \in Sizes /\ old = Null /\ n > cap_[who]
    <3>1. n > cap_[who] /\ n <= MaxSize
      BY Zenon DEF FirstAllocation, Reallocation
    <3>2. n \in Sizes
      BY <1>1, <3>1, ModifierTypes DEF Sizes
    <3>3. step' \in {"drop", "move", "end", "copy"}
      BY <1>1, <1>5 DEF AfterReserve
    <3> QED
      BY <1>2, <3>1, <3>2, <3>3, Zenon
  <2>2. PICK c \in Sizes : n <= c /\ Allocate(b, c)
    <3> HIDE DEF n
    <3>1. n <= n /\ grown(cap_[who], n) \in Sizes /\ n <= grown(cap_[who], n)
      <4>1. cap_[who] \in Sizes
        BY ModifierTypes
      <4>2. n <= n
        BY <2>1 DEF Sizes
      <4> QED
        BY <2>1, <4>1, <4>2, GrownFits
    <3>2. Allocate(b, n) \/ Allocate(b, grown(cap_[who], n))
      BY DEF FirstAllocation, Reallocation
    <3> QED
      BY <2>1, <3>1, <3>2
  <2>3. mem' \in [Buffers -> [Cells -> Chars]]
    <3>1. CASE FirstAllocation(b, n)
      BY <3>1, ModifierTypes DEF FirstAllocation, Cells
    <3>2. CASE Reallocation(b, n)
      <4>1. memmove(mem[b], 0, mem[s_[who]], 0, size[who] + 1) \in [Cells -> Chars]
        BY <3>2, ModifierTypes DEF Reallocation, memmove, Cells, Sizes
      <4> QED
        BY <3>2, <4>1, ModifierTypes DEF Reallocation
    <3> QED
      BY <3>1, <3>2
  <2>4. old' = s_[who] /\ size' = size /\ pi_' = pi_
    BY <2>1 DEF FirstAllocation, Reallocation
  <2>5. TypeOK'
    BY <2>1, <2>2, <2>3, <2>4, Zenon DEF Allocate, Owned, TypeOK, DoReserve, views, call, Steps
  <2>6. OwnedOnce'
    <3>1. \A z \in Urls : s_'[z] = IF z = who THEN b ELSE s_[z]
      BY <2>2, ModifierTypes DEF Allocate
    <3>2. \A z \in Urls : s_[z] # b
      BY DEF Owned, OwnedOnce, TypeOK
    <3>3. live' = ({Literal, old'} \union {s_'[z] : z \in Urls}) \ {Null}
      <4>1. live' \subseteq ({Literal, old'} \union {s_'[z] : z \in Urls}) \ {Null}
        BY <3>1, <2>1, <2>2, <2>4 DEF Owned, OwnedOnce, TypeOK, Allocate
      <4>2. ({Literal, old'} \union {s_'[z] : z \in Urls}) \ {Null} \subseteq live'
        BY <3>1, <2>1, <2>2, <2>4 DEF Owned, OwnedOnce, TypeOK, Allocate
      <4> QED
        BY <4>1, <4>2
    <3>4. b # Literal
      BY DEF Owned, OwnedOnce
    <3> QED
      BY <2>4, <3>1, <3>2, <3>3, <3>4 DEF Owned, OwnedOnce, TypeOK
  <2>7. PointersAtHome'
    <3>1. cs_ \in [Urls -> Buffers \union {Null}] /\ PointersAtHome
      BY DEF Owned, TypeOK
    <3> QED
      BY <2>2, <2>4, <3>1, ModifierTypes DEF Allocate, PointersAtHome
  <2>8. OldOnce'
    BY <2>1 DEF OldOnce
  <2>9. Fitting'
    <3>1. Fitting /\ cap_[who] \in Int
      BY ModifierTypes DEF Owned, Sizes
    <3>2. size[who] <= c
      BY <2>1, <2>2, <3>1, ModifierTypes DEF Fitting, Sizes
    <3>3. s_'[who] = b /\ cap_'[who] = c /\ b # Null
      BY <2>2, ModifierTypes DEF Allocate
    <3>4. \A z \in Urls : z # who => s_'[z] = s_[z] /\ cap_'[z] = cap_[z]
      BY <2>2, ModifierTypes DEF Allocate
    <3> QED
      BY <2>4, <3>1, <3>2, <3>3, <3>4, Zenon DEF Fitting
  <2>10. Planned'
    <3>1. cap_'[who] = c /\ who' = who /\ who \in Urls
      BY <2>2, ModifierTypes DEF Allocate, DoReserve, call
    <3> QED
      BY <1>1, <1>5, <2>1, <2>2, <2>4, <3>1
         DEF DoReserve, Planned, AfterReserve, Asked, Owned, views, call,
             AheadSize, NewSize, Owner, OwnSize, LiveSize
  <2> QED
    BY <2>5, <2>6, <2>7, <2>8, <2>9, <2>10 DEF Owned
<1> QED
  BY <1>3, <1>4, <1>5 DEF DoReserve, reserve_impl

------------------------------------------------------------------------------
(* Moving the tail keeps the array's type. *)
LEMMA MoveType ==
  ASSUME NEW cells \in [Cells -> Chars], NEW dest \in Int, NEW src \in Int, NEW n \in Int,
         0 <= src, src + n <= MaxSize + 1
  PROVE  memmove(cells, dest, cells, src, n) \in [Cells -> Chars]
BY BufferAssumption DEF memmove, Cells

(* What op_t::move leaves alone. *)
LEMMA OpMoveOwned ==
  ASSUME Owned, NEW dest \in Int, NEW src \in Int, 0 <= dest, 0 <= src, src <= size[who],
         s_[who] # Null, size[who] + dest - src \in Sizes, size[who] + dest - src <= cap_[who],
         op_move(dest, src),
         UNCHANGED <<s_, cap_, cs_, pi_, views, live, call, old>>, step' \in Steps
  PROVE  TypeOK' /\ OwnedOnce' /\ PointersAtHome' /\ Fitting'
<1>1. mem' \in [Buffers -> [Cells -> Chars]]
  <2>1. mem[s_[who]] \in [Cells -> Chars] /\ s_[who] \in Buffers
    BY ModifierTypes
  <2>2. size[who] \in Int /\ size[who] <= MaxSize /\ MaxSize \in Int
    BY BufferAssumption, ModifierTypes DEF Sizes
  <2>3. /\ size[who] + 1 - src \in Int
        /\ src + (size[who] + 1 - src) <= MaxSize + 1
    BY <2>2
  <2>4. memmove(mem[s_[who]], dest, mem[s_[who]], src, size[who] + 1 - src) \in [Cells -> Chars]
    BY <2>1, <2>3, MoveType
  <2> QED
    BY <2>1, <2>4, ModifierTypes DEF op_move
<1>2. size' \in [Urls -> Sizes] /\ arg' \in [Args -> [buf : Buffers, pos : Int, len : Sizes]]
  <2>1. size' \in [Urls -> Sizes]
    BY ModifierTypes DEF op_move
  <2>2. ASSUME NEW k \in Args
        PROVE  [arg[k] EXCEPT !.pos = @ + dest - src] \in [buf : Buffers, pos : Int, len : Sizes]
    <3>1. arg[k] \in [buf : Buffers, pos : Int, len : Sizes]
      BY DEF Owned, TypeOK
    <3>2. arg[k].pos + dest - src \in Int
      BY <3>1
    <3> QED
      BY <3>1, <3>2
  <2>3. arg' \in [Args -> [buf : Buffers, pos : Int, len : Sizes]]
    <3>1. arg \in [Args -> [buf : Buffers, pos : Int, len : Sizes]]
      BY DEF Owned, TypeOK
    <3> QED
      BY <2>2, <3>1 DEF op_move
  <2> QED
    BY <2>1, <2>3, Zenon
<1>3. TypeOK'
  BY <1>1, <1>2 DEF Owned, TypeOK, views, call
<1>4. Fitting'
  <2>1. Fitting
    BY DEF Owned
  <2>2. \A x \in Urls : size'[x] = IF x = who THEN size[who] + dest - src ELSE size[x]
    BY ModifierTypes DEF op_move
  <2> QED
    BY <2>1, <2>2 DEF Fitting
<1>5. OwnedOnce /\ PointersAtHome
  BY DEF Owned
<1> QED
  BY <1>3, <1>4, <1>5 DEF OwnedOnce, PointersAtHome

LEMMA DropDotOwned ==
  ASSUME Owned, DropDot
  PROVE  Owned'
<1> USE BufferAssumption
<1>1. /\ dot \in Cells /\ last <= dot /\ dot + 2 <= size[who] /\ first <= last
      /\ room > 0 /\ first = 0 /\ AheadSize(who, room) <= cap_[who]
  BY DEF DropDot, Owned, Planned
<1>2. size[who] \in Sizes /\ cap_[who] \in Sizes /\ size[who] <= cap_[who] /\ who \in Urls
      /\ room \in Sizes /\ last \in Cells
  BY ModifierTypes DEF Owned, Fitting
<1>3. s_[who] # Null
  BY <1>1, <1>2 DEF Owned, Fitting, Sizes, Cells
<1>4. size[who] + dot - (dot + 2) \in Sizes /\ size[who] + dot - (dot + 2) <= cap_[who]
  BY <1>1, <1>2 DEF Sizes, Cells
<1>5. TypeOK' /\ OwnedOnce' /\ PointersAtHome' /\ Fitting'
  BY <1>1, <1>2, <1>3, <1>4, OpMoveOwned DEF DropDot, Cells, Steps
<1>6. size'[who] = size[who] - 2 /\ who' = who /\ UNCHANGED <<cap_, first, last, room, dot>>
  BY <1>1, <1>2, ModifierTypes DEF DropDot, op_move, call, Cells, Sizes
<1>7. OldOnce' /\ Planned'
  BY <1>1, <1>2, <1>6, SMTT(60) DEF DropDot, OldOnce, Planned, AheadSize, Cells, Sizes
<1> QED
  BY <1>5, <1>7 DEF Owned

LEMMA MoveStepOwned ==
  ASSUME Owned, Move
  PROVE  Owned'
<1> USE BufferAssumption
<1>1. /\ first <= last /\ last <= size[who] /\ (room > 0 \/ first < last)
      /\ NewSize(who, first, last, room) <= cap_[who]
  BY DEF Move, Owned, Planned
<1>2. /\ size[who] \in Sizes /\ cap_[who] \in Sizes /\ size[who] <= cap_[who] /\ who \in Urls
      /\ room \in Sizes /\ last \in Cells /\ first \in Cells
  BY ModifierTypes DEF Owned, Fitting
<1>3. s_[who] # Null
  BY <1>1, <1>2 DEF Owned, Fitting, NewSize, Sizes, Cells
<1>4. /\ size[who] + (first + room) - last \in Sizes
      /\ size[who] + (first + room) - last <= cap_[who]
  BY <1>1, <1>2 DEF NewSize, Sizes, Cells
<1>5. TypeOK' /\ OwnedOnce' /\ PointersAtHome' /\ Fitting'
  <2>1. first + room \in Int /\ 0 <= first + room /\ last \in Int /\ 0 <= last
    BY <1>2 DEF Sizes, Cells
  <2> QED
    BY <1>1, <1>2, <1>3, <1>4, <2>1, OpMoveOwned DEF Move, Steps
<1>6. size'[who] = size[who] + (first + room) - last /\ who' = who /\ UNCHANGED <<first, last, room>>
  BY <1>1, <1>2, ModifierTypes DEF Move, op_move, call
<1>7. OldOnce' /\ Planned'
  BY <1>1, <1>2, <1>6 DEF Move, OldOnce, Planned, Cells, Sizes
<1> QED
  BY <1>5, <1>7 DEF Owned

=============================================================================
